----------------------------- MODULE Receiving ------------------------------
(***************************************************************************)
(* A TCPReceiver between a network and a reader.  The peer's stream of     *)
(* StreamLen bytes is cut once and for all into segments of seg_len bytes, *)
(* numbered from the SYN at PeerIsn; the FIN rides on the last one.  The   *)
(* network delivers them in any order and any number of times, together    *)
(* with segments without data.                                             *)
(*                                                                         *)
(* A segment on the wire starts inside the window the receiver has         *)
(* advertised, and is no older than MaxAge numbers: the assumption about   *)
(* segment lifetimes without which 32-bit numbers are ambiguous.           *)
(***************************************************************************)
EXTENDS TCPReceiver, PeerStream

CONSTANTS
    MaxSegLen,  \* largest payload of a segment
    PeerIsn,    \* the peer's initial sequence number
    MaxAge      \* how far behind the stream a late segment may be

ASSUME ReceivingAssumption ==
    /\ MaxSegLen \in Nat \ {0}
    /\ PeerIsn \in RawSeqno
    /\ MaxAge \in Nat
    /\ Capacity + MaxSegLen + 1 < HalfSeq
    /\ MaxAge + 1 < HalfSeq
    /\ StreamLen + 2 < AbsMod

VARIABLES
    rc,      \* the TCPReceiver
    wire,    \* the segment that has arrived and is not yet handled, or none
    seg_len  \* payload of the peer's segments

vars == <<rc, wire, seg_len>>

NoSegment == <<>>

\* The absolute number after all that the receiver has.
Received ==
    IF rc.isn = NoValue THEN 0
    ELSE rc.reassembler.cur_index + 1
             + Bit(ByteStream_input_ended(TCPReceiver_stream_out(rc)))

Segment(abs, payload, syn, fin) ==
    [NewTCPSegment EXCEPT !.seqno = wrap(abs, PeerIsn), !.abs = abs,
                          !.payload = payload, !.syn = syn, !.fin = fin]

SynSegment == Segment(0, <<>>, TRUE, FALSE)

DataSegment(i) ==
    LET j == MinOf(i + seg_len, StreamLen)
    IN  Segment(i + 1, Bytes(i, j), FALSE, j = StreamLen)

\* Where the peer's data segments start.
Cuts == {i \in 0 .. StreamLen - 1 : i % seg_len = 0}

OnTheWire(abs) ==
    /\ abs <= Received + TCPReceiver_window_size(rc)
    /\ abs + MaxAge >= Received

Init ==
    /\ rc = NewTCPReceiver(Capacity)
    /\ wire = NoSegment
    /\ seg_len \in 1 .. MaxSegLen

Arrive(seg) ==
    /\ wire = NoSegment
    /\ OnTheWire(seg.abs)
    /\ wire' = <<seg>>
    /\ UNCHANGED <<rc, seg_len>>

SynArrives == Arrive(SynSegment)

\* Data comes only after the handshake has given the receiver the ISN.
DataArrives(i) ==
    /\ rc.isn # NoValue
    /\ Arrive(DataSegment(i))

\* An acknowledgment without data carries the next number of the peer.
EmptyArrives(abs) ==
    /\ rc.isn # NoValue
    /\ Arrive(Segment(abs, <<>>, FALSE, FALSE))

SegmentReceived ==
    /\ wire # NoSegment
    /\ rc' = TCPReceiver_segment_received(rc, Head(wire))
    /\ wire' = NoSegment
    /\ UNCHANGED seg_len

Read(n) ==
    /\ wire = NoSegment
    /\ n <= ByteStream_buffer_size(TCPReceiver_stream_out(rc))
    /\ rc' = [rc EXCEPT !.reassembler.output = ByteStream_read(@, n).stream]
    /\ UNCHANGED <<wire, seg_len>>

Next ==
    \/ SynArrives
    \/ \E i \in Cuts : DataArrives(i)
    \/ \E abs \in {i + 1 : i \in Cuts} \cup {StreamLen + 2} : EmptyArrives(abs)
    \/ SegmentReceived
    \/ \E n \in 1 .. Capacity : Read(n)

Spec == Init /\ [][Next]_vars

\* The peer resends the segment that holds the first byte it has no
\* acknowledgment for.
Retransmit ==
    \/ rc.isn = NoValue /\ SynArrives
    \/ \E i \in Cuts : /\ i <= rc.reassembler.cur_index
                       /\ rc.reassembler.cur_index < i + seg_len
                       /\ DataArrives(i)

(***************************************************************************)
(* The receiver gets to handle what has arrived, the reader keeps reading, *)
(* and the peer resends until it is acknowledged.  Both are disabled while *)
(* a segment is being handled, so weak fairness would not oblige them.     *)
(***************************************************************************)
FairSpec ==
    /\ Spec
    /\ []<>(wire = NoSegment)
    /\ SF_vars(Retransmit)
    /\ SF_vars(\E n \in 1 .. Capacity : Read(n))

-----------------------------------------------------------------------------
(***************************************************************************)
(* wrapping_integers.hh:30 "the absolute sequence number that wraps to `n` *)
(* and is closest to `checkpoint`": for the checkpoint that                *)
(* tcp_receiver.cc:30 passes, wherever the stream is in its turns, and for *)
(* every raw number that may arrive.                                       *)
(***************************************************************************)
UnwrapIsClosest ==
    LET checkpoint == rc.reassembler.cur_index
    IN  \A n \in RawSeqno : IsClosest(unwrap(n, PeerIsn, checkpoint), n, PeerIsn, checkpoint)

(***************************************************************************)
(* tcp_receiver.cc:29-30: across any number of turns of the 32-bit         *)
(* numbers, every byte reaches the reader at its own place in the stream.  *)
(***************************************************************************)
OutputInOrder ==
    LET out == TCPReceiver_stream_out(rc)
    IN  out.str = Bytes(out.bytes_read, rc.reassembler.cur_index)

(***************************************************************************)
(* tcp_receiver.hh:37-38 "the sequence number of the first byte in the     *)
(* stream that the receiver hasn't received": the acknowledgment covers    *)
(* the SYN, the assembled bytes, and the FIN exactly when all is in, be it *)
(* read or not.                                                            *)
(***************************************************************************)
AckIsFirstMissing ==
    rc.isn # NoValue =>
        LET n == rc.reassembler.cur_index
        IN  /\ n \notin Held(rc.reassembler.list)
            /\ TCPReceiver_ackno(rc) = wrap(n + 1 + Bit(n = StreamLen), PeerIsn)

RightEdge == rc.reassembler.cur_index + TCPReceiver_window_size(rc)

(***************************************************************************)
(* tcp_receiver.hh:43-50: the right edge of the window, the acknowledgment *)
(* number plus the window, never moves back: what the peer was allowed to  *)
(* send stays allowed.                                                     *)
(***************************************************************************)
RightEdgeNeverShrinks == [][RightEdge' >= RightEdge]_vars

\* The first cut whose segment has the number of the SYN, turns later, or the
\* end of the stream.
Deliverable == Min({i \in Cuts : (i + 1) % SeqnoMod = 0} \cup {StreamLen})

\* The reader has the whole stream and its end, and the FIN is acknowledged.
AllRead ==
    /\ TCPReceiver_stream_out(rc).bytes_read = StreamLen
    /\ ByteStream_eof(TCPReceiver_stream_out(rc))
    /\ TCPReceiver_ackno(rc) = wrap(StreamLen + 2, PeerIsn)

(***************************************************************************)
(* tcp_receiver.hh:13 "Receives and reassembles segments into a            *)
(* ByteStream": with a peer that resends and a reader that reads, the      *)
(* whole stream and its end are delivered and the FIN is acknowledged, if  *)
(* no segment starts a whole number of turns behind the SYN.  One that     *)
(* does is "Invalid seqno" to tcp_receiver.cc:25-27 each time it is        *)
(* resent; the reader then gets the bytes in front of it and no more.      *)
(***************************************************************************)
Delivered ==
    <>[](/\ TCPReceiver_stream_out(rc).bytes_read = Deliverable
         /\ Deliverable = StreamLen => AllRead)

(***************************************************************************)
(* The same without the exception, which tcp_receiver.cc:26 refutes.       *)
(***************************************************************************)
AlwaysDelivered == <>AllRead
=============================================================================
