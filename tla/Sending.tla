------------------------------ MODULE Sending -------------------------------
(***************************************************************************)
(* A TCPSender driven the way TCPConnection drives it, against a peer that *)
(* may acknowledge anything with any window, in any order.  The owner      *)
(* takes every segment out of the queue before the next call, and follows  *)
(* each call that may make room or add data by fill_window.                *)
(*                                                                         *)
(* Each iteration of the loops of fill_window and ack_received is a step;  *)
(* nobody touches the sender before the call returns.                      *)
(***************************************************************************)
EXTENDS TCPSender

CONSTANTS
    Isn,               \* the sender's initial sequence number
    MaxBytes,          \* bound: bytes the application ever writes
    SendCapacity,      \* capacity of the outgoing stream
    MaxWindow,         \* largest window the peer advertises, 2^16-1 in the code
    RtTimeout,         \* initial retransmission timeout
    MaxTick,           \* bound: longest time between two ticks
    MAX_RETX_ATTEMPTS  \* retransmissions before the connection is reset

ASSUME SendingAssumption ==
    /\ Isn \in RawSeqno
    /\ MaxBytes \in Nat
    /\ SendCapacity \in Nat \ {0}
    /\ MaxWindow \in Nat \ {0}
    /\ RtTimeout \in Nat \ {0}
    /\ MaxTick \in Nat \ {0}
    /\ MAX_RETX_ATTEMPTS \in Nat
    /\ MaxWindow < HalfSeq
    /\ MaxBytes + 2 < AbsMod
    /\ SendCapacity < SizeMod

\* Arithmetic, which TLC evaluates for the provers: what doubling does to a
\* power of two.
ASSUME DoublingAssumption ==
    \A n \in 0 .. MAX_RETX_ATTEMPTS : 2 ^ n \in Nat /\ 2 ^ (n + 1) = 2 * 2 ^ n

VARIABLES
    s,    \* the TCPSender
    act   \* the call in progress: its loop and the locals of the loop

vars == <<s, act>>

NoFill == [window |-> 1, syn |-> FALSE, more |-> FALSE]
Idle == [call |-> "idle", f |-> NoFill, a |-> 0]
Filling(t) == [call |-> "fill", f |-> fill_begin(t), a |-> 0]
Acking(a) == [call |-> "ack", f |-> NoFill, a |-> a]

Drained(t) == [t EXCEPT !.segments_out = <<>>]

Init ==
    /\ s = NewTCPSender(SendCapacity, RtTimeout, Isn)
    /\ act = Idle

\* TCPConnection::connect, and the arrival of a segment without ACK.
FillWindow ==
    /\ act = Idle
    /\ s' = Drained(s)
    /\ act' = Filling(s')

\* TCPConnection::write
Write(n) ==
    /\ act = Idle
    /\ ~ByteStream_input_ended(s.stream)
    /\ s.stream.bytes_written + n <= MaxBytes
    /\ s' = [Drained(s) EXCEPT !.stream =
                ByteStream_write(@, Bytes(@.bytes_written, @.bytes_written + n))]
    /\ act' = Filling(s')

\* TCPConnection::end_input_stream
EndInput ==
    /\ act = Idle
    /\ s' = [Drained(s) EXCEPT !.stream = ByteStream_end_input(@)]
    /\ act' = Filling(s')

\* TCPConnection::segment_received with the ACK flag.
AckReceived(ackno, window) ==
    LET a == ackno_abs(s, ackno)
    IN  /\ act = Idle
        /\ s' = ack_begin(Drained(s), a, window)
        /\ act' = IF acceptable(s, a) THEN Acking(a) ELSE Filling(s')

AckPop ==
    /\ act.call = "ack"
    /\ fully_acked(s, act.a)
    /\ s' = ack_pop(s)
    /\ UNCHANGED act

AckFinish ==
    /\ act.call = "ack"
    /\ ~fully_acked(s, act.a)
    /\ s' = ack_finish(s)
    /\ act' = Filling(s')

FillStep ==
    /\ act.call = "fill"
    /\ act.f.more
    /\ s' = fill_once(s, act.f).s
    /\ act' = [act EXCEPT !.f = fill_once(s, act.f).f]

FillReturn ==
    /\ act.call = "fill"
    /\ ~act.f.more
    /\ act' = Idle
    /\ UNCHANGED s

\* TCPConnection::tick; after too many retransmissions it resets the connection,
\* and the owner of an inactive connection ticks no more.
Tick(ms) ==
    /\ act = Idle
    /\ s.consecutive_retrans <= MAX_RETX_ATTEMPTS
    /\ s' = TCPSender_tick(Drained(s), ms)
    /\ UNCHANGED act

SendEmptySegment ==
    /\ act = Idle
    /\ s' = TCPSender_send_empty_segment(Drained(s))
    /\ UNCHANGED act

Next ==
    \/ FillWindow
    \/ \E n \in 1 .. MaxBytes : Write(n)
    \/ EndInput
    \/ \E ackno \in RawSeqno, window \in 0 .. MaxWindow : AckReceived(ackno, window)
    \/ AckPop
    \/ AckFinish
    \/ FillStep
    \/ FillReturn
    \/ \E ms \in 1 .. MaxTick : Tick(ms)
    \/ SendEmptySegment

Spec == Init /\ [][Next]_vars

-----------------------------------------------------------------------------
SegEnd(seg) == seg.abs + length_in_sequence_space(seg)

\* The place in the application's stream of a segment's first payload byte.
PayloadAt(seg) == IF seg.syn THEN seg.abs ELSE seg.abs - 1

\* A segment is a faithful piece of the stream: its number is the wrapped
\* absolute one, SYN is at 0 and nowhere else, FIN is behind the last byte.
IsPiece(seg) ==
    /\ seg.seqno = wrap(seg.abs, Isn)
    /\ seg.syn <=> seg.abs = 0
    /\ seg.payload = Bytes(PayloadAt(seg), PayloadAt(seg) + Len(seg.payload))
    /\ PayloadAt(seg) + Len(seg.payload) <= s.stream.bytes_read
    /\ seg.fin => /\ s.is_transmission_ended
                  /\ SegEnd(seg) = s.stream.bytes_written + 2

\* Types and ranges of the fields that the loops use.
TypeOK ==
    /\ s.next_seqno \in 0 .. MaxBytes + 2
    /\ s.una_seqno \in 0 .. MaxBytes + 2
    /\ s.window_size \in 0 .. MaxWindow
    /\ s.bytes_in_flight \in 0 .. MaxWindow
    /\ s.consecutive_retrans \in 0 .. MAX_RETX_ATTEMPTS + 1
    /\ s.is_transmission_ended \in BOOLEAN
    /\ act.call \in {"idle", "fill", "ack"}

\* The segments of q follow each other without gap or overlap up to nxt, and
\* bif numbers are between the start of the first one and nxt.
IsChain(q, nxt, bif) ==
    /\ \A k \in 1 .. Len(q) - 1 : SegEnd(q[k]) = q[k + 1].abs
    /\ q = <<>> => bif = 0
    /\ q # <<>> => /\ SegEnd(q[Len(q)]) = nxt
                   /\ bif = nxt - q[1].abs

\* una lies in the first segment of q, or is nxt.
InFront(q, una, nxt) ==
    /\ q = <<>> => una = nxt
    /\ q # <<>> => q[1].abs <= una /\ una < SegEnd(q[1])

(***************************************************************************)
(* tcp_sender.cc:61-62, 96-98: the queue of outstanding segments is a      *)
(* chain without gaps or overlaps that ends at _next_seqno, and the        *)
(* counter _bytes_in_flight is exactly its length, in every loop iteration.*)
(***************************************************************************)
InFlightAccounting == IsChain(s.outstanding, s.next_seqno, s.bytes_in_flight)

(***************************************************************************)
(* tcp_sender.cc:92-104: between two calls the oldest unacknowledged       *)
(* number lies in the oldest outstanding segment, so that a segment is     *)
(* outstanding exactly as long as something in it is not acknowledged.     *)
(***************************************************************************)
UnaInFront == act.call # "ack" => InFront(s.outstanding, s.una_seqno, s.next_seqno)

(***************************************************************************)
(* tcp_sender.cc:76, 112-117, 132-133: outside ack_received the timer runs *)
(* exactly when something is outstanding, so nothing outstanding is ever   *)
(* forgotten.                                                              *)
(***************************************************************************)
TimerRuns == act.call # "ack" => (s.timer.is_start <=> s.outstanding # <<>>)

(***************************************************************************)
(* tcp_sender.cc:107-108, 128-133: the timeout is the initial one doubled  *)
(* once per counted retransmission, and a running timer runs to it.        *)
(***************************************************************************)
Backoff ==
    /\ s.cur_rto = RtTimeout * 2 ^ s.consecutive_retrans
    /\ act.call # "ack" /\ s.timer.is_start => s.timer.ddl = s.cur_rto

(***************************************************************************)
(* Every segment that is outstanding or leaves the sender, first time or   *)
(* again, is a faithful piece of the stream.                               *)
(***************************************************************************)
StreamInSegments ==
    /\ \A k \in 1 .. Len(s.outstanding) : IsPiece(s.outstanding[k])
    /\ \A k \in 1 .. Len(s.segments_out) :
           LET seg == s.segments_out[k]
           IN  length_in_sequence_space(seg) > 0 => IsPiece(seg)

(***************************************************************************)
(* tcp_sender.cc:37-38, 72-78, tcp_connection.cc:88, 122, 150: when a call *)
(* has returned and nothing is outstanding (so that no timer will ever     *)
(* wake the sender), nothing that could be sent has been left behind.      *)
(***************************************************************************)
NothingStuck ==
    act = Idle /\ s.next_seqno > 0 /\ s.outstanding = <<>> =>
        /\ ByteStream_buffer_empty(s.stream)
        /\ ByteStream_input_ended(s.stream) => s.is_transmission_ended

(***************************************************************************)
(* tcp_sender.cc:35-42, 57, 65, 78: a new segment never goes beyond the    *)
(* window that the peer advertised last, counted from the oldest           *)
(* unacknowledged number; a closed window counts as one.                   *)
(***************************************************************************)
WindowRespected ==
    [][s'.next_seqno > s.next_seqno =>
           s'.next_seqno <= s'.una_seqno + MaxOf(s'.window_size, 1)]_vars

(***************************************************************************)
(* note.md:71 (an ackno outside SND.UNA < SEG.ACK <= SND.NXT must be       *)
(* dropped and must not affect other state), tests/send_extra.cc           *)
(* "Repeated ACKs and outdated ACKs are harmless": an acknowledgment older *)
(* than one already processed leaves the sender's window alone.            *)
(***************************************************************************)
OutdatedAckHarmless ==
    [][\A ackno \in RawSeqno, window \in 0 .. MaxWindow :
           AckReceived(ackno, window) /\ ackno_abs(s, ackno) < s.una_seqno =>
               s'.window_size = s.window_size]_vars
=============================================================================
