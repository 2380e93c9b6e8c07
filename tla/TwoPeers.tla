------------------------------ MODULE TwoPeers ------------------------------
(***************************************************************************)
(* Two TCPConnections, a client "a" that connects and a server "b" that    *)
(* listens, each driven by its owner as TCPSpongeSocket drives it (the     *)
(* rules of _initialize_TCP, _tcp_loop), over a network that may lose,     *)
(* duplicate and reorder segments.  wire[p] is the queue of segments on    *)
(* their way to p.                                                         *)
(*                                                                         *)
(* A step of an owner is one callback and the transmission of what it      *)
(* queued: whatever happens in between could as well happen in the network.*)
(***************************************************************************)
EXTENDS TCPConnection

CONSTANTS
    BytesA, BytesB,  \* bound: bytes that a and b write
    RecvCapacity,    \* receive capacity of both
    SendCapacity,    \* send capacity of both
    RtTimeout,       \* initial retransmission timeout, and length of a tick
    IsnA, IsnB,      \* initial sequence numbers
    MaxFaults,       \* bound: losses, duplications and overtakings in all
    NetCap,          \* bound: segments on their way to one peer
    FinWaits,        \* TRUE: an application shuts down when all is acknowledged
    Patient,         \* TRUE: the clocks agree, and run only between two messages
    Abortable        \* the peers whose owner may drop the socket while it is open

ASSUME TwoPeersAssumption ==
    /\ BytesA \in Nat /\ BytesB \in Nat
    /\ RecvCapacity \in Nat \ {0} /\ SendCapacity \in Nat \ {0} /\ RtTimeout \in Nat \ {0}
    /\ IsnA \in RawSeqno /\ IsnB \in RawSeqno
    /\ MaxFaults \in Nat /\ NetCap \in Nat \ {0}
    /\ FinWaits \in BOOLEAN /\ Patient \in BOOLEAN

Peers == {"a", "b"}
Other(p) == IF p = "a" THEN "b" ELSE "a"
ToWrite(p) == IF p = "a" THEN BytesA ELSE BytesB
Isn(p) == IF p = "a" THEN IsnA ELSE IsnB

VARIABLES
    conn,    \* the connection of each peer
    wire,    \* the segments on their way to each peer
    faults,  \* how often the network has misbehaved
    gone     \* the peers that have dropped their connection

vars == <<conn, wire, faults, gone>>

Init ==
    /\ conn = [p \in Peers |->
                  NewTCPConnection(RecvCapacity, SendCapacity, RtTimeout, Isn(p))]
    /\ wire = [p \in Peers |-> <<>>]
    /\ faults = 0
    /\ gone = {}

\* The TCP thread of p runs; an exception in it has ended the process.
Running(p) == p \notin gone /\ ~conn[p].receiver.reassembler.thrown
Alive(p) == Running(p) /\ active(conn[p])

\* connect() and listen_and_accept() have returned.
Open(p) ==
    state(conn[p]) \notin {Official.LISTEN, Official.SYN_SENT, Official.SYN_RCVD}

\* p's connection becomes c, after its owner has sent what it queued (rule 4),
\* and w is what is left on the way to p.
Becomes(p, c, w) ==
    /\ conn' = [conn EXCEPT ![p] = [c EXCEPT !.segments_out = <<>>]]
    /\ wire' = [wire EXCEPT ![p] = w, ![Other(p)] = @ \o c.segments_out]

Connect ==
    /\ conn["a"].sender.next_seqno = 0
    /\ Alive("a")
    /\ Becomes("a", connect(conn["a"]), wire["a"])
    /\ UNCHANGED <<faults, gone>>

\* Rule 1: the k-th segment arrives; a later one overtakes those before it.
Deliver(p, k) ==
    /\ Alive(p)
    /\ k \in 1 .. Len(wire[p])
    /\ k > 1 => faults < MaxFaults
    /\ Becomes(p, segment_received(conn[p], wire[p][k]), Erased(wire[p], k))
    /\ faults' = faults + Bit(k > 1)
    /\ UNCHANGED gone

\* A copy arrives and the segment stays on its way.
Duplicate(p) ==
    /\ Alive(p)
    /\ wire[p] # <<>>
    /\ faults < MaxFaults
    /\ Becomes(p, segment_received(conn[p], Head(wire[p])), wire[p])
    /\ faults' = faults + 1
    /\ UNCHANGED gone

\* The network loses a segment; one for a peer that has stopped is dropped.
Lose(p) ==
    /\ wire[p] # <<>>
    /\ Alive(p) => faults < MaxFaults
    /\ faults' = faults + Bit(Alive(p))
    /\ wire' = [wire EXCEPT ![p] = Tail(@)]
    /\ UNCHANGED <<conn, gone>>

\* Rule 2 may be served: the application of p has not shut down.  In the pass
\* in which a reset arrives the rule has its turn all the same.
CanSend(p) ==
    /\ Running(p)
    /\ active(conn[p]) \/ has_error(conn[p])
    /\ Open(p)
    /\ ~ByteStream_input_ended(conn[p].sender.stream)
    /\ ByteStream_remaining_capacity(conn[p].sender.stream) > 0

CanWrite(p) == CanSend(p) /\ conn[p].sender.stream.bytes_written < ToWrite(p)

CanEnd(p) ==
    /\ CanSend(p)
    /\ conn[p].sender.stream.bytes_written = ToWrite(p)
    /\ FinWaits => conn[p].sender.bytes_in_flight = 0

CanRead(p) == Running(p) /\ ~ByteStream_buffer_empty(inbound_stream(conn[p]))

\* Rule 2: bytes from the application, no more than there is room for.
Write(p, n) ==
    LET st == conn[p].sender.stream
    IN  /\ CanWrite(p)
        /\ n <= MinOf(ByteStream_remaining_capacity(st), ToWrite(p) - st.bytes_written)
        /\ Becomes(p, write(conn[p], Bytes(st.bytes_written, st.bytes_written + n)), wire[p])
        /\ UNCHANGED <<faults, gone>>

\* Rule 2: the application has shut down its side; nothing was read from it.
EndInput(p) ==
    /\ CanEnd(p)
    /\ Becomes(p, end_input_stream(write(conn[p], <<>>)), wire[p])
    /\ UNCHANGED <<faults, gone>>

\* Rule 3: bytes to the application.
Read(p, n) ==
    /\ CanRead(p)
    /\ n <= ByteStream_buffer_size(inbound_stream(conn[p]))
    /\ conn' = [conn EXCEPT ![p].receiver.reassembler.output = ByteStream_read(@, n).stream]
    /\ UNCHANGED <<wire, faults, gone>>

Quiet == \A q \in Peers : wire[q] = <<>>

\* The peers of ps that the clock may reach now: clocks of their own, or a
\* common one that is slower than the network.
MayTick(ps) ==
    /\ \E p \in ps : Alive(p)
    /\ IF Patient THEN ps = Peers /\ Quiet ELSE Cardinality(ps) = 1
    /\ \A p \in ps : Len(wire[Other(p)]) < NetCap

\* _tcp_loop ticks an active connection.
Tick(ps) ==
    LET ticked == [p \in Peers |-> IF p \in ps /\ Alive(p) THEN tick(conn[p], RtTimeout)
                                  ELSE conn[p]]
    IN  /\ MayTick(ps)
        /\ conn' = [p \in Peers |-> [ticked[p] EXCEPT !.segments_out = <<>>]]
        /\ wire' = [p \in Peers |-> wire[p] \o ticked[Other(p)].segments_out]
        /\ UNCHANGED <<faults, gone>>

\* ~TCPSpongeSocket, then ~TCPConnection: the queue goes with the object, and
\* with it the RST and the last segments that have not been sent yet.
Abort(p) ==
    /\ p \in Abortable
    /\ Running(p)
    /\ Open(p)
    /\ conn' = [conn EXCEPT ![p] = [destroy(@) EXCEPT !.segments_out = <<>>]]
    /\ gone' = gone \cup {p}
    /\ \E sent \in 0 .. Len(wire[Other(p)]) :
           wire' = [wire EXCEPT ![Other(p)] = SubSeq(@, 1, sent)]
    /\ UNCHANGED faults

Next ==
    \/ Connect
    \/ \E p \in Peers :
           \/ \E k \in 1 .. NetCap + 2 : Deliver(p, k)
           \/ Duplicate(p)
           \/ Lose(p)
           \/ \E n \in 1 .. SendCapacity : Write(p, n)
           \/ EndInput(p)
           \/ \E n \in 1 .. RecvCapacity : Read(p, n)
           \/ Abort(p)
    \/ \E ps \in SUBSET Peers : Tick(ps)

Spec == Init /\ [][Next]_vars

(***************************************************************************)
(* The network delivers what it does not lose, the clock runs, the         *)
(* applications write what they have, shut down and keep reading: the      *)
(* event loop polls all of these again and again.  Losses for a peer that  *)
(* has stopped, writes, ends and reads come to an end between two ticks,   *)
(* so fairness to them says that they leave nothing to do; deliveries and  *)
(* ticks might follow each other for ever, and are just taken.             *)
(***************************************************************************)
FairSpec ==
    /\ Spec
    /\ []<>(conn["a"].sender.next_seqno > 0)
    /\ \A p \in Peers :
           /\ []<>~(Alive(p) /\ wire[p] # <<>>) \/ []<><<Deliver(p, 1)>>_vars
           /\ []<>(wire[p] = <<>> \/ Alive(p))
           /\ []<>~(Alive(p) /\ (CanWrite(p) \/ CanEnd(p)))
           /\ []<>~CanRead(p)
    /\ []<>~MayTick(Peers) \/ []<><<Tick(Peers)>>_vars

-----------------------------------------------------------------------------
Sender(p) == conn[p].sender
Reassembler(p) == conn[p].receiver.reassembler

\* All that p wrote is acknowledged, its FIN included.
AllAcked(p) == Sender(p).is_transmission_ended /\ Sender(p).bytes_in_flight = 0

Clean(p) == p \notin gone /\ ~active(conn[p]) /\ ~has_error(conn[p])

\* The absolute number after all that p has of its peer's stream.
Received(p) ==
    IF conn[p].receiver.isn = NoValue THEN 0
    ELSE Reassembler(p).cur_index + 1 + Bit(ByteStream_input_ended(inbound_stream(conn[p])))

(***************************************************************************)
(* End to end, under loss, duplication and reordering: what a reader has   *)
(* is a prefix of what the other side wrote, and the reader sees the end   *)
(* only behind the last byte (byte_stream.hh:8-10 on both sides,           *)
(* tcp_receiver.hh:13 "Receives and reassembles segments into a            *)
(* ByteStream").                                                           *)
(***************************************************************************)
Integrity ==
    \A p \in Peers :
        LET in == inbound_stream(conn[p])
        IN  /\ in.str = Bytes(in.bytes_read, in.bytes_written)
            /\ in.bytes_written <= Sender(Other(p)).stream.bytes_read
            /\ ByteStream_input_ended(in) =>
                   /\ in.bytes_written = Sender(Other(p)).stream.bytes_written
                   /\ Sender(Other(p)).is_transmission_ended

(***************************************************************************)
(* tcp_sender.cc:84-92, tcp_receiver.cc:34-45: the two ends agree on what  *)
(* is acknowledged. A sender holds nothing for acknowledged that the       *)
(* receiver has not got, and the receiver has nothing that was not sent.   *)
(***************************************************************************)
AckAgreement ==
    \A p \in Peers : /\ Sender(p).una_seqno <= Received(Other(p))
                     /\ Received(Other(p)) <= Sender(p).next_seqno

(***************************************************************************)
(* tcp_connection.cc:100-118: a connection that is over without an error   *)
(* has moved both streams completely, whatever was lost and even if the    *)
(* peer has gone since.                                                    *)
(***************************************************************************)
CleanClose ==
    \A p \in Peers : Clean(p) =>
        \A q \in Peers : /\ Reassembler(q).cur_index = ToWrite(Other(q))
                         /\ ByteStream_input_ended(inbound_stream(conn[q]))

(***************************************************************************)
(* tcp_connection.cc:84-86: the side that is told of the end first need    *)
(* not linger, because when it is done the other side has learnt that all  *)
(* it sent, FIN included, was received.                                    *)
(***************************************************************************)
NoLingerSafe ==
    \A p \in Peers : Clean(p) /\ ~conn[p].linger => AllAcked(Other(p))

(***************************************************************************)
(* tcp_state.hh:19-22: the pieces of state that the sender, the receiver   *)
(* and the connection keep apart make up one of the states of RFC 793 as   *)
(* long as the network keeps the segments in order and both ends are       *)
(* there, also when timeouts expire early.                                 *)
(***************************************************************************)
OfficialState ==
    faults = 0 /\ gone = {} =>
        \A p \in Peers : \E name \in DOMAIN Official : state(conn[p]) = Official[name]

(***************************************************************************)
(* When the clock is slower than the network and there are fewer faults    *)
(* than retransmissions (a probe that a full receiver refuses uses up one  *)
(* more, tcp_sender.cc:128 counts it once the window is open), both        *)
(* streams are delivered and both sides finish cleanly: nobody waits for   *)
(* the other for ever.                                                     *)
(***************************************************************************)
Closes == <>(\A p \in Peers : Clean(p))

(***************************************************************************)
(* stream_reassembler.hh:36-37 "Bytes that would exceed the capacity are   *)
(* silently discarded": between two peers that both run this code no       *)
(* exception leaves push_substring.                                        *)
(***************************************************************************)
NeverThrows == \A p \in Peers : ~Reassembler(p).thrown

(***************************************************************************)
(* tests/fsm_connect.cc:26 "START -> SYN_SENT -> ACK (ignored) -> SYN ->   *)
(* SYN_RECV", tcp_sponge_socket.hh:69 "blocks until connect succeeds or    *)
(* fails": SYN_SENT is left only by the peer's SYN or by a reset.          *)
(***************************************************************************)
ConnectBlocks ==
    [][\A p \in Peers :
           state(conn[p]) = Official.SYN_SENT /\ state(conn'[p]) # Official.SYN_SENT =>
               conn'[p].receiver.isn # NoValue \/ has_error(conn'[p])]_vars

(***************************************************************************)
(* tcp_sponge_socket.hh:123-124 "if TCPSpongeSocket is destructed while a  *)
(* TCP connection is open, the connection is immediately terminated with a *)
(* RST", tcp_connection.hh:98 "destructor sends a RST if the connection is *)
(* still open": the RST is on its way when the object is gone.             *)
(***************************************************************************)
DestructorSendsRst ==
    [][\A p \in gone' \ gone :
           active(conn[p]) => \E k \in 1 .. Len(wire'[Other(p)]) : wire'[Other(p)][k].rst]_vars
=============================================================================
