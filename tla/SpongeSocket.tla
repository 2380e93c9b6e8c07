---------------------------- MODULE SpongeSocket ----------------------------
(***************************************************************************)
(* libsponge/tcp_helpers/tcp_sponge_socket.{hh,cc}: a TCPConnection behind *)
(* a stream socket.  The owner reads and writes one end of a socket pair;  *)
(* the TCP thread runs an event loop of four rules over the other end and  *)
(* the datagram adapter.                                                   *)
(*                                                                         *)
(* One of the two peers, `me`, is such a socket, taken step by step: a     *)
(* poll, each callback, a tick, and each call of the owner.  The other one *)
(* and the network are those of TwoPeers.  Here conn[me].segments_out is   *)
(* really a queue: it is sent when rule 4 has its turn.                    *)
(*                                                                         *)
(* The two ends of the socket pair share their state in the kernel: either *)
(* end can shut down a direction, and queued bytes stay readable then.  A  *)
(* write into a direction that is shut down raises SIGPIPE, which nobody   *)
(* handles.                                                                *)
(***************************************************************************)
EXTENDS TwoPeers, EventLoop

CONSTANT PipeSize  \* bytes the kernel holds in one direction

ASSUME SpongeSocketAssumption == PipeSize \in Nat \ {0}

VARIABLES
    me,       \* the peer that is the socket
    loop,     \* _tcp_loop: "idle", "polling", "rules", "leaving", "done" or "killed"
    rules,    \* _rules of the event loop, by number
    due,      \* the callbacks that this pass has still to call
    thread,   \* the flags of _thread_data, _inbound_shutdown and _outbound_shutdown
    pipe,     \* the bytes on their way "up" to TCP and "down" to the owner
    shut,     \* the directions that are shut down
    owner,    \* "idle", "connecting", "using", "closing", "joining", "returned" or "killed"
    got,      \* what the owner has read
    eof,      \* the owner has read the end of the stream
    closed,   \* the owner has closed its end
    abort     \* _abort

threadVars == <<loop, rules, due, thread>>
ownerVars == <<owner, got, eof, closed, abort>>
pipeVars == <<pipe, shut>>
socketVars == <<vars, me, threadVars, pipeVars, ownerVars>>

Up == "up"
Down == "down"
peer == Other(me)
tcp == conn[me]

SocketInit ==
    /\ Init
    /\ me \in Peers
    /\ loop = "idle"
    /\ rules = 1 .. 4
    /\ due = {}
    /\ thread = [fd |-> NewFD, inbound_shutdown |-> FALSE, outbound_shutdown |-> FALSE]
    /\ pipe = [d \in {Up, Down} |-> <<>>]
    /\ shut = {}
    /\ owner = "idle"
    /\ got = <<>>
    /\ eof = FALSE
    /\ closed = FALSE
    /\ abort = FALSE

-----------------------------------------------------------------------------
\* The TCP thread, and the owner's while connect or listen_and_accept runs.

Room(d) == PipeSize - Len(pipe[d])

Directions == <<In, In, Out, Out>>

\* Rules 2 and 3 are about _thread_data, rules 1 and 4 about the adapter.
DefunctRule(r) == r \in {2, 3} /\ Defunct(Directions[r], thread.fd)

\* Rule 2's cancel callback.
Rule2Cancelled(c) == end_input_stream(c)

\* Mutant: it stays interested after the end of the stream.
Rule3Interest_Always(in, t) ==
    ~ByteStream_buffer_empty(in) \/ ByteStream_eof(in) \/ in.error

Rule3Interest(in, t) ==
    \/ ~ByteStream_buffer_empty(in)
    \/ (ByteStream_eof(in) \/ in.error) /\ ~t.inbound_shutdown

\* The interest callbacks.
Interest(r, c, t) ==
    CASE r = 1 -> active(c)
      [] r = 2 -> /\ active(c)
                  /\ ~t.outbound_shutdown
                  /\ ByteStream_remaining_capacity(c.sender.stream) > 0
      [] r = 3 -> Rule3Interest(inbound_stream(c), t)
      [] r = 4 -> c.segments_out # <<>>

If(condition, event) == IF condition THEN {event} ELSE {}

\* What the kernel knows about the file descriptor of a rule.
Reported(r) ==
    IF r \in {2, 3}
    THEN If(pipe[Up] # <<>> \/ Up \in shut, In) \cup If(Room(Down) > 0, Out)
             \cup If({Up, Down} \subseteq shut, Hup)
    ELSE If(wire[me] # <<>>, In) \cup {Out}

\* Mutant: a poll that times out ends the loop as well.
Exit_OnTimeout(polled, ready) == ready = {}

\* Result::Exit: no rule is interested.
Exit(polled, ready) == polled = {}

\* One call of wait_next_event up to its callbacks.  It waits ten
\* milliseconds at most: with no event the pass goes on without callbacks.
PollWith(c, t, left) ==
    LET asked(r) == Asked(Directions[r], Interest(r, c, t))
        verdict(r) == Verdict(asked(r), Reported(r) \cap (asked(r) \cup {Hup}))
    IN  /\ conn' = [conn EXCEPT ![me] = c]
        /\ thread' = t
        /\ IF Exit({r \in left : asked(r) # {}}, {r \in left : verdict(r) # "next"})
           THEN /\ loop' = "leaving"
                /\ UNCHANGED due
                /\ rules' = left
           ELSE /\ loop' = "rules"
                /\ due' = {r \in left : verdict(r) = "callback"}
                /\ rules' = {r \in left : verdict(r) # "cancel"}

\* The condition of the loop that runs inside connect or listen_and_accept.
StillConnecting ==
    state(tcp) \in IF me = "a" THEN {Official.SYN_SENT}
                   ELSE {Official.LISTEN, Official.SYN_RCVD, Official.SYN_SENT}

Poll ==
    /\ loop = "polling"
    /\ owner = "connecting" => StillConnecting
    /\ IF 2 \in rules /\ DefunctRule(2)
       THEN PollWith(Rule2Cancelled(tcp), [thread EXCEPT !.outbound_shutdown = TRUE], rules \ {2})
       ELSE PollWith(tcp, thread, rules)
    /\ UNCHANGED <<wire, faults, gone, me, pipeVars, ownerVars>>

\* The callbacks run in the order of the rules.
Turn(r) == loop = "rules" /\ r \in due /\ \A s \in due : r <= s

\* An exception in the thread, or a signal, ends the process.
Dies ==
    /\ loop' = "killed"
    /\ gone' = gone \cup {me}

Lives ==
    /\ loop' = loop
    /\ gone' = gone

\* Rule 1: a segment arrives.
Rule1 ==
    /\ Turn(1)
    /\ wire[me] # <<>>
    /\ conn' = [conn EXCEPT ![me] = segment_received(@, Head(wire[me]))]
    /\ wire' = [wire EXCEPT ![me] = Tail(@)]
    /\ due' = due \ {1}
    /\ IF conn'[me].receiver.reassembler.thrown THEN Dies ELSE Lives
    /\ UNCHANGED <<faults, me, rules, thread, pipeVars, ownerVars>>

\* Rule 2: bytes from the owner, no more than there is room for, and the end.
Rule2 ==
    LET limit == ByteStream_remaining_capacity(tcp.sender.stream)
        n     == MinOf(limit, Len(pipe[Up]))
        data  == SubSeq(pipe[Up], 1, n)
        flags == FileDescriptor_read(thread.fd, limit, n)
        c     == write(tcp, data)
    IN  /\ Turn(2)
        /\ conn' = [conn EXCEPT ![me] = IF flags.eof THEN end_input_stream(c) ELSE c]
        /\ pipe' = [pipe EXCEPT ![Up] = SubSeq(@, n + 1, Len(@))]
        /\ thread' = [thread EXCEPT !.fd = flags, !.outbound_shutdown = @ \/ flags.eof]
        /\ due' = due \ {2}
        /\ IF ByteStream_accepted(tcp.sender.stream, data) # n THEN Dies ELSE Lives
        /\ UNCHANGED <<wire, faults, me, rules, shut, ownerVars>>

\* Mutant: a stream that has nothing more for now is taken for ended.
Rule3Ends_Drained(in) == ByteStream_buffer_empty(in) \/ in.error

Rule3Ends(in) == ByteStream_eof(in) \/ in.error

\* Mutant: all that was offered is popped, also after a partial write.
Rule3Pops_All(in, n) == ByteStream_pop_output(in, ByteStream_buffer_size(in))

Rule3Pops(in, n) == ByteStream_pop_output(in, n)

\* Rule 3: n bytes to the owner, perhaps not all there are, and the end.
\* (65536 is more than a receive capacity.)
Rule3(n) ==
    LET in   == inbound_stream(tcp)
        left == Rule3Pops(in, n)
    IN  /\ Turn(3)
        /\ IF ByteStream_buffer_empty(in) THEN n = 0
           ELSE Down \notin shut /\ n \in 1 .. MinOf(ByteStream_buffer_size(in), Room(Down))
        /\ conn' = [conn EXCEPT ![me].receiver.reassembler.output = left]
        /\ pipe' = [pipe EXCEPT ![Down] = @ \o ByteStream_peek_output(in, n)]
        /\ thread' = [thread EXCEPT !.inbound_shutdown = @ \/ Rule3Ends(left)]
        /\ shut' = shut \cup If(Rule3Ends(left), Down)
        /\ due' = due \ {3}
        /\ UNCHANGED <<wire, faults, gone, me, loop, rules, ownerVars>>

Rule3Sigpipe ==
    /\ Turn(3)
    /\ ~ByteStream_buffer_empty(inbound_stream(tcp))
    /\ Down \in shut
    /\ Dies
    /\ UNCHANGED <<conn, wire, faults, me, rules, due, thread, pipeVars, ownerVars>>

\* Rule 4: everything that is queued goes to the adapter.
Rule4 ==
    /\ Turn(4)
    /\ wire' = [wire EXCEPT ![peer] = @ \o tcp.segments_out]
    /\ conn' = [conn EXCEPT ![me].segments_out = <<>>]
    /\ due' = due \ {4}
    /\ UNCHANGED <<faults, gone, me, loop, rules, thread, pipeVars, ownerVars>>

PassOver == loop = "rules" /\ due = {}

\* What is on its way to each peer, the queue of the socket included.
Sent == IF me \in gone THEN wire ELSE [wire EXCEPT ![peer] = @ \o tcp.segments_out]

\* A whole timeout passes (see Tick of TwoPeers).
TimePasses ==
    /\ \E p \in Peers : Alive(p)
    /\ Patient => \A p \in Peers : Sent[p] = <<>>
    /\ Len(Sent[peer]) < NetCap /\ Len(Sent[me]) < NetCap

\* The pass ends with a tick of an active connection, after ms.
TickSelf(ms) ==
    LET other == IF Patient /\ ms > 0 /\ Alive(peer) THEN tick(conn[peer], ms) ELSE conn[peer]
    IN  /\ PassOver
        /\ ~abort
        /\ ms > 0 => TimePasses
        /\ conn' = [conn EXCEPT ![me] = IF active(@) THEN tick(@, ms) ELSE @,
                                ![peer] = [other EXCEPT !.segments_out = <<>>]]
        /\ wire' = [wire EXCEPT ![me] = @ \o other.segments_out]
        /\ loop' = "polling"
        /\ UNCHANGED <<faults, gone, me, rules, due, thread, pipeVars, ownerVars>>

Aborted ==
    /\ PassOver
    /\ abort
    /\ loop' = "leaving"
    /\ UNCHANGED <<vars, me, rules, due, thread, pipeVars, ownerVars>>

\* The end of _tcp_main: the owner's end is shut down, and the connection
\* destroyed with what it still has to send.  shutdown() throws if the owner
\* has closed that end.
Leave ==
    /\ loop = "leaving"
    /\ IF closed
       THEN /\ Dies
            /\ UNCHANGED <<conn, shut>>
       ELSE /\ loop' = "done"
            /\ conn' = [conn EXCEPT ![me] = destroy(@)]
            /\ gone' = gone \cup If(abort, me)
            /\ shut' = {Up, Down}
    /\ UNCHANGED <<wire, faults, me, rules, due, thread, pipe, ownerVars>>

Thread ==
    \/ Poll \/ Rule1 \/ Rule2 \/ Rule3Sigpipe \/ Rule4 \/ Aborted \/ Leave
    \/ \E n \in 0 .. RecvCapacity : Rule3(n)
    \/ \E ms \in {0, RtTimeout} : TickSelf(ms)

-----------------------------------------------------------------------------
\* The owner.

\* connect() begins, or listen_and_accept().
Start ==
    /\ owner = "idle"
    /\ owner' = "connecting"
    /\ loop' = "polling"
    /\ conn' = IF me = "a" THEN [conn EXCEPT ![me] = connect(@)] ELSE conn
    /\ UNCHANGED <<wire, faults, gone, me, rules, due, thread, pipeVars, got, eof, closed, abort>>

\* It returns, with the TCP thread running.
Started ==
    /\ owner = "connecting"
    /\ loop = "polling"
    /\ ~StillConnecting
    /\ owner' = "using"
    /\ UNCHANGED <<vars, me, threadVars, pipeVars, got, eof, closed, abort>>

\* The bytes that the owner has written.
Wrote == tcp.sender.stream.bytes_written + Len(pipe[Up])

OwnerWrites ==
    /\ owner = "using"
    /\ Up \notin shut
    /\ Wrote < ToWrite(me)
    /\ Room(Up) > 0
    /\ pipe' = [pipe EXCEPT ![Up] = Append(@, Wrote)]
    /\ UNCHANGED <<vars, me, threadVars, shut, ownerVars>>

\* The owner writes more after the TCP thread has ended the connection.
OwnerSigpipe ==
    /\ owner = "using"
    /\ loop = "done"
    /\ Wrote < ToWrite(me)
    /\ owner' = "killed"
    /\ UNCHANGED <<vars, me, threadVars, pipeVars, got, eof, closed, abort>>

\* The owner has written all it has (see CanEnd of TwoPeers), or cannot.
WrittenAll ==
    \/ loop = "done"
    \/ Up \in shut
    \/ /\ Wrote = ToWrite(me)
       /\ FinWaits => pipe[Up] = <<>> /\ tcp.sender.bytes_in_flight = 0

OwnerShutsDown ==
    /\ owner = "using"
    /\ WrittenAll
    /\ Up \notin shut
    /\ shut' = shut \cup {Up}
    /\ UNCHANGED <<vars, me, threadVars, pipe, ownerVars>>

OwnerReads ==
    /\ owner = "using"
    /\ IF pipe[Down] = <<>>
       THEN /\ Down \in shut
            /\ ~eof
            /\ eof' = TRUE
            /\ UNCHANGED <<pipe, got>>
       ELSE /\ got' = Append(got, Head(pipe[Down]))
            /\ pipe' = [pipe EXCEPT ![Down] = Tail(@)]
            /\ UNCHANGED eof
    /\ UNCHANGED <<vars, me, threadVars, shut, owner, closed, abort>>

\* wait_until_closed up to its join.
OwnerWaits ==
    /\ owner = "using"
    /\ WrittenAll
    /\ shut' = {Up, Down}
    /\ owner' = "joining"
    /\ UNCHANGED <<vars, me, threadVars, pipe, got, eof, closed, abort>>

\* webget, a client, closes the socket when it has read all.  The shutdown in
\* wait_until_closed then throws, and the socket is destroyed.
OwnerCloses ==
    /\ owner = "using"
    /\ me = "a"
    /\ WrittenAll
    /\ eof
    /\ owner' = "closing"
    /\ closed' = TRUE
    /\ shut' = {Up, Down}
    /\ UNCHANGED <<vars, me, threadVars, pipe, got, eof, abort>>

\* The destructor up to its join.
OwnerDestroys ==
    /\ (owner = "using" /\ me \in Abortable) \/ owner = "closing"
    /\ owner' = "joining"
    /\ abort' = TRUE
    /\ UNCHANGED <<vars, me, threadVars, pipeVars, got, eof, closed>>

Joined ==
    /\ owner = "joining"
    /\ loop = "done"
    /\ owner' = "returned"
    /\ UNCHANGED <<vars, me, threadVars, pipeVars, got, eof, closed, abort>>

Owner ==
    /\ loop # "killed"
    /\ \/ Start \/ Started \/ OwnerWrites \/ OwnerSigpipe \/ OwnerShutsDown
       \/ OwnerReads \/ OwnerWaits \/ OwnerCloses \/ OwnerDestroys \/ Joined

-----------------------------------------------------------------------------
\* The other peer, the network, and the clock of the other peer once the TCP
\* thread is over.  The network loses segments, but none that the adapter has
\* reported; reordering and duplication are left to TwoPeers.

PeerTicks ==
    /\ loop \in {"done", "killed"}
    /\ Alive(peer)
    /\ TimePasses
    /\ Becomes(peer, tick(conn[peer], RtTimeout), wire[peer])
    /\ UNCHANGED <<faults, gone>>

Peer ==
    \/ peer = "a" /\ Connect
    \/ Deliver(peer, 1)
    \/ \E p \in Peers : Lose(p) /\ ~(p = me /\ 1 \in due)
    \/ \E n \in 1 .. SendCapacity : Write(peer, n)
    \/ EndInput(peer)
    \/ \E n \in 1 .. RecvCapacity : Read(peer, n)
    \/ Abort(peer)
    \/ PeerTicks

Environment ==
    /\ Peer
    /\ UNCHANGED <<me, threadVars, pipeVars, ownerVars>>

SocketNext == Thread \/ Owner \/ Environment

SocketSpec == SocketInit /\ [][SocketNext]_socketVars

(***************************************************************************)
(* No call hangs: the TCP thread does not stay at one place of its loop,   *)
(* nor the owner in a call whose work is done.  The other peer and the     *)
(* network do what TwoPeers assumes of them, and time passes when nothing  *)
(* else does.  Nothing is assumed of what the owner calls.                 *)
(***************************************************************************)
SocketFairSpec ==
    /\ SocketSpec
    /\ \A place \in {"polling", "rules", "leaving"} : []<>(loop # place)
    /\ []<>~(owner = "joining" /\ loop = "done")
    /\ <>[]~(PassOver /\ ~abort /\ TimePasses) \/ []<><<TickSelf(RtTimeout)>>_socketVars
    /\ []<>(wire[peer] = <<>>) \/ []<><<Deliver(peer, 1)>>_vars
    /\ \A p \in Peers : []<>(wire[p] = <<>> \/ Alive(p))
    /\ []<>~(Alive(peer) /\ (CanWrite(peer) \/ CanEnd(peer)))
    /\ []<>~CanRead(peer)

-----------------------------------------------------------------------------
(***************************************************************************)
(* tcp_sponge_socket.cc:128-130 "handling the possibility of a partial     *)
(* write (i.e., only pop what was actually written)": through the thread,  *)
(* the pipe and the owner no byte is lost, doubled or reordered, and the   *)
(* owner sees the end of a stream without an error only behind its last    *)
(* byte, never when the TCP thread merely stops early.                     *)
(***************************************************************************)
EofMeansAll ==
    LET in == inbound_stream(tcp)
    IN  /\ got \o pipe[Down] \o in.str = Bytes(0, in.bytes_written)
        /\ eof /\ ~has_error(tcp) /\ me \notin gone =>
               /\ Len(got) = ToWrite(peer)
               /\ ByteStream_input_ended(Sender(peer).stream)

(***************************************************************************)
(* tcp_sponge_socket.cc:122-151, 195, 261: no order of the owner's calls,  *)
(* arrivals and callbacks ends the process under the TCP thread, by        *)
(* SIGPIPE or by an exception, apart from three: the owner closes its end  *)
(* while the thread runs; it waits before it has read the end of the       *)
(* stream, which tcp_sponge_socket.hh:65 advises against; a reset arrives  *)
(* while the pipe cannot take all that is buffered.                        *)
(***************************************************************************)
Survives ==
    loop = "killed" =>
        \/ closed
        \/ owner = "joining" /\ ~eof
        \/ has_error(tcp) /\ ~ByteStream_buffer_empty(inbound_stream(tcp))

(***************************************************************************)
(* tcp_sponge_socket.cc:25-40, 54-163: what the thread, its poll and its   *)
(* queue of segments do, one callback at a time and against an owner that  *)
(* may call anything in between, is what TwoPeers says of a peer whose     *)
(* callbacks are served in any order and send at once.  The queue counts   *)
(* as on its way; a thread that dies, or is told to abort, is a peer that  *)
(* drops its connection, and its queue is lost.                            *)
(***************************************************************************)
Abs == INSTANCE TwoPeers WITH
           conn <- [conn EXCEPT ![me].segments_out = <<>>],
           wire <- Sent,
           Abortable <- Peers

Implements == Abs!Init /\ [][UNCHANGED Abs!vars \/ Abs!Next]_socketVars

(***************************************************************************)
(* tcp_sponge_socket.hh:64-66 "wait for TCPConnection to finish": once the *)
(* owner has read the end of the stream, or destroys the socket, the join  *)
(* returns, or the process has ended: the loop runs out of rules.  Also    *)
(* when the peer has vanished, unless that was with a closed window:       *)
(* tcp_sender.cc:128 then repeats the last segment without counting.       *)
(***************************************************************************)
Joins ==
    owner = "joining" /\ (eof \/ abort) ~>
        \/ owner = "returned"
        \/ loop = "killed"
        \/ peer \in gone /\ tcp.sender.window_size = 0
=============================================================================
