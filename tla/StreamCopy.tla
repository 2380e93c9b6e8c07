----------------------------- MODULE StreamCopy -----------------------------
(***************************************************************************)
(* apps/bidirectional_stream_copy.cc: the event loop that copies standard  *)
(* input to a socket and the socket to standard output, between a kernel   *)
(* and three parties that act at any time: who writes standard input, who  *)
(* reads standard output, and the peer behind the socket.                  *)
(*                                                                         *)
(* The two directions are alike: rules 1 and 2 fill and empty _outbound,   *)
(* rules 3 and 4 fill and empty _inbound.  A byte is its position.         *)
(***************************************************************************)
EXTENDS ByteStream, EventLoop, Lists

CONSTANTS
    StdinLen,         \* bytes that standard input has at most
    PeerLen,          \* bytes that the peer sends at most
    BufferSize,       \* buffer_size
    MaxCopyLength,    \* max_copy_length
    PipeSize,         \* bytes the kernel holds on their way to a reader
    MaxFaults         \* bound: hangups of a reader, and signals

ASSUME StreamCopyAssumption ==
    /\ StdinLen \in Nat /\ PeerLen \in Nat
    /\ {BufferSize, MaxCopyLength, PipeSize} \subseteq Nat \ {0}
    /\ BufferSize < SizeMod
    /\ MaxFaults \in Nat

VARIABLES
    pc,        \* where the loop is: "setup", "poll", "rules", "exit" or "thrown"
    rules,     \* _rules, by number, without the cancelled ones
    asked,     \* per rule, what the poll asks about
    revents,   \* per rule, what the poll reported
    pos,       \* the next rule of the pass
    fd,        \* _input, socket and _output
    stream,    \* _outbound and _inbound
    shut,      \* _outbound_shutdown and _inbound_shutdown
    source,    \* per direction, the kernel's queue the loop reads from
    sink,      \* per direction, the kernel's queue the loop writes to
    got,       \* per direction, what the reader at the far end has taken
    stdin,     \* standard input is a "pipe" or a "terminal"
    faults

local == <<rules, asked, revents, pos, fd, stream, shut>>
kernel == <<source, sink, got, stdin, faults>>
vars == <<pc, local, kernel>>

Directions == {"outbound", "inbound"}
Rules == 1 .. 4

StreamOf(r) == IF r \in {1, 2} THEN "outbound" ELSE "inbound"
FdOf(r) == <<"input", "socket", "socket", "output">>[r]
Direction(r) == <<In, Out, In, Out>>[r]

LengthOf(d) == IF d = "outbound" THEN StdinLen ELSE PeerLen

NoEvents == [r \in Rules |-> {}]

\* A queue in the kernel: the bytes in it, how many were ever put there,
\* whether its writer is done, and whether its reader has gone.
NewQueue == [q |-> <<>>, n |-> 0, ended |-> FALSE, gone |-> FALSE]

Init ==
    /\ pc = "setup"
    /\ rules = <<1, 2, 3, 4>>
    /\ asked = NoEvents
    /\ revents = NoEvents
    /\ pos = 1
    /\ fd = [f \in {"input", "socket", "output"} |-> NewFD]
    /\ stream = [d \in Directions |-> NewByteStream(BufferSize)]
    /\ shut = [d \in Directions |-> FALSE]
    /\ source = [d \in Directions |-> NewQueue]
    /\ sink = [d \in Directions |-> NewQueue]
    /\ got = [d \in Directions |-> <<>>]
    /\ stdin \in {"pipe", "terminal"}
    /\ faults = 0

-----------------------------------------------------------------------------
\* The callbacks of the rules.

\* Rules 1 and 3 read only when there is room.
Fills(st, d) ==
    /\ ~st["outbound"].error /\ ~st["inbound"].error
    /\ ByteStream_remaining_capacity(st[d]) > 0

\* Mutant: a stream that has ended with nothing left needs no more service.
Empties_OnlyBytes(st, sh, d) == ~ByteStream_buffer_empty(st[d])

\* Rules 2 and 4 write what there is, and the end of the stream once.
Empties(st, sh, d) ==
    \/ ~ByteStream_buffer_empty(st[d])
    \/ ByteStream_eof(st[d]) /\ ~sh[d]

Interest(st, sh, r) ==
    IF Direction(r) = In THEN Fills(st, StreamOf(r)) ELSE Empties(st, sh, StreamOf(r))

\* Mutant: a cancelled rule leaves the stream open.
Cancel_Silent(st, r) == st

\* The cancel callback of every rule ends its stream.
Cancel(st, r) == [st EXCEPT ![StreamOf(r)] = ByteStream_end_input(@)]

-----------------------------------------------------------------------------
\* One call of wait_next_event(-1).

\* The loop over the rules that prepares the poll, for one rule.
SetupRule(s, r) ==
    IF Defunct(Direction(r), fd[FdOf(r)])
    THEN [s EXCEPT !.stream = Cancel(@, r)]
    ELSE [s EXCEPT !.rules = Append(@, r),
                   !.asked[r] = Asked(Direction(r), Interest(s.stream, shut, r))]

Setup ==
    /\ pc = "setup"
    /\ LET s == ForEach(SetupRule, [rules |-> <<>>, stream |-> stream, asked |-> NoEvents], rules)
       IN  /\ rules' = s.rules
           /\ stream' = s.stream
           /\ asked' = s.asked
           /\ pc' = IF s.asked = NoEvents THEN "exit" ELSE "poll"
    /\ UNCHANGED <<revents, pos, fd, shut, kernel>>

Room(d) == PipeSize - Len(sink[d].q)

If(condition, event) == IF condition THEN {event} ELSE {}

\* The state of a rule's file descriptor in the kernel.  The read end of a
\* pipe that has ended is hung up, a terminal and a socket are readable.
Reported(r) ==
    CASE FdOf(r) = "input" ->
             If(source["outbound"].q # <<>> \/ (source["outbound"].ended /\ stdin = "terminal"), In)
                 \cup If(source["outbound"].ended /\ stdin = "pipe", Hup)
      [] FdOf(r) = "socket" ->
             If(source["inbound"].q # <<>> \/ source["inbound"].ended, In)
                 \cup If(Room("outbound") > 0, Out)
                 \cup If(source["inbound"].ended /\ (sink["outbound"].ended \/ sink["outbound"].gone), Hup)
      [] FdOf(r) = "output" ->
             If(Room("inbound") > 0, Out) \cup If(sink["inbound"].gone, Err)

Ready ==
    [r \in Rules |->
        IF Has(rules, r) THEN Reported(r) \cap (asked[r] \cup {Hup, Err}) ELSE {}]

\* poll(2) waits until it has something to report.
Poll ==
    /\ pc = "poll"
    /\ Ready # NoEvents
    /\ revents' = Ready
    /\ pc' = "rules"
    /\ pos' = 1
    /\ UNCHANGED <<rules, asked, fd, stream, shut, kernel>>

\* A signal ends the call with Exit, and with it the copying.
Interrupted ==
    /\ pc = "poll"
    /\ faults < MaxFaults
    /\ faults' = faults + 1
    /\ pc' = "exit"
    /\ UNCHANGED <<local, source, sink, got, stdin>>

\* Any other error of poll(2) is dropped: no rule has an event.
PollFails ==
    /\ pc = "poll"
    /\ faults < MaxFaults
    /\ faults' = faults + 1
    /\ pc' = "rules"
    /\ pos' = 1
    /\ UNCHANGED <<rules, asked, revents, fd, stream, shut, source, sink, got, stdin>>

AtRule(r) ==
    /\ pc = "rules"
    /\ pos \in 1 .. Len(rules)
    /\ r = rules[pos]

VerdictOn(r) == Verdict(asked[r], revents[r])

\* bytes_to_write of rules 2 and 4.
ToWrite(d) == MinOf(MaxCopyLength, ByteStream_buffer_size(stream[d]))

\* What read(2) may return to rules 1 and 3, nothing if it would block.
Reads(d) ==
    LET limit == ByteStream_remaining_capacity(stream[d])
    IN  IF limit = 0 \/ (source[d].q = <<>> /\ source[d].ended)
        THEN {0} ELSE 1 .. MinOf(limit, Len(source[d].q))

\* What writev(2) may return to rules 2 and 4: part of the bytes, or
\* nothing if it fails because it would block or nobody can read them.
Writes(d) ==
    IF sink[d].gone \/ sink[d].ended THEN {}
    ELSE IF ToWrite(d) = 0 THEN {0} ELSE 1 .. MinOf(ToWrite(d), Room(d))

\* What the system call of a rule's callback may return; none if it fails.
Outcomes(r) == IF Direction(r) = In THEN Reads(StreamOf(r)) ELSE Writes(StreamOf(r))

\* The callback of rules 1 and 3 after a read of n bytes.
Filled(s, data, eof) ==
    LET written == ByteStream_write(s, data)
    IN  IF eof THEN ByteStream_end_input(written) ELSE written

\* Mutant: the bytes offered are taken for the bytes written.
Emptied_Offered(s, offered, n) == ByteStream_pop_output(s, offered)

\* The callback of rules 2 and 4 after a write of n of the bytes offered.
Emptied(s, offered, n) == ByteStream_pop_output(s, n)

\* After a callback: the next rule, or the exception of the busy-wait check.
AfterCallback(r) ==
    /\ pc' = IF BusyWait(Serviced(Direction(r)), Interest(stream', shut', r)) THEN "thrown" ELSE pc
    /\ pos' = pos + 1

RuleReads(r, n) ==
    /\ AtRule(r)
    /\ VerdictOn(r) = "callback"
    /\ Direction(r) = In
    /\ LET d == StreamOf(r)
           flags == FileDescriptor_read(fd[FdOf(r)], ByteStream_remaining_capacity(stream[d]), n)
       IN  /\ n \in Reads(d)
           /\ fd' = [fd EXCEPT ![FdOf(r)] = flags]
           /\ source' = [source EXCEPT ![d].q = SubSeq(@, n + 1, Len(@))]
           /\ stream' = [stream EXCEPT ![d] = Filled(@, SubSeq(source[d].q, 1, n), flags.eof)]
    /\ UNCHANGED shut
    /\ AfterCallback(r)
    /\ UNCHANGED <<rules, asked, revents, sink, got, stdin, faults>>

\* At the end of the stream the socket has been shut down for writing, or
\* standard output closed.
PassEnd(d, ended) ==
    /\ fd' = IF ended /\ d = "inbound" THEN [fd EXCEPT !["output"] = FileDescriptor_close(@)] ELSE fd
    /\ shut' = [shut EXCEPT ![d] = @ \/ ended]

RuleWrites(r, n) ==
    /\ AtRule(r)
    /\ VerdictOn(r) = "callback"
    /\ Direction(r) = Out
    /\ LET d == StreamOf(r)
           data == ByteStream_peek_output(stream[d], ToWrite(d))
           s == Emptied(stream[d], Len(data), n)
       IN  /\ n \in Writes(d)
           /\ stream' = [stream EXCEPT ![d] = s]
           /\ sink' = [sink EXCEPT ![d].q = @ \o SubSeq(data, 1, n), ![d].ended = ByteStream_eof(s)]
           /\ PassEnd(d, ByteStream_eof(s))
    /\ AfterCallback(r)
    /\ UNCHANGED <<rules, asked, revents, source, got, stdin, faults>>

\* An error on the fd, or a system call in the callback that fails.
RuleThrows(r) ==
    /\ AtRule(r)
    /\ VerdictOn(r) = "throw" \/ (VerdictOn(r) = "callback" /\ Outcomes(r) = {})
    /\ pc' = "thrown"
    /\ UNCHANGED <<local, kernel>>

\* The list closes up, so pos is already at the next rule.
RuleCancelled(r) ==
    /\ AtRule(r)
    /\ VerdictOn(r) = "cancel"
    /\ rules' = Erased(rules, pos)
    /\ stream' = Cancel(stream, r)
    /\ UNCHANGED <<pc, asked, revents, pos, fd, shut, kernel>>

RuleSkipped(r) ==
    /\ AtRule(r)
    /\ VerdictOn(r) = "next"
    /\ pos' = pos + 1
    /\ UNCHANGED <<pc, rules, asked, revents, fd, stream, shut, kernel>>

\* wait_next_event returns Success and is called again.
PassEnds ==
    /\ pc = "rules"
    /\ pos > Len(rules)
    /\ pc' = "setup"
    /\ asked' = NoEvents
    /\ revents' = NoEvents
    /\ UNCHANGED <<rules, pos, fd, stream, shut, kernel>>

Loop ==
    \/ Setup \/ Poll \/ PassEnds
    \/ \E r \in Rules :
          \/ \E n \in 0 .. BufferSize : RuleReads(r, n)
          \/ \E n \in 0 .. MaxCopyLength : RuleWrites(r, n)
          \/ RuleThrows(r) \/ RuleCancelled(r) \/ RuleSkipped(r)

\* The loop can take a step: it is not over, and poll(2) not waiting.
Runs == pc \in {"setup", "rules"} \/ (pc = "poll" /\ Ready # NoEvents)

-----------------------------------------------------------------------------
\* The parties around the loop.

Produce(d) ==
    /\ ~source[d].ended
    /\ source[d].n < LengthOf(d)
    /\ Len(source[d].q) < PipeSize
    /\ source' = [source EXCEPT ![d].q = Append(@, source[d].n), ![d].n = @ + 1]
    /\ UNCHANGED <<pc, local, sink, got, stdin, faults>>

\* The writer closes its end, perhaps before it has sent all it could.
End(d) ==
    /\ ~source[d].ended
    /\ source' = [source EXCEPT ![d].ended = TRUE]
    /\ UNCHANGED <<pc, local, sink, got, stdin, faults>>

Consume(d) ==
    /\ ~sink[d].gone
    /\ sink[d].q # <<>>
    /\ got' = [got EXCEPT ![d] = Append(@, Head(sink[d].q))]
    /\ sink' = [sink EXCEPT ![d].q = Tail(@)]
    /\ UNCHANGED <<pc, local, source, stdin, faults>>

\* A reader goes away; the peer closes both directions of its socket.
Leave(d) ==
    /\ ~sink[d].gone
    /\ faults < MaxFaults
    /\ faults' = faults + 1
    /\ sink' = [sink EXCEPT ![d].gone = TRUE]
    /\ source' = IF d = "outbound" THEN [source EXCEPT !["inbound"].ended = TRUE] ELSE source
    /\ UNCHANGED <<pc, local, got, stdin>>

Next ==
    \/ Loop \/ Interrupted \/ PollFails
    \/ \E d \in Directions : Produce(d) \/ End(d) \/ Consume(d) \/ Leave(d)

Spec == Init /\ [][Next]_vars

(***************************************************************************)
(* The program runs, and the peer reads.  Nothing is assumed of the        *)
(* writers, nor of who reads standard output.                              *)
(***************************************************************************)
FairSpec ==
    /\ Spec
    /\ []<>~Runs \/ []<><<Loop>>_vars
    /\ []<>(sink["outbound"].q = <<>> \/ sink["outbound"].gone) \/ []<><<Consume("outbound")>>_vars

-----------------------------------------------------------------------------
(***************************************************************************)
(* bidirectional_stream_copy.cc:33, 45-47, 61, 73-75: through short reads, *)
(* partial writes, full buffers and hangups, every byte that a writer has  *)
(* sent is in exactly one place, and in order.                             *)
(***************************************************************************)
NoneLostOrReordered ==
    \A d \in Directions :
        got[d] \o sink[d].q \o stream[d].str \o source[d].q = Bytes(0, source[d].n)

(***************************************************************************)
(* eventloop.cc:91-94 and bidirectional_stream_copy.cc:85-90 "loop until   *)
(* completion": the copying returns only when both writers are done, all   *)
(* their bytes are written and the ends of both streams passed on.         *)
(***************************************************************************)
ExitMeansDone ==
    pc = "exit" /\ faults = 0 =>
        \A d \in Directions :
            /\ source[d].ended /\ source[d].q = <<>>
            /\ stream[d].str = <<>>
            /\ sink[d].ended

\* The reader of direction d has all the bytes and has seen the end.
AtEnd(d) == Len(got[d]) = source[d].n /\ sink[d].ended

(***************************************************************************)
(* bidirectional_stream_copy.cc:34-36, 39, 48-51: when standard input ends *)
(* the peer gets the rest and the end of the stream, even if nobody reads  *)
(* standard output, and the peer goes on sending.                          *)
(***************************************************************************)
HalfCloses == source["outbound"].ended ~> AtEnd("outbound") \/ faults > 0

(***************************************************************************)
(* bidirectional_stream_copy.cc:85-90, eventloop.cc:113-132: if standard   *)
(* output is read as well, the program returns after both writers have     *)
(* ended.  In particular no event that is stale when its rule's turn comes *)
(* makes a system call throw.                                              *)
(***************************************************************************)
Completes ==
    []<>(sink["inbound"].q = <<>>) =>
        ((\A d \in Directions : source[d].ended) ~> pc = "exit" \/ faults > 0)
=============================================================================
