# A verification of sponge

TLA+ models of the TCP/IP stack in `src/libsponge`, checked with TLC on small
instances, and theorems about them checked with TLAPS for all values of the
constants. `PROJECT.json` maps each definition to the lines it models and lists
the runs, mutants, hazards, findings and theorems.

## The system

| Part | State | Operations | What is hard about it |
|---|---|---|---|
| WrappingInt32 | none | wrap, unwrap, +, - | half a turn, zero, the top of 64 bits |
| ByteStream | buffer, counters of bytes and of room, end, error | write, peek, pop, read, end_input, set_error | two counters of one thing |
| StreamReassembler | sorted list of substrings, next index, end seen | push_substring | overlaps, unsigned trims, an end mark without a place |
| TCPReceiver | initial number, reassembler | segment_received, ackno, window_size | several turns of the numbers, old duplicates |
| TCPSender | stream, outstanding and outgoing queues, window, numbers, timer | fill_window, ack_received, tick, send_empty_segment | closed and shrinking windows, partial and stale acknowledgments, backoff |
| TCPConnection | both, linger flag, time since the last segment | connect, write, end_input_stream, segment_received, tick, destructor | who lingers, resets, crossing FINs, keep-alives |
| TCPSpongeSocket, EventLoop | connection, socket pair, rules, a thread, abort flag | four rules, connect, listen, wait_until_closed, destructor | two threads, partial writes, stale interest, joining |
| NetworkInterface | ARP mapping, blocked questions, pending datagrams, frames | send_datagram, recv_frame, tick | lost and crossing ARP messages, expiry, restarts |
| Router | list of rules, interfaces with received datagrams | add_route, route | shift widths, time to live, loops of routes |
| Adapters | addresses, listening flag | read, write | filtering, the switch from listening to connected |
| Headers, parsers, checksum, buffers | bytes | parse, serialize | lengths, inverse of each other |
| bidirectional_stream_copy | two streams, four rules, three descriptors | callbacks, interest, cancel | partial writes, half-closes, hang-ups, stale events |

An application writes into the socket; rule 2 of the event loop passes the bytes
to the connection's sender, rule 4 passes segments to an adapter, which wraps
them in UDP, IP or Ethernet; rule 1 passes arriving segments to the connection,
and rule 3 what was assembled back to the application. The loop ticks every 10 ms.

## Modules

A *class module* models an object as a record and a method as an operator; a
*driver* owns the VARIABLES and lets an environment call the methods. A loop is
one operator per iteration, so that a driver can take it step by step and a proof
needs no recursion; the whole call, for compositions, is the `ForEach` of `Lists` over it.

| Module | Models | Driver |
|---|---|---|
| `WrappingIntegers` | wrapping_integers.cc | `Receiving`, `Sending` |
| `ByteStream` | byte_stream.cc | all of the following |
| `StreamReassembler` | stream_reassembler.cc | `Reassembly`, against the promise `ReassemblyAbs`; `PeerStream` is the stream both this and the next driver feed |
| `TCPReceiver` | tcp_receiver.cc | `Receiving` |
| `TCPSegment`, `TCPSender` | tcp_segment.cc, tcp_sender.cc | `Sending` |
| `TCPState`, `TCPConnection` | tcp_state.cc, tcp_connection.cc | `TwoPeers`: two connections, a faulty network, sockets in one step each |
| | tcp_sponge_socket.cc, and the calls of webget.cc | `SpongeSocket`: one of the two peers of `TwoPeers` as a socket, its thread and its owner step by step |
| `NetworkInterface` | network_interface.cc | `Lan`: hosts on one Ethernet |
| `RouteLookup` | the search of router.cc | `Routing`, `MCRouting` |
| `Router` | router.cc | `Internet`, `MCInternet`: hosts and routers on links |
| `EventLoop` | eventloop.cc, flags of file_descriptor.cc | `SpongeSocket`; `StreamCopy`: bidirectional_stream_copy.cc, the kernel's queues and poll, the parties around it |
| `WireFormat` | buffer.cc, parser.cc, InternetChecksum, tcp_header.cc, tcp_segment.cc, ipv4_header.cc, ipv4_datagram.cc | through `FdAdapter` |
| `EthernetFormat` | ethernet_header.cc, ethernet_frame.cc, arp_message.cc | through `FdAdapter` |
| `FdAdapter` | fd_adapter.cc, tcp_over_ip.cc, tuntap_adapter.{hh,cc} | `Datagrams`, `MCDatagrams`: a listening server and clients over UDP, a TUN device or an Ethernet |

Fields have the code's names without the leading underscore, operators the names
of the methods, with the class in front where two classes share one. Operators
whose names end in `_Something` beside an operator of the code (`active_NoFlight`)
are wrong variants, used to see that a property notices.

Abstractions:

- A byte is its index in its stream, so "right bytes, right order" is "consecutive
  indices". A segment carries its absolute number `abs` besides the wrapped one;
  only properties read it.
- Widths are constants: `SizeMod` for size_t, `SeqnoMod` for 32 bits, `AbsMod` for
  64, `TtlMod` for the time to live. Unsigned arithmetic wraps at them.
- Exceptions set a flag `thrown`; the process is over then.
- Entries of the ARP tables hold their age instead of a time stamp, since the
  code only uses differences.
- In `TwoPeers`, rule 4 follows every handler in the same step; `SpongeSocket`
  shows for one peer that this loses nothing: it sends its queue when rule 4 has its
  turn, and is an implementation of `TwoPeers`. In `Internet` deliveries happen in any order, instead of the rounds of network_simulator.cc.
- `SpongeSocket` takes one step per poll, callback, tick and call of the owner.
  The socket pair is a queue of `PipeSize` bytes each way and the set of directions
  shut down, which both ends share; a write into one of those is a SIGPIPE.
- `StreamCopy` takes one step per rule of a pass, so that the parties act between
  the poll and a callback. A descriptor's counts of reads and writes are compared
  only before and after one callback, so a callback tells whether it counted.
  What poll(2), read(2) and writev(2) return is external: any outcome that Linux
  allows for pipes, a terminal and a stream socket.
- `WireFormat` works on real bytes and real widths. A 32-bit number is a pair of
  16-bit halves, and the checksum's sum is not wrapped: datagrams are far shorter
  than the 2^16 bytes a wrap needs. Only IPv4Datagram::serialize's exception is
  kept (nothing is written); the other two cannot be reached from the adapters.
- In `Datagrams` nobody writes while something is under way; on the Ethernet, ARP
  messages and the datagrams that waited for them follow each other in order. An adapter keeps
  nothing between two reads but its configuration, so datagrams that overtake each
  other are the same as ones sent in another order, and a lost one as one not sent.

## Runs

| Run | Instance | Shows |
|---|---|---|
| `Reassembly` | 6 bytes, capacity 4, peer inside the window, no bare end mark ahead of data | order, list, capacity, no exception; implements `ReassemblyAbs`: a call takes in its own piece, all of it that fits, and the end comes with the last byte |
| `Sending` | 8 bytes, numbers mod 8, windows 0..3, any acknowledgments | accounting, timer, backoff, faithful segments, window, nothing left behind |
| `Receiving` | 19 bytes in segments of 1 or of 2, numbers mod 16 | more than a turn of the numbers: order, acknowledgments, the closest unwrapped number, right edge, delivery up to a segment that starts a whole turn after the SYN |
| `TwoPeers_closes` | 3 bytes one way through a buffer of 2, 2 faults | reader's bytes are the writer's; both ends agree on acknowledgments; both finish cleanly |
| `TwoPeers_finish` | 1 byte, early timeouts, 1 fault, a client that goes away | an end without error has moved both streams; not lingering is safe; states of RFC 793 while nothing is lost |
| `Lan` | 2 hosts, 3 datagrams, 1 loss, 1 restart | none doubled, no flood of requests; without a fault none disappears and all arrive |
| `MCRouting` | all tables of up to 3 rules, 2-bit addresses | longest match, last among equals, with a shift by all the bits that shifts by none |
| `MCInternet` | 3 hosts, 2 routers with default routes to each other | time to live, rest, arrival at the host addressed |
| `StreamCopy` | 5 bytes out and 2 in through streams of 3, kernel queues of 1, a pipe or a terminal, 1 fault | bytes in order and once; exit only when done; half-close; completion, with no exception |
| `MCDatagrams` | 4 segments, 3 clients, one byte changed or the end cut off, UDP, TUN or Ethernet with ARP | accepted segments are those sent, of one peer; whole ones are accepted, and addresses learnt from undamaged frames are true |
| `SpongeSocket` | 2 bytes from the peer, a pipe of 1, 1 fault, an owner that shuts down, closes, waits or destroys at any time, a peer that vanishes | the owner's bytes and end of stream; no signal or exception; the socket is a peer of `TwoPeers`; the join returns, unless the peer vanished with a closed window |
| `TwoPeers_eof` | | the finding below |

Bounds. Streams are longer than the capacity, so that windows close and open, and
in `Sending` and `Receiving` longer than a turn of the numbers; the modulus is more
than twice the window, as 2^32 is. Segments carry one or two bytes
(`MAX_PAYLOAD_SIZE`, `MaxSegLen`), enough for partial acknowledgments and overlaps.
`MAX_RETX_ATTEMPTS` is 1 to 3, so that giving up is reached. `MaxFaults` counts
losses, duplications and overtakings; with `NetCap` segments on their way to a
peer the clock does not add to them. `TwoPeers_closes` has the code's linger time
of 10 timeouts, because it matters there: with 4, the peer is gone before the
third retransmission of a FIN (1+2+4 timeouts) reaches it. `Closes` also needs
more attempts than faults, since a probe that a full receiver refuses counts as an
attempt once the window is open. The other runs of `TwoPeers` shorten the linger
time to 2; their properties must hold whenever it ends.
ARP times are two or three ticks, so that entries expire during an exchange.
`MCInternet` sends to `Targets` only: a host at each end and an address that
nobody has, which goes to and fro; `Ttls` has 0 and a value that just crosses both routers.

Two constants restrict the environment of `TwoPeers`. `FinWaits`: an application
shuts down only when its data is acknowledged; otherwise a bare FIN may overtake
data and the finding `TwoPeers_eof` hides everything behind it. `Patient`: the
clock advances only when the network is empty; `TwoPeers_finish` does without it.
`OfficialState` is about behaviours without a fault so far, because an
acknowledgment that overtakes the SYN leads to a state that is none of RFC 793.
In `Reassembly`, `InWindow` and `BareFinAhead` exclude the situations of the finding
and of the first observation. In `Receiving` the peer's segments have one size,
`seg_len`; with two bytes none starts a whole turn after the initial number, with one
byte one does. `Delivered` says what follows in both cases.

`StreamCopy` has more bytes to send than stream and kernel hold, so that every outbound
queue fills; the two inbound ones wait for a queue of one, so that writes are partial in
both directions;
a fault is a signal, a failed poll, or a reader that goes away, and what an exit
then means is not claimed. The clients of `MCDatagrams` share an address or a port,
header fields are at the edges of their ranges, and each byte may change by 1, 128
or 255 (that is, -1); `MaxLength` is the longest frame. A frame cut to nothing is a
lost one. One frame of a behaviour is damaged on the Ethernet, because ARP messages
have no checksum and what a damaged one says stays in the table until it expires;
`MaxHeld` datagrams wait for an address, so that the code's list, which nothing
bounds (network_interface.cc:46), stays finite.

`SpongeSocket` has a pipe smaller than what is buffered, so that writes are partial,
either peer as the socket, and faults as in `TwoPeers`, but only losses. `BytesA` is 0
and `FinWaits` holds because of the finding, which the socket inherits. The peer drops
its connection at any time if it is the client. `Survives` excepts three situations and
`Joins` one, which the observations below describe.

Runs with CHECK_DEADLOCK FALSE are of systems that end: connections close, an
exception ends a process, a network comes to rest.

Fairness is weak, and written without ENABLED, except in `Receiving`. Of an action that may be taken for ever
it is `[]<>~Guard \/ []<><<Action>>_vars`, where Guard says that the action is possible:
deliveries, ticks. Of actions that come to an end by themselves between two ticks
(writes, shutdowns, reads, callbacks) it only says that again and again none is left
to do, `[]<>~Guard`: weaker to write and much cheaper to check. It is
assumed of what the event loop polls again and again (arriving segments, the
application's reads, writes and shutdown, the tick), of a peer that retransmits, and in
networks of deliveries and of the loop that calls route. In `SpongeSocket` the TCP
thread does not stop at a place of its loop, a join returns when the thread has ended,
and time passes when the loop has nothing to do; nothing is assumed of the calls the
owner makes. In `StreamCopy` it is assumed of the loop and of the peer's reads;
`HalfCloses` needs no more, and `Completes` states the reading of standard output as
a premise. Losses, restarts, faults and new datagrams have none.

In `Receiving` it is strong, `SF_vars`, for two actions: the peer resends the segment that
holds the first missing byte, and the reader reads. Both are disabled while the receiver
handles a segment, and the network may have one arrive each time they are enabled again,
so weak fairness would not oblige them. A peer's timer expires and a reader's loop
comes round however many other segments arrive.

## Findings

One is kept as a run that TLC must find violated; `PROJECT.json` quotes the lines.

- `TwoPeers_eof`: the end mark is kept without its place (stream_reassembler.cc:101-104);
  a FIN that overtakes data ends the reader's stream early.

Observations. The modules also state the following, which TLC refutes under the
constants given (within seconds, the first in half a minute); they are not kept as
runs.

- `TwoPeers!NeverThrows` (as `TwoPeers_eof`, but BytesA = 7, RecvCapacity = 3,
  SendCapacity = 7, MaxFaults = 1, NetCap = 4, FinWaits = TRUE): an outdated
  acknowledgment brings back an old window (tcp_sender.cc:86); the sender overruns
  the receiver; data that starts beyond the window is stored because a length wraps
  around (stream_reassembler.cc:45); later push_substring throws (cc:88).
  stream_reassembler.hh:36-37 says "Bytes that would exceed the capacity are
  silently discarded."
- `Receiving!AlwaysDelivered`, under the constants of the run: a segment that starts a
  whole turn after the initial number is taken for invalid (tcp_receiver.cc:26) however
  often it is resent. `Delivered`, which the run checks, says that the reader then gets
  the bytes in front of it and nothing else is lost.
- `Datagrams!HeaderErrorsRefuse`: IPv4Datagram::parse drops the result of the
  header's parser (ipv4_datagram.cc:13), so that a wrong version or header checksum
  is accepted; ipv4_header.cc:17-22 lists them as errors. TCPSegment::parse does the
  same (tcp_segment.cc:20).
- `Reassembly!EofComplete` (BareFinAhead = TRUE) and `Reassembly!WithinCapacity`
  (InWindow = FALSE): the causes of
  the finding and of the first observation, in the reassembler alone.
- `Sending!OutdatedAckHarmless`: the cause of the stale window. note.md:71 says that
  an acknowledgment number that is not acceptable must not affect other state.
- `TwoPeers!ConnectBlocks` (MaxFaults = 1): an acknowledgment is taken in SYN_SENT
  before the peer's SYN, and connect() returns. tests/fsm_connect.cc:26, which is
  not built, has "START -> SYN_SENT -> ACK (ignored) -> SYN -> SYN_RECV".
- `TwoPeers!DestructorSendsRst` (Abortable = {"a"}): the RST of ~TCPConnection dies
  with its queue. tcp_sponge_socket.hh:123-124 says that the connection "is
  immediately terminated with a RST".
- `Lan!HeldOnlyWhileUnknown`: an ARP request teaches an address and leaves the
  datagrams that wait for it (network_interface.cc:94-110, note.md:150).
- `Lan!LearnsSender` (MaxRestarts = 1): insert keeps the old Ethernet address of a
  host that restarted with a new one, until it expires (network_interface.cc:92,
  note.md:151, network_interface.hh:78-79).

Others were met while modelling the event loop and the socket; no definition states
them, though the first three are the exceptions of `Survives` and the fourth is that of
`Joins`.

- A reset arrives while two bytes or more are buffered and the pipe takes only a part
  of them: rule 3 shuts the direction down because of the error
  (tcp_sponge_socket.cc:133-138), stays interested in the rest (cc:149), and its next write is a
  SIGPIPE.
- The same signal ends the process if the owner waits with data of the peer unread:
  wait_until_closed shuts both directions down first (tcp_sponge_socket.cc:195).
  tcp_sponge_socket.hh:64-67 only says that it may wait.
- webget.cc:34-35 closes the socket before it waits: the shutdown fails on a closed
  descriptor, the exception ends the program, and the TCP thread, if it is still there,
  meets its own failing shutdown.
- A FIN or a probe sent to a peer that vanished with a closed window is repeated for
  ever: tcp_sender.cc:128 does not count the attempts then, so that a join may never
  return, also if the owner has read the end of the stream.
- Rule 2 passes data to a connection that was reset in the same pass: its interest was
  asked for before rule 1 ran.
- EthernetFrame::parse ignores its header's result, as the Internet parsers do: a frame
  of fewer than 14 bytes has an empty header, and is then for nobody.

An error of poll(2) other than EINTR is dropped (eventloop.cc:101-105), where the
comment says "this function throws a std::runtime_error" (eventloop.cc:46);
`StreamCopy!PollFails` has it. A hang-up of a descriptor nobody is interested in
makes poll return at once and again (eventloop.cc:86, 120), and the busy-wait check
sees callbacks only.

## Proofs

For all values of the constants that the ASSUMEs of the modules allow:

- `PrimitiveProofs`: `UnwrapReturnsClosest` and `RoundTrip`. Both widths
  arbitrary, the 64-bit one a multiple of the other. The offset computed by the code is
  the remainder modulo a turn, a remainder is unique in its turn, and of the three
  candidates of unwrap the one returned is no further from the checkpoint than any
  number with this remainder. The module also has what the others need of a ByteStream
  and of runs of consecutive bytes (`BytesConcat`, `BytesPrefix`...).
  Calls with a loop are `ForEach`, a recursive function, in the models. To reason
  about lists of any length the proofs need induction, and the library's induction
  theorems have an operator as a parameter, which the provers cannot instantiate. In
  `Induction` the predicate is a set of numbers; one lemma per loop (`MergeRuns`,
  `AddRuns`, `SetupRuns`, `SplitRuns`, `ResendRuns`) shows with it that the loop is the
  last of a sequence of values, each made from the one before by one element.
- `ReassemblyProofs`: `PromiseKept` (the refinement of `ReassemblyAbs`), `AlwaysInOrder`,
  `AlwaysWellFormed`, `AlwaysWithinCapacity` and `NeverThrowsAlways`, for every stream
  length, capacity and order of pieces. Assumed, as in the run: the peer stays in the
  window (`InWindow`) and sends no end mark ahead of its data (`~BareFinAhead`); without
  either the theorems are false. The refinement is about the piece itself: `Push` is the
  abstract arrival of bytes i to j-1, and the `Finish` of that call the abstract step that
  takes in these bytes, whatever the loop did in between; the end mark is accepted exactly
  if none of the piece was cut, and the end signalled exactly when the stream is complete.
  None of the properties is inductive. `IInv` has, for the object between two calls, that
  the nodes hold the stream's bytes, apart, in order and beyond the output (`ListOK`),
  that the counters of the output agree with it (`BaseOK`), that a known end means the
  last byte is there, and that an end known and reached has been signalled (`ObjectOK`);
  for a call under way it says how the local list, the string grown so far and the nodes
  not yet visited make up what was held and what arrived (`CallOK`). The bytes held, not
  the nodes, are the abstract state: an iteration may cut, swallow or join nodes and must
  leave their union alone. `ReassemblerProofs` shows that, with one lemma per branch of
  the loop; `AtNode` is the loop's state at one node. `UnassembledFits` counts: the bytes
  held apart are a set of indices between the output and the right edge of the window, so
  there are no more of them than room.
- `ReceivingProofs`: `AlwaysOutputInOrder`, `AlwaysAckIsFirstMissing`,
  `AlwaysUnwrapIsClosest` and `EdgeNeverShrinks`, for every stream, capacity, initial
  number and size of segments, which are lost, repeated and reordered at will. Assumed, as
  in the run: a segment starts inside the window and is at most `MaxAge` numbers old, both
  less than half a turn. `PushSubstring` puts the branches of `ReassemblerProofs`
  together: a whole call of push_substring with bytes of the stream keeps the object well
  formed and holds what it held and what fitted. `IInv` is that (`ReceiverOK`), and that
  the segment that has arrived is a piece of the stream (`WireOK`). That the FIN is
  acknowledged exactly when all is in needs that a receiver with all bytes knows of the
  end (`EndKnown`): the FIN rides on the last byte (`Rides`), and a piece that brings this
  byte into the window is not cut. That a segment is put where it belongs is the theorem
  on unwrap: it is less than half a turn from the checkpoint, and the 64-bit numbers do
  not wrap (`StreamLen + 2 < AbsMod`). The right edge moves only when bytes are read, by
  as many.
- `SendingProofs`: `InFlightAccountingAlways`, `UnaInFrontAlways`,
  `TimerRunsAlways`, `WindowAlwaysRespected`, `TypeOKAlways`, for every stream,
  window, payload size and peer. None of the properties is inductive: the counter
  of bytes in flight is right only because the outstanding segments follow each
  other without a gap up to the next number, and the loops break the relation
  between counter, queue and timer for the length of an iteration. `IInv` says so:
  `SenderInv` (the queue is a chain whose length is the counter), `BeforeSyn`
  (nothing has happened before the SYN), `Quiet` (the timer runs exactly if the
  queue is not empty, outside ack_received), and `FillInv` and `AckInv` for the
  local variables of the two loops. `Inductive` has one lemma per action; the
  chain is appended to by `ChainAppend` and shortened by `ChainTail`.

  On top of it, `StreamInSegmentsAlways` and `NothingStuckAlways`: `PInv` adds that
  the buffer holds the bytes between the two counters of the stream, that a stream
  whose FIN is out has ended and is empty (so that no later write can move the place
  of a FIN that may still be repeated), and that a fill_window which has come to its
  end leaves something outstanding or nothing to send (`Done`). An action adds bytes
  or reads them, and each segment afterwards is one from before, a new piece or empty
  (`Descends`); only `FillPieces` has to look at the loop body.

  `BackoffAlways`: the timeout is the initial one doubled once per counted
  retransmission, and a timer that runs is set to it. `BInv` adds the bound on the
  counter (`Retx`) and that the initial timeout never changes. The provers know no
  laws of exponents; the one needed, 2^(n+1) = 2 * 2^n for the values the counter
  takes, is `DoublingAssumption`, which TLC evaluates.
- `RoutingProofs`: `TypeOKAlways` and `LongestMatchAlways`, for every table and
  width; the shift is by less than the width because the default route is tested first.
  `LoopInv`: after k rules the search holds the best of the matching ones
  among the first k, or what it began with if there is none.

  `TtlPaidAlways`, for any number of hosts and routers, any links, any
  tables of rules (loops of routers included) and any number of datagrams. `InternetInv`
  says where datagrams are and that each of them has paid, which makes it a statement
  about types: with `Paid` for the datagrams, an interface, a router and a wire are of the
  types `Nics`, `RouterOf` and `Wires`, and every call of network_interface.cc and
  router.cc keeps them (`SendTyped`, `RecvTyped`, `RouteTyped`); only `HopPaid` looks at the
  numbers. route() has three loops within each other (interfaces, datagrams, rules), which
  `Iterates` runs inside the type. Assumed of a network: distinct addresses, interfaces
  numbered from 0, and rules that name interfaces of their router.
- `StreamCopyProofs`: `AlwaysNoneLostOrReordered` and `AlwaysExitMeansDone`, for all lengths
  of the streams, sizes of buffers and kernel queues, and any number of faults. Where each
  byte is, `FlowOK`, is inductive with the consistency of the two ByteStreams and holds
  through hang-ups and signals. That the loop does not return too early holds without
  faults and needs `Control`: a rule that is gone left its stream ended or shut
  (`RulesOK`), an ended stream was drained of its writer, and the end was passed on exactly
  if it is marked so (`DirectionOK`), the flags of a descriptor say the same (`FdsOK`), and
  poll(2) never reports a hang-up alone except for standard input (`CancelOnlyInput`):
  otherwise the rule that writes to the socket could be cancelled with bytes left. `Setting`
  is the invariant of the loop that prepares the poll; the order of the rules matters
  there, since a rule cancelled in this loop ends a stream whose writer is asked
  after it.

- `LanProofs`: `NoFloodAlways` and `NoneDoubledOrDroppedAlways`, for any finite set of
  hosts, any number of datagrams, losses and restarts, and any ARP times. `SendDatagram`,
  `Learn`, `Flush` and `TickNic` say what each call does to the fields of an interface;
  `Flush` rests on the two loops of recv_frame, the first of which splits the pending
  list and the second of which sends every datagram of the first part (that none of them
  is put back, which the comment in the code calls "theoretically impossible", is part of
  it: the address has just been learnt). `FloodInv` is that the counts of young requests
  and the table of blocked ones are the same; that a call's requests are finitely many,
  so that they can be counted, is `CountsRequests`. `PlaceInv` has three parts. `Proper`: the
  Ethernet address learnt for a host, or in a frame, is one that host has had, and a
  datagram waits at its sender, for the host it is for. `Apart`: no two of the places of
  a datagram are occupied, nor one twice. `Kept`: without losses and restarts one is. The
  frames a call sends are on the wires to all other hosts at once; a datagram is not
  doubled by that because only the host whose address the frame bears takes it, and no
  two hosts ever have the same address (`LanAssumption`: nor the broadcast one).

Only model-checked: liveness (outside the prover); and the compositions `TwoPeers`,
`SpongeSocket` with its refinement of `TwoPeers`, and `Datagrams`. What they promise rests
on a joint invariant of two connections, which moreover holds only for some of the
applications (`TwoPeers_eof` refutes `Integrity` for the others), or on the byte strings
and checksums of the codecs.

## Not modelled

- `BufferList::remove_prefix`, `BufferViewList` and the loop of FileDescriptor::write:
  the loop gathers views for writev(2); a partial write is an outcome of the kernel in
  `StreamCopy` and `SpongeSocket`.
- Sockets, addresses, the TUN/TAP devices and the rest of the file descriptors wrap
  one system call each. Their errors are exceptions wherever a model has them;
  a poll of the socket's loop that a signal interrupts is only in `StreamCopy`.
- The counts of reads and writes of the owner's descriptor are not atomic, and the TCP
  thread's last shutdown changes them too. Only the busy-wait check of an event loop of
  the owner reads them.
- The applications other than bidirectional_stream_copy and webget are command lines
  around the sockets; the Ethernet address that tcp_ip_ethernet.cc chooses at each start
  is a restart in `Lan`. The rounds of network_simulator.cc, and printing of
  headers and hex dumps, are left out.
- `Receiving` and `TwoPeers` scale the numbers' widths down; real widths are in the
  proofs of WrappingInt32 and in the codecs.
