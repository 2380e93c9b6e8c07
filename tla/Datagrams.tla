----------------------------- MODULE Datagrams ------------------------------
(***************************************************************************)
(* A server that listens and clients that talk to it, each through its     *)
(* adapter, over one medium: TUN devices, UDP sockets, or an Ethernet with *)
(* the server and one client.  It carries a datagram or a frame at a time  *)
(* to whoever is there, and may change a byte of it or cut it short.       *)
(***************************************************************************)
EXTENDS FdAdapter, FiniteSets

CONSTANTS
    Server,      \* the server's address
    Clients,     \* the addresses of the clients
    TapClient,   \* the client on the Ethernet
    Segments,    \* the segments that are sent, without their ports
    Changes,     \* what is added to a byte that changes
    MaxLength,   \* of a datagram or frame
    MaxHeld      \* bound: datagrams that wait for an Ethernet address

ASSUME DatagramsAssumption ==
    /\ Server \notin Clients
    /\ TapClient \in Clients
    /\ Changes \subseteq 1 .. 255
    /\ MaxHeld \in Nat
    /\ \A s \in Segments : 34 + 4 * s.header.doff + Len(s.payload) <= MaxLength

VARIABLES
    via,       \* "tun", "udp" or "tap": the adapters in use
    adapter,   \* the adapter of each end
    nic,       \* the interface of each end on the Ethernet
    spoilt,    \* a frame has been changed
    wire,      \* the datagrams or frames under way
    heard,     \* per end, the ends it has accepted a segment of
    last       \* the last datagram read and what came of it, or none

vars == <<via, adapter, nic, spoilt, wire, heard, last>>

Ends == {Server} \cup Clients

TapEnds == {Server, TapClient}

\* A private Ethernet address.
EthernetOf(e) == <<2, 255, 0, 127>> \o u16(e.ip[2])

\* INADDR_ANY: the server does not know yet at which address it is called.
AnyAddress == <<0, 0>>

Init ==
    /\ via \in {"tun", "udp", "tap"}
    /\ adapter = [e \in Ends |->
                     IF e = Server
                     THEN NewAdapter([ip |-> AnyAddress, port |-> e.port], [ip |-> AnyAddress, port |-> 0], TRUE)
                     ELSE NewAdapter(e, Server, FALSE)]
    /\ nic = [e \in TapEnds |-> NewNetworkInterface(EthernetOf(e), e.ip)]
    /\ spoilt = FALSE
    /\ wire = <<>>
    /\ heard = [e \in Ends |-> {}]
    /\ last = None

Item(from, to, segment, bytes) ==
    [from |-> from, to |-> to, segment |-> segment, bytes |-> bytes, whole |-> TRUE]

\* The frames in the queue of end e's interface, for the device.
Framed(e, frames) ==
    [k \in 1 .. Len(frames) |->
        IF frames[k].type = "ARP" THEN Item(e, e, None, FrameBytes(frames[k]))
        ELSE Item(e, frames[k].dgram.to, <<frames[k].dgram.segment>>, FrameBytes(frames[k]))]

\* End e has the interface n, whose frames go out; w is left on the wire.
SendPending(e, n, w) ==
    /\ nic' = [nic EXCEPT ![e] = [n EXCEPT !.frames_out = <<>>]]
    /\ wire' = w \o Framed(e, n.frames_out)

\* An end sends a segment; the connection of one that listens is silent.
Write(e, segment) ==
    /\ via # "tap"
    /\ wire = <<>>
    /\ ~adapter[e].listening
    /\ wire' = <<Item(e, adapter[e].destination, <<segment>>,
                      IF via = "tun" THEN tun_write(adapter[e], segment) ELSE udp_write(adapter[e], segment))>>
    /\ last' = None
    /\ UNCHANGED <<via, adapter, nic, spoilt, heard>>

\* The same on the Ethernet, where the next hop is the other end.
WriteFrame(e, segment) ==
    /\ via = "tap"
    /\ wire = <<>>
    /\ ~adapter[e].listening
    /\ Len(nic[e].pending) < MaxHeld
    /\ \E next_hop \in {o.ip : o \in TapEnds \ {e}} :
           SendPending(e, tap_write(adapter[e], nic[e], segment, next_hop), <<>>)
    /\ last' = None
    /\ UNCHANGED <<via, adapter, spoilt, heard>>

\* What an ARP message says stays in the interfaces: only one frame changes.
Damage(bytes) ==
    /\ wire[1].whole
    /\ ~spoilt
    /\ wire' = [wire EXCEPT ![1].bytes = bytes, ![1].whole = FALSE]
    /\ spoilt' = (via = "tap")
    /\ UNCHANGED <<via, adapter, nic, heard, last>>

\* One byte changes on the way.
Change(k, by) ==
    /\ wire # <<>>
    /\ k <= Len(wire[1].bytes)
    /\ Damage([wire[1].bytes EXCEPT ![k] = (@ + by) % 256])

\* Only the first n bytes of an Internet datagram or a frame arrive.
Truncate(n) ==
    /\ via # "udp"
    /\ wire # <<>>
    /\ n < Len(wire[1].bytes)
    /\ Damage(SubSeq(wire[1].bytes, 1, n))

\* What comes of item d at end e.
Take(e, d, result) ==
    /\ adapter' = [adapter EXCEPT ![e] = result.adapter]
    /\ heard' = [heard EXCEPT ![e] = IF result.segment = None THEN @ ELSE @ \cup {d.from}]
    /\ last' = <<[reader |-> e, from |-> d.from, to |-> d.to, sent |-> d.segment, whole |-> d.whole,
                  addressed |-> d.whole /\ spoilt => SubSeq(d.bytes, 1, 6) = EthernetOf(e),
                  bad_header |-> via = "tun" /\ IPv4Header_parse(NewNetParser(d.bytes)).result # "NoError",
                  before |-> adapter[e], accepted |-> result.segment]>>

\* The device of end e has the datagram.  A TUN device may have any, a UDP
\* socket those for its own address.
Read(e) ==
    /\ via # "tap"
    /\ wire # <<>>
    /\ e # wire[1].from
    /\ via = "udp" => e = wire[1].to
    /\ \E result \in {IF via = "tun" THEN tun_read(adapter[e], wire[1].bytes)
                                      ELSE udp_read(adapter[e], wire[1].from, wire[1].bytes)} :
           Take(e, wire[1], result)
    /\ wire' = Tail(wire)
    /\ UNCHANGED <<via, nic, spoilt>>

ReadFrame(e) ==
    /\ via = "tap"
    /\ wire # <<>>
    /\ e # wire[1].from
    /\ \E r \in {tap_read(adapter[e], nic[e], wire[1].bytes)} :
           /\ Take(e, wire[1], r.result)
           /\ SendPending(e, r.nic, Tail(wire))
    /\ UNCHANGED <<via, spoilt>>

\* Time passes between two frames.
Tick(e) ==
    /\ via = "tap"
    /\ wire = <<>>
    /\ SendPending(e, NetworkInterface_tick(nic[e], 1), wire)
    /\ last' = None
    /\ UNCHANGED <<via, adapter, spoilt, heard>>

Next ==
    \/ \E e \in Ends, segment \in Segments : Write(e, segment)
    \/ \E e \in TapEnds, segment \in Segments : WriteFrame(e, segment)
    \/ \E k \in 1 .. MaxLength, by \in Changes : Change(k, by)
    \/ \E n \in 0 .. MaxLength - 1 : Truncate(n)
    \/ \E e \in Ends : Read(e)
    \/ \E e \in TapEnds : ReadFrame(e) \/ Tick(e)

Spec == Init /\ [][Next]_vars

-----------------------------------------------------------------------------
\* What a segment says, the checksum aside.
Content(segment) == [segment EXCEPT !.header.cksum = 0]

(***************************************************************************)
(* tcp_segment.cc:14-16, 34-38, tcp_over_ip.cc:43-47: a segment that an    *)
(* adapter hands to its connection is the one that was sent, field by      *)
(* field, also if a byte of the datagram or its frame has changed or its   *)
(* end is missing, and the errors found in the Internet and the Ethernet   *)
(* header are ignored.                                                     *)
(***************************************************************************)
AcceptedAsSent ==
    last # None /\ last[1].accepted # None =>
        /\ last[1].sent # None
        /\ Content(last[1].accepted[1]) =
               Content([last[1].sent[1] EXCEPT !.header.sport = last[1].from.port,
                                               !.header.dport = last[1].to.port])

(***************************************************************************)
(* tcp_over_ip.hh, fd_adapter.hh:54 "related to the current connection":   *)
(* an adapter, also one that has been listening while several clients      *)
(* called, only ever accepts segments of one other end, its destination.   *)
(***************************************************************************)
OnePeer ==
    \A e \in Ends : heard[e] # {} => heard[e] = {adapter[e].destination}

(***************************************************************************)
(* tcp_over_ip.cc:54-63, fd_adapter.cc:35-43, network_interface.cc:80-143: *)
(* whatever came before, a datagram that arrives whole at the end it is    *)
(* for is accepted if that end talks to its sender, or listens and is sent *)
(* an opening SYN.  The addresses learnt from a SYN are those that the     *)
(* answers need, and unless one of its messages was changed ARP finds the  *)
(* Ethernet address that the frame needs: both interfaces know only true   *)
(* addresses.                                                              *)
(***************************************************************************)
WholeIsAccepted ==
    /\ last # None /\ last[1].whole /\ last[1].to = last[1].reader /\ last[1].addressed =>
           LET expected == IF last[1].before.listening
                           THEN opens(last[1].sent[1].header)
                           ELSE last[1].before.destination = last[1].from
           IN  expected <=> last[1].accepted # None
    /\ ~spoilt => \A e \in TapEnds : \A ip \in DOMAIN nic[e].mapping :
           \E o \in TapEnds : ip = o.ip /\ nic[e].mapping[ip].eth = EthernetOf(o)

(***************************************************************************)
(* ipv4_header.cc:9-22 lists "wrong IP version number" and "the checksum   *)
(* is bad" among the errors of a datagram: no segment would be accepted    *)
(* out of a datagram whose header fails a check.  It is refuted:           *)
(* IPv4Datagram::parse drops the result of the header's parser.            *)
(***************************************************************************)
HeaderErrorsRefuse ==
    last # None /\ last[1].accepted # None => ~last[1].bad_header
=============================================================================
