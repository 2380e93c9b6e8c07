--------------------------------- MODULE Lan --------------------------------
(***************************************************************************)
(* Hosts on one Ethernet, each with a NetworkInterface driven as           *)
(* TCPOverIPv4OverEthernetAdapter drives it: every call is followed by     *)
(* send_pending.  Every frame reaches all other hosts, one after another,  *)
(* unless it is lost.  The IP address of a host is the host itself; the    *)
(* Ethernet address is new each time the program starts                    *)
(* (apps/tcp_ip_ethernet.cc:119-125).                                      *)
(***************************************************************************)
EXTENDS NetworkInterface, FiniteSets

CONSTANTS
    Hosts,
    MaxSends,     \* bound: datagrams sent
    MaxLosses,    \* bound: frames lost at a host
    MaxRestarts   \* bound: restarts

ASSUME LanAssumption ==
    /\ IsFiniteSet(Hosts)
    /\ MaxSends \in Nat /\ MaxLosses \in Nat /\ MaxRestarts \in Nat
    /\ ETHERNET_BROADCAST \notin Hosts \X (0 .. MaxRestarts)

VARIABLES
    nic,       \* the interface of each host
    wire,      \* the frames on their way to each host
    got,       \* the datagrams each host was passed
    sent,      \* the datagrams sent so far, with source and next hop
    losses,    \* the frames lost so far
    restarts,  \* the restarts so far
    asks       \* how many requests of each host for each address have each age

\* The ages at which a request is young.
Ages == 0 .. ARP_REQ_BLOCKING_TIME - 1
NoAsks == [ip \in Hosts |-> [age \in Ages |-> 0]]

vars == <<nic, wire, got, sent, losses, restarts, asks>>

Init ==
    /\ nic = [h \in Hosts |-> NewNetworkInterface(<<h, 0>>, h)]
    /\ wire = [h \in Hosts |-> <<>>]
    /\ got = [h \in Hosts |-> <<>>]
    /\ sent = <<>>
    /\ losses = 0
    /\ restarts = 0
    /\ asks = [h \in Hosts |-> NoAsks]

IsRequest(f, ip) == f.type = "ARP" /\ f.opcode = "REQUEST" /\ f.target_ip = ip

\* Counts the requests among the frames that h sends.
Asked(h, frames) ==
    [asks EXCEPT ![h] = [ip \in Hosts |->
        [asks[h][ip] EXCEPT ![0] = @ + Cardinality({k \in 1 .. Len(frames) : IsRequest(frames[k], ip)})]]]

\* h has the interface n, whose frames go out; w is left on the way to h.
SendPending(h, n, w) ==
    /\ nic' = [nic EXCEPT ![h] = [n EXCEPT !.frames_out = <<>>]]
    /\ wire' = [g \in Hosts |-> IF g = h THEN w ELSE wire[g] \o n.frames_out]
    /\ asks' = Asked(h, n.frames_out)

\* A datagram is its place among all that were sent.
Write(h, to) ==
    /\ Len(sent) < MaxSends
    /\ h # to
    /\ SendPending(h, send_datagram(nic[h], Len(sent) + 1, to), wire[h])
    /\ sent' = Append(sent, [from |-> h, to |-> to])
    /\ UNCHANGED <<got, losses, restarts>>

Read(h) ==
    /\ wire[h] # <<>>
    /\ LET r == recv_frame(nic[h], Head(wire[h]))
       IN  /\ SendPending(h, r.nic, Tail(wire[h]))
           /\ got' = [got EXCEPT ![h] = @ \o r.up]
    /\ UNCHANGED <<sent, losses, restarts>>

Tick(h) ==
    /\ nic' = [nic EXCEPT ![h] = NetworkInterface_tick(@, 1)]
    /\ asks' = [asks EXCEPT ![h] = [ip \in Hosts |->
           [age \in Ages |-> IF age = 0 THEN 0 ELSE asks[h][ip][age - 1]]]]
    /\ UNCHANGED <<wire, got, sent, losses, restarts>>

Lose(h) ==
    /\ wire[h] # <<>>
    /\ losses < MaxLosses
    /\ losses' = losses + 1
    /\ wire' = [wire EXCEPT ![h] = Tail(@)]
    /\ UNCHANGED <<nic, got, sent, restarts, asks>>

\* The program of h ends and is started again.
Restart(h) ==
    /\ restarts < MaxRestarts
    /\ restarts' = restarts + 1
    /\ nic' = [nic EXCEPT ![h] = NewNetworkInterface(<<h, restarts + 1>>, h)]
    /\ asks' = [asks EXCEPT ![h] = NoAsks]
    /\ UNCHANGED <<wire, got, sent, losses>>

Next == \E h \in Hosts : \/ \E to \in Hosts : Write(h, to)
                         \/ Read(h)
                         \/ Tick(h)
                         \/ Lose(h)
                         \/ Restart(h)

Spec == Init /\ [][Next]_vars

\* The adapter's loop reads the frames that arrive.
FairSpec == Spec /\ \A h \in Hosts : []<>(wire[h] = <<>>) \/ []<><<Read(h)>>_vars

-----------------------------------------------------------------------------
\* Where d is held, is on its way to the host that will take it, or arrived.
Places(d) ==
    LET held(h)    == {k \in 1 .. Len(nic[h].pending) : nic[h].pending[k].dgram = d}
        coming(h)  == {k \in 1 .. Len(wire[h]) : /\ wire[h][k].type = "IPv4"
                                                 /\ wire[h][k].dgram = d
                                                 /\ wire[h][k].dst = nic[h].eth}
        arrived(h) == {k \in 1 .. Len(got[h]) : got[h][k] = d}
    IN  UNION {({<<"held", h>>} \X held(h)) \cup ({<<"coming", h>>} \X coming(h))
               \cup ({<<"arrived", h>>} \X arrived(h)) : h \in Hosts}

(***************************************************************************)
(* network_interface.cc:46, 98-109: a datagram is never doubled, and while *)
(* no frame is lost and no host restarts none disappears between the       *)
(* pending list and the next hop.                                          *)
(***************************************************************************)
NoneDoubledOrDropped ==
    \A d \in 1 .. Len(sent) :
        /\ Cardinality(Places(d)) <= 1
        /\ losses = 0 /\ restarts = 0 => Cardinality(Places(d)) = 1

(***************************************************************************)
(* network_interface.cc:48-51, 158-165, note.md:150: in any period of      *)
(* ARP_REQ_BLOCKING_TIME a host asks for an address at most once.          *)
(***************************************************************************)
NoFlood ==
    \A h \in Hosts, ip \in Hosts : \A age \in Ages :
        /\ asks[h][ip][age] <= 1
        /\ asks[h][ip][age] = 1 => \A other \in Ages \ {age} : asks[h][ip][other] = 0

(***************************************************************************)
(* A datagram arrives when no frame is lost and no host restarts, however  *)
(* the requests and replies of the hosts cross and mappings expire.        *)
(***************************************************************************)
Arrives ==
    \A d \in 1 .. MaxSends :
        d <= Len(sent) ~> \/ \E h \in Hosts : \E k \in 1 .. Len(got[h]) : got[h][k] = d
                          \/ losses > 0 \/ restarts > 0

(***************************************************************************)
(* note.md:150: datagrams are held only "until the MAC address is found".  *)
(***************************************************************************)
HeldOnlyWhileUnknown ==
    \A h \in Hosts : \A k \in 1 .. Len(nic[h].pending) :
        nic[h].pending[k].next_hop \notin DOMAIN nic[h].mapping

(***************************************************************************)
(* note.md:151, network_interface.hh:78-79 "learn a mapping from the       *)
(* "sender" fields": after an ARP message the address of its sender is the *)
(* one in the message.                                                     *)
(***************************************************************************)
LearnsSender ==
    [][\A h \in Hosts :
           Read(h) /\ Head(wire[h]).type = "ARP" /\ for_me(nic[h], Head(wire[h])) =>
               nic'[h].mapping[Head(wire[h]).sender_ip].eth = Head(wire[h]).sender_eth]_vars
=============================================================================
