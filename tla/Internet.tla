------------------------------- MODULE Internet -----------------------------
(***************************************************************************)
(* Hosts and routers joined by links, as apps/network_simulator.cc joins   *)
(* them, but with frames delivered and routers run in any order.  A port   *)
(* <<r, n>> is interface n of router r, <<h, 0>> that of host h.           *)
(***************************************************************************)
EXTENDS Router

CONSTANTS
    Hosts, Routers,
    Ports,       \* all interfaces
    AddressOf,   \* the IP address of a port
    LinkOf,      \* the link it is plugged into
    Gateway,     \* the next hop of each host
    RouteTable,  \* the rules each router is given
    Targets,     \* the addresses that hosts send to
    Ttls,        \* the times to live that hosts use
    MaxSends     \* bound: datagrams sent

PortsOf(r) == {p[2] : p \in {q \in Ports : q[1] = r}}

ASSUME InternetAssumption ==
    /\ Ports \subseteq (Hosts \cup Routers) \X Nat /\ Hosts \cap Routers = {}
    /\ \A h \in Hosts : <<h, 0>> \in Ports /\ Gateway[h] \in IpAddress
    /\ \A p \in Ports : AddressOf[p] \in IpAddress
    /\ \A p, q \in Ports : AddressOf[p] = AddressOf[q] => p = q
    /\ \A r \in Routers :
           /\ \E n \in 0 .. Cardinality(Ports) : PortsOf(r) = 0 .. n - 1
           /\ RouteTable[r] \in Seq([route_prefix : IpAddress, prefix_length : PrefixLength,
                                     next_hop : IpAddress \cup {NoHop}, interface_num : PortsOf(r)])
    /\ Targets \subseteq IpAddress
    /\ Ttls \subseteq 0 .. TtlMod - 1
    /\ MaxSends \in Nat

VARIABLES
    host,    \* the interface of each host
    router,  \* the routers
    wire,    \* the frames on their way to each port
    sent     \* the datagrams sent by hosts

internetVars == <<host, router, wire, sent>>

NewPort(p) == NewAsyncNetworkInterface(p, AddressOf[p])

InternetInit ==
    /\ host = [h \in Hosts |-> NewPort(<<h, 0>>)]
    /\ router = [r \in Routers |->
           ForEach(add_route, NewRouter([n \in PortsOf(r) |-> NewPort(<<r, n>>)]), RouteTable[r])]
    /\ wire = [p \in Ports |-> <<>>]
    /\ sent = <<>>

\* The wires once the frames of port p are on its link.
Put(w, p, frames) ==
    [q \in Ports |-> IF q # p /\ LinkOf[q] = LinkOf[p] THEN w[q] \o frames ELSE w[q]]

\* The wires once the frames of all interfaces of router r, now c, are on their links.
PutAll(w, r, c) ==
    ForEach(LAMBDA v, n : Put(v, <<r, n>>, c.interfaces[n].nic.frames_out), w, numbers(c))

Sent(port) == [port EXCEPT !.nic.frames_out = <<>>]

SendTo(h, dst, ttl) ==
    LET dgram == [id |-> Len(sent) + 1, dst |-> dst, ttl |-> ttl, hops |-> 0]
        n     == send_datagram(host[h].nic, dgram, Gateway[h])
    IN  /\ Len(sent) < MaxSends
        /\ host' = [host EXCEPT ![h] = Sent([host[h] EXCEPT !.nic = n])]
        /\ wire' = Put(wire, <<h, 0>>, n.frames_out)
        /\ sent' = Append(sent, [from |-> h, dst |-> dst, ttl |-> ttl])
        /\ UNCHANGED router

HostReceive(h) ==
    LET p == <<h, 0>>
        c == async_recv_frame(host[h], Head(wire[p]))
    IN  /\ wire[p] # <<>>
        /\ host' = [host EXCEPT ![h] = Sent(c)]
        /\ wire' = Put([wire EXCEPT ![p] = Tail(@)], p, c.nic.frames_out)
        /\ UNCHANGED <<router, sent>>

RouterReceive(r, n) ==
    LET p == <<r, n>>
        c == async_recv_frame(router[r].interfaces[n], Head(wire[p]))
    IN  /\ wire[p] # <<>>
        /\ router' = [router EXCEPT ![r].interfaces[n] = Sent(c)]
        /\ wire' = Put([wire EXCEPT ![p] = Tail(@)], p, c.nic.frames_out)
        /\ UNCHANGED <<host, sent>>

\* A router has received datagrams and routes them all.
CanRoute(r) == \E n \in PortsOf(r) : router[r].interfaces[n].datagrams_out # <<>>

Route(r) ==
    LET c == route(router[r])
    IN  /\ CanRoute(r)
        /\ router' = [router EXCEPT ![r].interfaces = [n \in PortsOf(r) |-> Sent(c.interfaces[n])]]
        /\ wire' = PutAll(wire, r, c)
        /\ UNCHANGED <<host, sent>>

InternetNext ==
    \/ \E h \in Hosts : \/ \E dst \in Targets, ttl \in Ttls : SendTo(h, dst, ttl)
                        \/ HostReceive(h)
    \/ \E r \in Routers : Route(r) \/ \E n \in PortsOf(r) : RouterReceive(r, n)

InternetSpec == InternetInit /\ [][InternetNext]_internetVars

\* The simulator delivers all frames and runs every router again and again.
FairSpec ==
    /\ InternetSpec
    /\ \A h \in Hosts : []<>(wire[<<h, 0>>] = <<>>) \/ []<><<HostReceive(h)>>_internetVars
    /\ \A r \in Routers :
           /\ []<>~CanRoute(r) \/ []<><<Route(r)>>_internetVars
           /\ \A n \in PortsOf(r) : []<>(wire[<<r, n>>] = <<>>) \/ []<><<RouterReceive(r, n)>>_internetVars

-----------------------------------------------------------------------------
PortState(p) == IF p[1] \in Hosts THEN host[p[1]] ELSE router[p[1]].interfaces[p[2]]

\* The datagrams held, on a wire and received at port p.
At(p) ==
    LET c == PortState(p)
    IN  {c.nic.pending[k].dgram : k \in 1 .. Len(c.nic.pending)}
        \cup {c.datagrams_out[k] : k \in 1 .. Len(c.datagrams_out)}
        \cup {f.dgram : f \in {wire[p][k] : k \in {j \in 1 .. Len(wire[p]) : wire[p][j].type = "IPv4"}}}

(***************************************************************************)
(* router.cc:56: every router that forwards a datagram takes one from its  *)
(* time to live, which never passes below zero, in a loop of routers too.  *)
(***************************************************************************)
TtlPaid ==
    \A p \in Ports : \A d \in At(p) :
        /\ d.ttl + d.hops = sent[d.id].ttl
        /\ d.hops > 0 => d.ttl > 0

\* No datagram is on its way; what waits for an address nobody has waits on.
Settled ==
    /\ \A p \in Ports : wire[p] = <<>>
    /\ \A r \in Routers : ~CanRoute(r)

(***************************************************************************)
(* router.cc:56: whatever the rules, also when they form a loop, the       *)
(* network comes to rest.                                                  *)
(***************************************************************************)
ComesToRest == <>[]Settled

\* The host that the datagram is addressed to has it.
Received(id) ==
    /\ id <= Len(sent)
    /\ \E h \in Hosts : /\ AddressOf[<<h, 0>>] = sent[id].dst
                        /\ \E k \in 1 .. Len(host[h].datagrams_out) :
                              host[h].datagrams_out[k].id = id

(***************************************************************************)
(* network_simulator.cc:343: a datagram to a host, with time enough to     *)
(* cross all routers, is received by that host and not by another alone.   *)
(***************************************************************************)
ReachesHost ==
    \A id \in 1 .. MaxSends :
        (/\ id <= Len(sent)
         /\ sent[id].ttl > Cardinality(Routers)
         /\ \E h \in Hosts \ {sent[id].from} : sent[id].dst = AddressOf[<<h, 0>>]) ~> Received(id)
=============================================================================
