-------------------------------- MODULE Router ------------------------------
(***************************************************************************)
(* libsponge/router.{hh,cc}: interfaces that keep the datagrams they       *)
(* receive, and a table that says where each one goes on.                  *)
(*                                                                         *)
(* A datagram is a record with the fields dst and ttl of its header.  The  *)
(* field `hops` is not in the code: it counts the routers crossed.         *)
(***************************************************************************)
EXTENDS NetworkInterface, RouteLookup, FiniteSets

CONSTANTS
    TtlMod,  \* 2^8 in the code
    NoHop    \* the next hop of a network that is directly attached

ASSUME RouterAssumption == TtlMod \in Nat \ {0} /\ NoHop \notin IpAddress

NewAsyncNetworkInterface(ethernet_address, ip_address) ==
    [nic |-> NewNetworkInterface(ethernet_address, ip_address), datagrams_out |-> <<>>]

\* AsyncNetworkInterface::recv_frame
async_recv_frame(p, frame) ==
    LET r == recv_frame(p.nic, frame)
    IN  [nic |-> r.nic, datagrams_out |-> p.datagrams_out \o r.up]

\* A router is its interfaces, numbered from 0, and its rules.
NewRouter(interfaces) == [interfaces |-> interfaces, rule_list |-> <<>>]

add_route(r, rule) == [r EXCEPT !.rule_list = Append(@, rule)]

lookup(r, target) ==
    ForEach(LAMBDA m, rule : lookup_once(m, rule, target), lookup_begin, r.rule_list)

\* Mutant: a datagram that arrives with no time left is not told apart.
expires_NoZero(dgram) == (dgram.ttl - 1) % TtlMod = 0

\* ttl == 0 || --ttl == 0
expires(dgram) == dgram.ttl \in {0, 1}

\* Mutant: the time to live is tested but not stored.
hop_KeepsTtl(dgram) == dgram

hop(dgram) == [dgram EXCEPT !.ttl = (@ - 1) % TtlMod, !.hops = @ + 1]

\* Mutant: a datagram for an attached network is sent to the interface.
next_hop_of_Own(rule, dgram) == IF rule.next_hop = NoHop THEN rule.route_prefix ELSE rule.next_hop

next_hop_of(rule, dgram) == IF rule.next_hop = NoHop THEN dgram.dst ELSE rule.next_hop

route_one_datagram(r, dgram) ==
    LET found == lookup(r, dgram.dst)
        rule  == Head(found.match_rule)
    IN  IF ~find_match(found) \/ expires(dgram) THEN r
        ELSE [r EXCEPT !.interfaces[rule.interface_num].nic =
                  send_datagram(@, hop(dgram), next_hop_of(rule, dgram))]

\* One interface's turn in the loop of route.
route_interface(r, n) ==
    ForEach(route_one_datagram,
            [r EXCEPT !.interfaces[n].datagrams_out = <<>>], r.interfaces[n].datagrams_out)

\* The numbers of the interfaces, in order.
numbers(r) == [k \in 1 .. Cardinality(DOMAIN r.interfaces) |-> k - 1]

route(r) == ForEach(route_interface, r, numbers(r))
=============================================================================
