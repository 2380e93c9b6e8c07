----------------------------- MODULE MCInternet -----------------------------
(***************************************************************************)
(* Three hosts and two routers over addresses of three bits:               *)
(*    link 0: h1 (1), r1 (0)                                               *)
(*    link 1: r1 (2), r2 (3)                                               *)
(*    link 2: r2 (4), h2 (5), h3 (6)                                       *)
(* Each router's default route leads to the other, so that a datagram for  *)
(* the address that nobody has, 7, goes to and fro.                        *)
(***************************************************************************)
EXTENDS Internet, TLC

MCAddressOf == (<<"r1", 0>> :> 0) @@ (<<"h1", 0>> :> 1) @@ (<<"r1", 1>> :> 2)
               @@ (<<"r2", 0>> :> 3) @@ (<<"r2", 1>> :> 4) @@ (<<"h2", 0>> :> 5)
               @@ (<<"h3", 0>> :> 6)
MCPorts == DOMAIN MCAddressOf
MCLinkOf == [p \in MCPorts |-> IF MCAddressOf[p] < 4 THEN MCAddressOf[p] \div 2 ELSE 2]
MCGateway == [h1 |-> 0, h2 |-> 4, h3 |-> 4]

Rule(prefix, length, hop_address, n) ==
    [route_prefix |-> prefix, prefix_length |-> length, next_hop |-> hop_address, interface_num |-> n]

MCRouteTable ==
    [r1 |-> <<Rule(0, 2, NoHop, 0), Rule(0, 0, 3, 1), Rule(2, 2, NoHop, 1)>>,
     r2 |-> <<Rule(6, 3, NoHop, 1), Rule(2, 2, NoHop, 0), Rule(4, 2, NoHop, 1), Rule(0, 0, 2, 0)>>]
=============================================================================
