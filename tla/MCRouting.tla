------------------------------ MODULE MCRouting -----------------------------
(***************************************************************************)
(* Routing with all rules over short addresses.                            *)
(***************************************************************************)
EXTENDS Routing

MCRules == [route_prefix : IpAddress, prefix_length : PrefixLength, interface_num : {0}]
=============================================================================
