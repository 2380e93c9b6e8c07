------------------------------- MODULE Routing ------------------------------
(***************************************************************************)
(* A Router whose table grows (router.cc:27-35) and is searched            *)
(* (router.cc:38-53).                                                      *)
(***************************************************************************)
EXTENDS RouteLookup

CONSTANTS
    Rules,     \* the rules that may be added
    MaxRules   \* bound: rules in the table

ASSUME RoutingAssumption ==
    /\ MaxRules \in Nat
    /\ \A rule \in Rules : rule.prefix_length \in PrefixLength /\ rule.route_prefix \in IpAddress

VARIABLES
    rule_list,  \* the table
    target,     \* the address looked for
    pos,        \* the rules visited so far; the search runs while pos >= 0
    m           \* longest and match_rule

vars == <<rule_list, target, pos, m>>

Idle == pos = -1

Init ==
    /\ rule_list = <<>>
    /\ target \in IpAddress
    /\ pos = -1
    /\ m = lookup_begin

AddRoute(rule) ==
    /\ Idle
    /\ Len(rule_list) < MaxRules
    /\ rule_list' = Append(rule_list, rule)
    /\ UNCHANGED <<target, pos, m>>

Lookup(t) ==
    /\ Idle
    /\ target' = t
    /\ pos' = 0
    /\ m' = lookup_begin
    /\ UNCHANGED rule_list

Visit ==
    /\ pos \in 0 .. Len(rule_list) - 1
    /\ pos' = pos + 1
    /\ m' = lookup_once(m, rule_list[pos + 1], target)
    /\ UNCHANGED <<rule_list, target>>

Return ==
    /\ pos = Len(rule_list)
    /\ pos' = -1
    /\ UNCHANGED <<rule_list, target, m>>

Next == \/ \E rule \in Rules : AddRoute(rule)
        \/ \E t \in IpAddress : Lookup(t)
        \/ Visit
        \/ Return

Spec == Init /\ [][Next]_vars

-----------------------------------------------------------------------------
\* The addresses of a rule: as many as the bits behind its prefix tell apart.
Network(rule) ==
    LET size  == 2 ^ (AddressBits - rule.prefix_length)
        first == rule.route_prefix - (rule.route_prefix % size)
    IN  first .. first + size - 1

\* The rules among the first n that t belongs to.
Matching(n, t) == {k \in 1 .. n : t \in Network(rule_list[k])}

\* Rule k is the last one with the longest prefix among the rules of S.
IsBest(k, S) ==
    /\ k \in S
    /\ \A j \in S : /\ rule_list[j].prefix_length <= rule_list[k].prefix_length
                    /\ j > k => rule_list[j].prefix_length < rule_list[k].prefix_length

\* Types and ranges.
TypeOK ==
    /\ rule_list \in Seq(Rules)
    /\ target \in IpAddress
    /\ pos \in -1 .. Len(rule_list)
    /\ m.longest \in PrefixLength

(***************************************************************************)
(* router.hh:58-60 "as specified by the route with the longest             *)
(* prefix_length that matches": when the search ends it has a rule exactly *)
(* if the address is in the network of one, and that is the one added last *)
(* among the longest; also for the prefixes of no and of all the bits,     *)
(* where the shift of router.cc:46 is at its limits.                       *)
(***************************************************************************)
LongestMatch ==
    pos = Len(rule_list) =>
        LET S == Matching(Len(rule_list), target)
        IN  /\ find_match(m) <=> S # {}
            /\ S # {} => \E k \in S : IsBest(k, S) /\ m.match_rule = <<rule_list[k]>>

\* The invariant of the loop: the same of the rules visited so far.
LoopInv ==
    pos >= 0 =>
        LET S == Matching(pos, target)
        IN  \/ S = {} /\ m = lookup_begin
            \/ \E k \in S : /\ IsBest(k, S)
                            /\ m = [longest |-> rule_list[k].prefix_length,
                                    match_rule |-> <<rule_list[k]>>]
=============================================================================
