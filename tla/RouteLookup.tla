----------------------------- MODULE RouteLookup ----------------------------
(***************************************************************************)
(* libsponge/router.cc:39-53: the search for the route with the longest    *)
(* prefix, one iteration of its loop at a time.  An address is a number of *)
(* AddressBits bits, 32 in the code.                                       *)
(***************************************************************************)
EXTENDS Integers, Sequences

CONSTANT AddressBits

\* The second part is arithmetic that the provers do not know.
ASSUME LookupAssumption ==
    /\ AddressBits \in Nat \ {0}
    /\ \A bits \in 0 .. AddressBits : 2 ^ bits \in Nat \ {0}

IpAddress == 0 .. 2 ^ AddressBits - 1
PrefixLength == 0 .. AddressBits

\* (a ^ b) >> bits is 0.  The language does not define the shift by all the
\* bits; the processor takes the count modulo the width and shifts by none.
same_above(a, b, bits) ==
    LET low == 2 ^ (bits % AddressBits)
    IN  a \div low = b \div low

\* Mutant: the default route is shifted like any other.
matches_NoDefault(rule, target) ==
    same_above(target, rule.route_prefix, AddressBits - rule.prefix_length)

matches(rule, target) ==
    \/ rule.prefix_length = 0
    \/ same_above(target, rule.route_prefix, AddressBits - rule.prefix_length)

\* The variables of the search; match_rule is a tuple that is empty until a
\* rule is assigned to it, which find_match records in the code.
lookup_begin == [longest |-> 0, match_rule |-> <<>>]

find_match(m) == m.match_rule # <<>>

\* A rule that is no shorter than the best so far replaces it.
better(m, rule) == m.longest <= rule.prefix_length

lookup_once(m, rule, target) ==
    IF matches(rule, target) /\ better(m, rule)
    THEN [longest |-> rule.prefix_length, match_rule |-> <<rule>>] ELSE m
=============================================================================
