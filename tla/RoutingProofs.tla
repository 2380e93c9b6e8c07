---------------------------- MODULE RoutingProofs ---------------------------
(***************************************************************************)
(* The search of router.cc:39-53 finds the longest matching prefix, for    *)
(* every table and every width of the addresses.  The test of router.cc:46 *)
(* tells the addresses of a rule's network (MatchesNetwork); the loop then *)
(* keeps the best of the rules it has visited (LoopInv).                   *)
(*                                                                         *)
(* In every network of hosts and routers a datagram pays for its hops with *)
(* its time to live (second part, InternetInv).                            *)
(***************************************************************************)
EXTENDS Routing, Internet, PrimitiveProofs, FiniteSetTheorems

\* What the assumption says of one rule.
LEMMA RuleLength ==
    ASSUME NEW rule \in Rules
    PROVE  rule.prefix_length \in 0 .. AddressBits /\ rule.prefix_length \in Int
BY RoutingAssumption, LookupAssumption DEF PrefixLength

\* Quotient and remainder recompose the number.
LEMMA Division ==
    ASSUME NEW s \in Nat \ {0}, NEW x \in Int
    PROVE  /\ x \div s \in Int
           /\ x % s \in 0 .. s - 1
           /\ x = s * (x \div s) + (x % s)
OBVIOUS

\* The comparison of the high-order bits finds the addresses of the network.
LEMMA MatchesNetwork ==
    ASSUME NEW rule \in Rules, NEW t \in IpAddress
    PROVE  matches(rule, t) <=> t \in Network(rule)
<1> DEFINE s  == 2 ^ (AddressBits - rule.prefix_length)
           p  == rule.route_prefix
           qp == p \div s
           rp == p % s
           qt == t \div s
           rt == t % s
<1>1. s \in Nat \ {0}
    <2>1. AddressBits - rule.prefix_length \in 0 .. AddressBits
        BY RuleLength, LookupAssumption
    <2> QED BY <2>1, LookupAssumption
<1>2. p \in IpAddress /\ p \in Int /\ t \in Int
    BY RoutingAssumption DEF IpAddress
<1>3. /\ qp \in Int /\ rp \in 0 .. s - 1 /\ p = s * qp + rp
      /\ qt \in Int /\ rt \in 0 .. s - 1 /\ t = s * qt + rt
    BY <1>1, <1>2, Division, Zenon
<1>4. Network(rule) = p - rp .. (p - rp) + s - 1
    BY DEF Network
<1>5. matches(rule, t) <=> rule.prefix_length = 0 \/ qt = qp
    <2>1. CASE rule.prefix_length = 0
        BY <2>1, Zenon DEF matches
    <2>2. CASE rule.prefix_length # 0
        <3>1. AddressBits - rule.prefix_length \in 0 .. AddressBits - 1
            BY <2>2, RuleLength, LookupAssumption
        <3>2. (AddressBits - rule.prefix_length) % AddressBits = AddressBits - rule.prefix_length
            BY <3>1, LookupAssumption
        <3> QED BY <2>2, <3>2, Zenon DEF matches, same_above
    <2> QED BY <2>1, <2>2
<1>6. CASE rule.prefix_length = 0
    <2>1. s = 2 ^ AddressBits
        <3>1. AddressBits - 0 = AddressBits
            BY LookupAssumption
        <3> QED BY <1>6, <3>1
    <2>2. p \in 0 .. s - 1 /\ t \in 0 .. s - 1
        BY <2>1, <1>2 DEF IpAddress
    <2>3. rp = p
        BY <2>2, <1>1, <1>2
    <2> HIDE DEF s, rp
    <2> QED BY <1>1, <1>2, <1>4, <1>5, <1>6, <2>2, <2>3
<1>7. CASE rule.prefix_length # 0
    <2> HIDE DEF s, p, qp, rp, qt, rt
    <2>1. qt = qp => t \in Network(rule)
        BY <1>1, <1>2, <1>3, <1>4
    <2>2. qt >= qp + 1 => t \notin Network(rule)
        <3> SUFFICES ASSUME qt >= qp + 1 PROVE t \notin Network(rule)
            OBVIOUS
        <3>1. s * qt >= s * (qp + 1)
            BY <1>1, <1>3
        <3>2. s * (qp + 1) = s * qp + s
            BY <1>1, <1>3
        <3> QED BY <1>1, <1>2, <1>3, <1>4, <3>1, <3>2
    <2>3. qt <= qp - 1 => t \notin Network(rule)
        <3> SUFFICES ASSUME qt <= qp - 1 PROVE t \notin Network(rule)
            OBVIOUS
        <3>1. s * qt <= s * (qp - 1)
            BY <1>1, <1>3
        <3>2. s * (qp - 1) = s * qp - s
            BY <1>1, <1>3
        <3> QED BY <1>1, <1>2, <1>3, <1>4, <3>1, <3>2
    <2> QED BY <1>3, <1>5, <1>7, <2>1, <2>2, <2>3
<1> QED BY <1>6, <1>7

\* Ranges are preserved by every step of the search and of the table.
LEMMA TypeStep ==
    TypeOK /\ [Next]_vars => TypeOK'
<1> SUFFICES ASSUME TypeOK, [Next]_vars
             PROVE  TypeOK'
    OBVIOUS
<1> USE LookupAssumption DEF TypeOK, PrefixLength
<1>1. ASSUME NEW rule \in Rules, AddRoute(rule)
      PROVE  TypeOK'
    BY <1>1 DEF AddRoute, Idle
<1>2. ASSUME NEW t \in IpAddress, Lookup(t)
      PROVE  TypeOK'
    BY <1>2 DEF Lookup, Idle, lookup_begin
<1>3. CASE Visit
    <2>1. rule_list[pos + 1] \in Rules
        BY <1>3 DEF Visit
    <2>2. m'.longest \in 0 .. AddressBits
        BY <1>3, <2>1, RuleLength DEF Visit, lookup_once
    <2> QED BY <1>3, <2>2 DEF Visit
<1>4. CASE Return
    BY <1>4 DEF Return
<1>5. CASE UNCHANGED vars
    BY <1>5 DEF vars
<1> QED BY <1>1, <1>2, <1>3, <1>4, <1>5 DEF Next

\* One more rule: the best so far stays, or the new one replaces it.
LEMMA VisitStep ==
    TypeOK /\ LoopInv /\ Visit => LoopInv'
<1> SUFFICES ASSUME TypeOK, LoopInv, Visit
             PROVE  LoopInv'
    OBVIOUS
<1> DEFINE n == pos + 1
           r == rule_list[n]
           S == Matching(pos, target)
           T == Matching(n, target)
<1>1. /\ pos \in 0 .. Len(rule_list) - 1 /\ pos \in Int /\ n \in 1 .. Len(rule_list)
      /\ Len(rule_list) \in Nat
      /\ pos' = n /\ rule_list' = rule_list /\ target' = target
      /\ m' = lookup_once(m, r, target)
    BY DEF Visit, TypeOK
<1>2. \A k \in 1 .. Len(rule_list) : rule_list[k].prefix_length \in Nat
    <2>1. \A k \in 1 .. Len(rule_list) : rule_list[k] \in Rules
        BY DEF TypeOK
    <2> QED BY <2>1, RuleLength
<1>3. S \subseteq 1 .. pos /\ n \notin S
    BY <1>1 DEF Matching
<1>4. T = IF matches(r, target) THEN S \cup {n} ELSE S
    <2>1. r \in Rules /\ target \in IpAddress
        BY <1>1 DEF TypeOK
    <2>2. matches(r, target) <=> target \in Network(r)
        BY <2>1, MatchesNetwork
    <2> QED BY <1>1, <2>2 DEF Matching
<1>5. Matching(pos, target)' = T
    BY <1>1 DEF Matching
<1>6. \A k, Z : IsBest(k, Z)' <=> IsBest(k, Z)
    BY <1>1 DEF IsBest
<1>7. SUFFICES \/ T = {} /\ m' = lookup_begin
               \/ \E k \in T : /\ IsBest(k, T)
                               /\ m' = [longest |-> rule_list[k].prefix_length,
                                        match_rule |-> <<rule_list[k]>>]
    BY <1>1, <1>5, <1>6 DEF LoopInv, IsBest
<1>8. \/ S = {} /\ m = lookup_begin
      \/ \E k \in S : /\ IsBest(k, S)
                      /\ m = [longest |-> rule_list[k].prefix_length,
                              match_rule |-> <<rule_list[k]>>]
    BY <1>1 DEF LoopInv
<1> HIDE DEF S, T
<1>9. CASE ~matches(r, target)
    BY <1>1, <1>4, <1>8, <1>9 DEF lookup_once
<1>10. CASE matches(r, target) /\ S = {} /\ m = lookup_begin
    <2>1. T = {n}
        BY <1>4, <1>10
    <2>2. m' = [longest |-> r.prefix_length, match_rule |-> <<r>>]
        BY <1>1, <1>2, <1>10 DEF lookup_once, lookup_begin, better
    <2> QED BY <1>1, <1>2, <2>1, <2>2 DEF IsBest
<1>11. CASE matches(r, target) /\ S # {}
    <2>1. PICK k \in S : /\ IsBest(k, S)
                         /\ m = [longest |-> rule_list[k].prefix_length,
                                 match_rule |-> <<rule_list[k]>>]
        BY <1>8, <1>11
    <2>2. /\ k \in 1 .. Len(rule_list) /\ k < n
          /\ \A j \in S : j \in 1 .. Len(rule_list) /\ j < n
        BY <1>1, <1>3
    <2>3. T = S \cup {n}
        BY <1>4, <1>11
    <2>4. CASE rule_list[k].prefix_length <= r.prefix_length
        <3>1. m' = [longest |-> r.prefix_length, match_rule |-> <<r>>]
            BY <1>1, <1>11, <2>1, <2>4 DEF lookup_once, better
        <3>2. IsBest(n, T)
            BY <1>1, <1>2, <2>1, <2>2, <2>3, <2>4 DEF IsBest
        <3> QED BY <2>3, <3>1, <3>2
    <2>5. CASE ~(rule_list[k].prefix_length <= r.prefix_length)
        <3>1. m' = m
            BY <1>1, <2>1, <2>5 DEF lookup_once, better
        <3>2. IsBest(k, T)
            BY <1>1, <1>2, <2>1, <2>2, <2>3, <2>5 DEF IsBest
        <3> QED BY <2>1, <2>3, <3>1, <3>2
    <2> QED BY <2>4, <2>5
<1> QED BY <1>8, <1>9, <1>10, <1>11

\* The invariant of the loop is preserved by every step.
LEMMA LoopStep ==
    TypeOK /\ LoopInv /\ [Next]_vars => LoopInv'
<1> SUFFICES ASSUME TypeOK, LoopInv, [Next]_vars
             PROVE  LoopInv'
    OBVIOUS
<1>1. ASSUME NEW rule \in Rules, AddRoute(rule)
      PROVE  LoopInv'
    BY <1>1 DEF AddRoute, Idle, LoopInv
<1>2. ASSUME NEW t \in IpAddress, Lookup(t)
      PROVE  LoopInv'
    BY <1>2 DEF Lookup, LoopInv, Matching
<1>3. CASE Visit
    BY <1>3, VisitStep
<1>4. CASE Return
    BY <1>4 DEF Return, LoopInv
<1>5. CASE UNCHANGED vars
    BY <1>5 DEF vars, LoopInv, Matching, IsBest
<1> QED BY <1>1, <1>2, <1>3, <1>4, <1>5 DEF Next

\* A search that has visited the whole table has the answer.
LEMMA LoopEnd ==
    TypeOK /\ LoopInv => LongestMatch
<1> SUFFICES ASSUME TypeOK, LoopInv, pos = Len(rule_list)
             PROVE  LET S == Matching(Len(rule_list), target)
                    IN  /\ find_match(m) <=> S # {}
                        /\ S # {} => \E k \in S : IsBest(k, S) /\ m.match_rule = <<rule_list[k]>>
    BY DEF LongestMatch
<1> DEFINE S == Matching(Len(rule_list), target)
<1>1. \/ S = {} /\ m = lookup_begin
      \/ \E k \in S : /\ IsBest(k, S)
                      /\ m = [longest |-> rule_list[k].prefix_length,
                              match_rule |-> <<rule_list[k]>>]
    BY DEF LoopInv, TypeOK
<1> HIDE DEF S
<1>2. S = {} /\ m = lookup_begin => ~find_match(m)
    BY DEF find_match, lookup_begin
<1>3. \A x : <<x>> # <<>>
    OBVIOUS
<1>4. S # {} => \E k \in S : IsBest(k, S) /\ m.match_rule = <<rule_list[k]>>
    BY <1>1
<1>5. find_match(m) <=> S # {}
    BY <1>2, <1>1, <1>3, <1>4 DEF find_match
<1>6. QED BY <1>4, <1>5, Zenon DEF S

\* Ranges of the table and of the search (router.cc:39-53).
THEOREM TypeOKAlways == Spec => []TypeOK
<1>1. Init => TypeOK
    BY LookupAssumption DEF Init, TypeOK, lookup_begin, PrefixLength
<1> QED BY <1>1, TypeStep, PTL DEF Spec

\* route_one_datagram uses the route with the longest prefix that matches,
\* and the one added last among equals (router.cc:44-53, router.hh:58-60).
THEOREM LongestMatchAlways == Spec => []LongestMatch
<1>1. Init => TypeOK /\ LoopInv
    BY LookupAssumption DEF Init, TypeOK, LoopInv, lookup_begin, PrefixLength
<1>2. TypeOK /\ LoopInv /\ [Next]_vars => TypeOK' /\ LoopInv'
    BY TypeStep, LoopStep
<1> QED BY <1>1, <1>2, LoopEnd, PTL DEF Spec
-----------------------------------------------------------------------------
(***************************************************************************)
(* The network of Internet.  Every datagram that is held, on a wire or     *)
(* received has paid for its hops (Paid): that is a type, which every call *)
(* of an interface and of a router keeps.                                  *)
(***************************************************************************)

Arps == [type : {"ARP"}, src : Ports, dst : Ports \cup {ETHERNET_BROADCAST},
         opcode : {"REQUEST", "REPLY"}, sender_ip : IpAddress, sender_eth : Ports,
         target_ip : IpAddress]
Ipv4s(D) == [type : {"IPv4"}, src : Ports, dst : Ports, dgram : D]
Frames(D) == Arps \cup Ipv4s(D)

Entries(D) == [dgram : D, next_hop : IpAddress]
Mappings == UNION {[S -> [eth : Ports, age : Nat]] : S \in SUBSET IpAddress}
Blockings == UNION {[S -> Nat] : S \in SUBSET IpAddress}

\* Interfaces that deal with the datagrams of D.
Nics(D) == [eth : Ports, ip : IpAddress, frames_out : Seq(Frames(D)), mapping : Mappings,
            pending : Seq(Entries(D)), blocking : Blockings]
Cards(D) == [nic : Nics(D), datagrams_out : Seq(D)]
Wires(D) == [Ports -> Seq(Frames(D))]

\* The rules of router r, and its states.
RulesOf(r) == [route_prefix : IpAddress, prefix_length : PrefixLength,
               next_hop : IpAddress \cup {NoHop}, interface_num : PortsOf(r)]
RouterOf(r, D) == [interfaces : [PortsOf(r) -> Cards(D)], rule_list : Seq(RulesOf(r))]

\* When s was sent: datagrams whose time to live is what is left after their hops.
Paid(s) == {d \in [id : Nat, dst : IpAddress, ttl : 0 .. TtlMod - 1, hops : Nat] :
                /\ d.id \in 1 .. Len(s)
                /\ d.ttl + d.hops = s[d.id].ttl
                /\ d.hops > 0 => d.ttl > 0}

Sendings == [from : Hosts, dst : IpAddress, ttl : 0 .. TtlMod - 1]

InternetInv ==
    /\ sent \in Seq(Sendings)
    /\ host \in [Hosts -> Cards(Paid(sent))]
    /\ router = [r \in Routers |-> router[r]]
    /\ \A r \in Routers : router[r] \in RouterOf(r, Paid(sent))
    /\ wire \in Wires(Paid(sent))

\* g is the run of a loop that starts with base and does step[1], ..., step[n].
IsRun(g, n, base, step) == g = [k \in 0 .. n |-> IF k = 0 THEN base ELSE step[k][g[k - 1]]]

\* A loop whose step maps T into T has a run in T.
LEMMA Iterates ==
    ASSUME NEW T, NEW base \in T, NEW n \in Nat, NEW step \in [1 .. n -> [T -> T]]
    PROVE  \E g \in [0 .. n -> T] : IsRun(g, n, base, step)
  <1> DEFINE Body(g, j) == [k \in 0 .. j |-> IF k = 0 THEN base ELSE step[k][g[k - 1]]]
             U == {j \in 0 .. n : \E g \in [0 .. j -> T] : g = Body(g, j)}
  <1>1. 0 \in U
    <2> DEFINE g == [k \in 0 .. 0 |-> base]
    <2>1. g = Body(g, 0) /\ g \in [0 .. 0 -> T] /\ 0 \in 0 .. n  OBVIOUS
    <2> HIDE DEF g
    <2> QED  BY <2>1
  <1>2. ASSUME NEW j \in 0 .. n - 1, j \in U  PROVE j + 1 \in U
    <2>1. PICK g \in [0 .. j -> T] : g = Body(g, j)  BY <1>2
    <2> DEFINE v == step[j + 1][g[j]]
               h == [k \in 0 .. j + 1 |-> IF k = j + 1 THEN v ELSE g[k]]
    <2>2. v \in T  
      <3>1. j + 1 \in 1 .. n /\ j \in 0 .. j  OBVIOUS
      <3> QED  BY <3>1
    <2>3. h \in [0 .. j + 1 -> T]  
      <3> HIDE DEF v
      <3> QED  BY <2>2
    <2>4. ASSUME NEW k \in 0 .. j + 1
          PROVE  h[k] = IF k = 0 THEN base ELSE step[k][h[k - 1]]
      <3>1. CASE k = j + 1
        <4>1. j \in 0 .. j + 1 /\ j # j + 1 /\ k # 0 /\ k - 1 = j  BY <3>1
        <4>2. h[j] = g[j] /\ h[k] = v  BY <3>1, <4>1
        <4> HIDE DEF h
        <4> QED  BY <3>1, <4>1, <4>2
      <3>2. CASE k # j + 1
        <4>1. k \in 0 .. j /\ h[k] = g[k]  BY <3>2
        <4>2. g[k] = IF k = 0 THEN base ELSE step[k][g[k - 1]]  BY <2>1, <4>1
        <4>3. k # 0 => k - 1 \in 0 .. j + 1 /\ k - 1 # j + 1  BY <4>1
        <4>4. k # 0 => h[k - 1] = g[k - 1]  BY <4>3
        <4> HIDE DEF h
        <4> QED  BY <4>1, <4>2, <4>4
      <3> QED  BY <3>1, <3>2
    <2>5. h = Body(h, j + 1)
      <3>1. h = [k \in 0 .. j + 1 |-> h[k]]  OBVIOUS
      <3> HIDE DEF h
      <3> QED  BY <2>4, <3>1, Zenon
    <2>6. j + 1 \in 0 .. n  OBVIOUS
    <2> HIDE DEF h
    <2> QED  BY <2>3, <2>5, <2>6, Zenon
  <1>3. n \in U
    <2> HIDE DEF U
    <2>1. n \in 0 .. n  OBVIOUS
    <2>2. \A j \in 0 .. n - 1 : j \in U => j + 1 \in U  BY <1>2
    <2>3. \A j \in 0 .. n : j \in U  BY ONLY n \in Nat, <1>1, <2>2, Induction, Zenon
    <2> QED  BY <2>1, <2>3
  <1> QED  BY <1>3, Zenon DEF IsRun

\* A run whose steps keep T stays there.
LEMMA RunStays ==
    ASSUME NEW T, NEW n \in Nat, NEW run, run[0] \in T,
           \A k \in 1 .. n : run[k - 1] \in T => run[k] \in T
    PROVE  run[n] \in T
  <1> DEFINE U == {k \in 0 .. n : run[k] \in T}
  <1>1. 0 \in U  OBVIOUS
  <1>2. \A k \in 0 .. n - 1 : k \in U => k + 1 \in U
    <2> TAKE k \in 0 .. n - 1
    <2>1. k + 1 \in 1 .. n /\ (k + 1) - 1 = k /\ k + 1 \in 0 .. n  OBVIOUS
    <2> QED  BY <2>1
  <1>3. n \in 0 .. n  OBVIOUS
  <1>4. n \in U
    <2> HIDE DEF U
    <2> QED  BY ONLY n \in Nat, <1>1, <1>2, <1>3, Induction, SMTT(30)
  <1> QED  BY <1>4

\* The loops of the calls.
LEMMA ResendStays ==
    ASSUME NEW T, NEW base \in T, NEW list, Len(list) \in Nat,
           \A x \in T : \A k \in 1 .. Len(list) : resend(x, list[k]) \in T
    PROVE  ForEach(resend, base, list) \in T
  <1> DEFINE n == Len(list)
             Body(g) == [k \in 0 .. n |-> IF k = 0 THEN base ELSE resend(g[k - 1], list[k])]
             step == [k \in 1 .. n |-> [x \in T |-> resend(x, list[k])]]
             run == CHOOSE g : g = Body(g)
  <1>1. step \in [1 .. n -> [T -> T]]  OBVIOUS
  <1>2. PICK g \in [0 .. n -> T] : IsRun(g, n, base, step)
    <2> HIDE DEF step, n
    <2>1. n \in Nat  BY DEF n
    <2> QED  BY ONLY base \in T, <1>1, <2>1, Iterates, Zenon
  <1>3. g = Body(g)
    <2>1. ASSUME NEW k \in 1 .. n  PROVE step[k][g[k - 1]] = resend(g[k - 1], list[k])
      <3>1. g[k - 1] \in T  OBVIOUS
      <3> QED  BY <3>1
    <2> HIDE DEF step
    <2>2. \A k \in 0 .. n : k # 0 => k \in 1 .. n  OBVIOUS
    <2> QED  BY ONLY <1>2, <2>1, <2>2, Zenon DEF IsRun
  <1>4. run = Body(run)  BY ONLY <1>3, Zenon
  <1>5. run[n] = ForEach(resend, base, list)  BY Zenon DEF ForEach
  <1> HIDE DEF run
  <1>6. run[0] = base /\ \A k \in 1 .. n : run[k] = resend(run[k - 1], list[k])
    <2>1. 0 \in 0 .. n /\ \A k \in 1 .. n : k \in 0 .. n /\ k # 0  OBVIOUS
    <2> QED  BY ONLY <1>4, <2>1, Zenon
  <1>7. \A k \in 1 .. n : run[k - 1] \in T => run[k] \in T  BY <1>6, Zenon
  <1>8. run[n] \in T
    <2> HIDE DEF n
    <2>1. n \in Nat  BY DEF n
    <2> QED  BY ONLY base \in T, <1>6, <1>7, <2>1, RunStays, Zenon
  <1> QED  BY <1>5, <1>8

nothing == [tmp_list |-> <<>>, rest |-> <<>>]

LEMMA SplitStays ==
    ASSUME NEW T, nothing \in T, NEW list, Len(list) \in Nat, NEW ip,
           \A x \in T : \A k \in 1 .. Len(list) : take(x, list[k], ip) \in T
    PROVE  split(list, ip) \in T
  <1> DEFINE n == Len(list)
             Body(g) == [k \in 0 .. n |-> IF k = 0 THEN nothing ELSE take(g[k - 1], list[k], ip)]
             step == [k \in 1 .. n |-> [x \in T |-> take(x, list[k], ip)]]
             run == CHOOSE g : g = Body(g)
  <1>1. step \in [1 .. n -> [T -> T]]  OBVIOUS
  <1>2. PICK g \in [0 .. n -> T] : IsRun(g, n, nothing, step)
    <2> HIDE DEF step, n
    <2>1. n \in Nat  BY DEF n
    <2> QED  BY ONLY nothing \in T, <1>1, <2>1, Iterates, Zenon
  <1>3. g = Body(g)
    <2>1. ASSUME NEW k \in 1 .. n  PROVE step[k][g[k - 1]] = take(g[k - 1], list[k], ip)
      <3>1. g[k - 1] \in T  OBVIOUS
      <3> QED  BY <3>1
    <2> HIDE DEF step
    <2>2. \A k \in 0 .. n : k # 0 => k \in 1 .. n  OBVIOUS
    <2> QED  BY ONLY <1>2, <2>1, <2>2, Zenon DEF IsRun
  <1>4. run = Body(run)  BY ONLY <1>3, Zenon
  <1>5. run[n] = split(list, ip)  BY Zenon DEF split, ForEach, nothing
  <1> HIDE DEF run
  <1>6. run[0] = nothing /\ \A k \in 1 .. n : run[k] = take(run[k - 1], list[k], ip)
    <2>1. 0 \in 0 .. n /\ \A k \in 1 .. n : k \in 0 .. n /\ k # 0  OBVIOUS
    <2> QED  BY ONLY <1>4, <2>1, Zenon
  <1>7. \A k \in 1 .. n : run[k - 1] \in T => run[k] \in T  BY <1>6, Zenon
  <1>8. run[n] \in T
    <2> HIDE DEF n
    <2>1. n \in Nat  BY DEF n
    <2> QED  BY ONLY nothing \in T, <1>6, <1>7, <2>1, RunStays, Zenon
  <1> QED  BY <1>5, <1>8

LEMMA LookupStays ==
    ASSUME NEW T, lookup_begin \in T, NEW list, Len(list) \in Nat, NEW q, list = q.rule_list, NEW t,
           \A x \in T : \A k \in 1 .. Len(list) : lookup_once(x, list[k], t) \in T
    PROVE  lookup(q, t) \in T
  <1> DEFINE n == Len(list)
             Body(g) == [k \in 0 .. n |-> IF k = 0 THEN lookup_begin ELSE lookup_once(g[k - 1], list[k], t)]
             step == [k \in 1 .. n |-> [x \in T |-> lookup_once(x, list[k], t)]]
             run == CHOOSE g : g = Body(g)
  <1>1. step \in [1 .. n -> [T -> T]]  OBVIOUS
  <1>2. PICK g \in [0 .. n -> T] : IsRun(g, n, lookup_begin, step)
    <2> HIDE DEF step, n
    <2>1. n \in Nat  BY DEF n
    <2> QED  BY ONLY lookup_begin \in T, <1>1, <2>1, Iterates, Zenon
  <1>3. g = Body(g)
    <2>1. ASSUME NEW k \in 1 .. n  PROVE step[k][g[k - 1]] = lookup_once(g[k - 1], list[k], t)
      <3>1. g[k - 1] \in T  OBVIOUS
      <3> QED  BY <3>1
    <2> HIDE DEF step
    <2>2. \A k \in 0 .. n : k # 0 => k \in 1 .. n  OBVIOUS
    <2> QED  BY ONLY <1>2, <2>1, <2>2, Zenon DEF IsRun
  <1>4. run = Body(run)  BY ONLY <1>3, Zenon
  <1>5. run[n] = lookup(q, t)  BY Zenon DEF lookup, ForEach
  <1> HIDE DEF run
  <1>6. run[0] = lookup_begin /\ \A k \in 1 .. n : run[k] = lookup_once(run[k - 1], list[k], t)
    <2>1. 0 \in 0 .. n /\ \A k \in 1 .. n : k \in 0 .. n /\ k # 0  OBVIOUS
    <2> QED  BY ONLY <1>4, <2>1, Zenon
  <1>7. \A k \in 1 .. n : run[k - 1] \in T => run[k] \in T  BY <1>6, Zenon
  <1>8. run[n] \in T
    <2> HIDE DEF n
    <2>1. n \in Nat  BY SMTT(30) DEF n
    <2> QED  BY ONLY lookup_begin \in T, <1>6, <1>7, <2>1, RunStays, Zenon
  <1> QED  BY <1>5, <1>8

LEMMA RouteOneStays ==
    ASSUME NEW T, NEW base \in T, NEW list, Len(list) \in Nat,
           \A x \in T : \A k \in 1 .. Len(list) : route_one_datagram(x, list[k]) \in T
    PROVE  ForEach(route_one_datagram, base, list) \in T
  <1> DEFINE n == Len(list)
             Body(g) == [k \in 0 .. n |-> IF k = 0 THEN base ELSE route_one_datagram(g[k - 1], list[k])]
             step == [k \in 1 .. n |-> [x \in T |-> route_one_datagram(x, list[k])]]
             run == CHOOSE g : g = Body(g)
  <1>1. step \in [1 .. n -> [T -> T]]  OBVIOUS
  <1>2. PICK g \in [0 .. n -> T] : IsRun(g, n, base, step)
    <2> HIDE DEF step, n
    <2>1. n \in Nat  BY DEF n
    <2> QED  BY ONLY base \in T, <1>1, <2>1, Iterates, Zenon
  <1>3. g = Body(g)
    <2>1. ASSUME NEW k \in 1 .. n  PROVE step[k][g[k - 1]] = route_one_datagram(g[k - 1], list[k])
      <3>1. g[k - 1] \in T  OBVIOUS
      <3> QED  BY <3>1
    <2> HIDE DEF step
    <2>2. \A k \in 0 .. n : k # 0 => k \in 1 .. n  OBVIOUS
    <2> QED  BY ONLY <1>2, <2>1, <2>2, Zenon DEF IsRun
  <1>4. run = Body(run)  BY ONLY <1>3, Zenon
  <1>5. run[n] = ForEach(route_one_datagram, base, list)  BY Zenon DEF ForEach
  <1> HIDE DEF run
  <1>6. run[0] = base /\ \A k \in 1 .. n : run[k] = route_one_datagram(run[k - 1], list[k])
    <2>1. 0 \in 0 .. n /\ \A k \in 1 .. n : k \in 0 .. n /\ k # 0  OBVIOUS
    <2> QED  BY ONLY <1>4, <2>1, Zenon
  <1>7. \A k \in 1 .. n : run[k - 1] \in T => run[k] \in T  BY <1>6, Zenon
  <1>8. run[n] \in T
    <2> HIDE DEF n
    <2>1. n \in Nat  BY DEF n
    <2> QED  BY ONLY base \in T, <1>6, <1>7, <2>1, RunStays, Zenon
  <1> QED  BY <1>5, <1>8

LEMMA RouteAllStays ==
    ASSUME NEW T, NEW base \in T, NEW list, Len(list) \in Nat,
           \A x \in T : \A k \in 1 .. Len(list) : route_interface(x, list[k]) \in T
    PROVE  ForEach(route_interface, base, list) \in T
  <1> DEFINE n == Len(list)
             Body(g) == [k \in 0 .. n |-> IF k = 0 THEN base ELSE route_interface(g[k - 1], list[k])]
             step == [k \in 1 .. n |-> [x \in T |-> route_interface(x, list[k])]]
             run == CHOOSE g : g = Body(g)
  <1>1. step \in [1 .. n -> [T -> T]]  OBVIOUS
  <1>2. PICK g \in [0 .. n -> T] : IsRun(g, n, base, step)
    <2> HIDE DEF step, n
    <2>1. n \in Nat  BY DEF n
    <2> QED  BY ONLY base \in T, <1>1, <2>1, Iterates, Zenon
  <1>3. g = Body(g)
    <2>1. ASSUME NEW k \in 1 .. n  PROVE step[k][g[k - 1]] = route_interface(g[k - 1], list[k])
      <3>1. g[k - 1] \in T  OBVIOUS
      <3> QED  BY <3>1
    <2> HIDE DEF step
    <2>2. \A k \in 0 .. n : k # 0 => k \in 1 .. n  OBVIOUS
    <2> QED  BY ONLY <1>2, <2>1, <2>2, Zenon DEF IsRun
  <1>4. run = Body(run)  BY ONLY <1>3, Zenon
  <1>5. run[n] = ForEach(route_interface, base, list)  BY Zenon DEF ForEach
  <1> HIDE DEF run
  <1>6. run[0] = base /\ \A k \in 1 .. n : run[k] = route_interface(run[k - 1], list[k])
    <2>1. 0 \in 0 .. n /\ \A k \in 1 .. n : k \in 0 .. n /\ k # 0  OBVIOUS
    <2> QED  BY ONLY <1>4, <2>1, Zenon
  <1>7. \A k \in 1 .. n : run[k - 1] \in T => run[k] \in T  BY <1>6, Zenon
  <1>8. run[n] \in T
    <2> HIDE DEF n
    <2>1. n \in Nat  BY DEF n
    <2> QED  BY ONLY base \in T, <1>6, <1>7, <2>1, RunStays, Zenon
  <1> QED  BY <1>5, <1>8

LEMMA AddRouteStays ==
    ASSUME NEW T, NEW base \in T, NEW list, Len(list) \in Nat,
           \A x \in T : \A k \in 1 .. Len(list) : add_route(x, list[k]) \in T
    PROVE  ForEach(add_route, base, list) \in T
  <1> DEFINE n == Len(list)
             Body(g) == [k \in 0 .. n |-> IF k = 0 THEN base ELSE add_route(g[k - 1], list[k])]
             step == [k \in 1 .. n |-> [x \in T |-> add_route(x, list[k])]]
             run == CHOOSE g : g = Body(g)
  <1>1. step \in [1 .. n -> [T -> T]]  OBVIOUS
  <1>2. PICK g \in [0 .. n -> T] : IsRun(g, n, base, step)
    <2> HIDE DEF step, n
    <2>1. n \in Nat  BY DEF n
    <2> QED  BY ONLY base \in T, <1>1, <2>1, Iterates, Zenon
  <1>3. g = Body(g)
    <2>1. ASSUME NEW k \in 1 .. n  PROVE step[k][g[k - 1]] = add_route(g[k - 1], list[k])
      <3>1. g[k - 1] \in T  OBVIOUS
      <3> QED  BY <3>1
    <2> HIDE DEF step
    <2>2. \A k \in 0 .. n : k # 0 => k \in 1 .. n  OBVIOUS
    <2> QED  BY ONLY <1>2, <2>1, <2>2, Zenon DEF IsRun
  <1>4. run = Body(run)  BY ONLY <1>3, Zenon
  <1>5. run[n] = ForEach(add_route, base, list)  BY Zenon DEF ForEach
  <1> HIDE DEF run
  <1>6. run[0] = base /\ \A k \in 1 .. n : run[k] = add_route(run[k - 1], list[k])
    <2>1. 0 \in 0 .. n /\ \A k \in 1 .. n : k \in 0 .. n /\ k # 0  OBVIOUS
    <2> QED  BY ONLY <1>4, <2>1, Zenon
  <1>7. \A k \in 1 .. n : run[k - 1] \in T => run[k] \in T  BY <1>6, Zenon
  <1>8. run[n] \in T
    <2> HIDE DEF n
    <2>1. n \in Nat  BY DEF n
    <2> QED  BY ONLY base \in T, <1>6, <1>7, <2>1, RunStays, Zenon
  <1> QED  BY <1>5, <1>8

LEMMA PutAllStays ==
    ASSUME NEW T, NEW base \in T, NEW list, Len(list) \in Nat, NEW r, NEW c, list = numbers(c),
           \A x \in T : \A k \in 1 .. Len(list) : Put(x, <<r, list[k]>>, c.interfaces[list[k]].nic.frames_out) \in T
    PROVE  PutAll(base, r, c) \in T
  <1> DEFINE n == Len(list)
             Body(g) == [k \in 0 .. n |-> IF k = 0 THEN base ELSE Put(g[k - 1], <<r, list[k]>>, c.interfaces[list[k]].nic.frames_out)]
             step == [k \in 1 .. n |-> [x \in T |-> Put(x, <<r, list[k]>>, c.interfaces[list[k]].nic.frames_out)]]
             run == CHOOSE g : g = Body(g)
  <1>1. step \in [1 .. n -> [T -> T]]  OBVIOUS
  <1>2. PICK g \in [0 .. n -> T] : IsRun(g, n, base, step)
    <2> HIDE DEF step, n
    <2>1. n \in Nat  BY DEF n
    <2> QED  BY ONLY base \in T, <1>1, <2>1, Iterates, Zenon
  <1>3. g = Body(g)
    <2>1. ASSUME NEW k \in 1 .. n  PROVE step[k][g[k - 1]] = Put(g[k - 1], <<r, list[k]>>, c.interfaces[list[k]].nic.frames_out)
      <3>1. g[k - 1] \in T  OBVIOUS
      <3> QED  BY <3>1
    <2> HIDE DEF step
    <2>2. \A k \in 0 .. n : k # 0 => k \in 1 .. n  OBVIOUS
    <2> QED  BY ONLY <1>2, <2>1, <2>2, Zenon DEF IsRun
  <1>4. run = Body(run)  BY ONLY <1>3, Zenon
  <1>5. run[n] = PutAll(base, r, c)  BY Zenon DEF PutAll, ForEach
  <1> HIDE DEF run
  <1>6. run[0] = base /\ \A k \in 1 .. n : run[k] = Put(run[k - 1], <<r, list[k]>>, c.interfaces[list[k]].nic.frames_out)
    <2>1. 0 \in 0 .. n /\ \A k \in 1 .. n : k \in 0 .. n /\ k # 0  OBVIOUS
    <2> QED  BY ONLY <1>4, <2>1, Zenon
  <1>7. \A k \in 1 .. n : run[k - 1] \in T => run[k] \in T  BY <1>6, Zenon
  <1>8. run[n] \in T
    <2> HIDE DEF n
    <2>1. n \in Nat  BY DEF n
    <2> QED  BY ONLY base \in T, <1>6, <1>7, <2>1, RunStays, Zenon
  <1> QED  BY <1>5, <1>8

\* The fields of an interface, and updates of one of them.
LEMMA NicFields ==
    ASSUME NEW D, NEW n \in Nics(D)
    PROVE  /\ n.eth \in Ports /\ n.ip \in IpAddress /\ n.frames_out \in Seq(Frames(D))
           /\ n.mapping \in Mappings /\ n.pending \in Seq(Entries(D)) /\ n.blocking \in Blockings
  BY Zenon DEF Nics

LEMMA NicFrames ==
    ASSUME NEW D, NEW n \in Nics(D), NEW f \in Seq(Frames(D))
    PROVE  [n EXCEPT !.frames_out = f] \in Nics(D)
  BY Zenon DEF Nics

LEMMA NicPending ==
    ASSUME NEW D, NEW n \in Nics(D), NEW p \in Seq(Entries(D))
    PROVE  [n EXCEPT !.pending = p] \in Nics(D)
  BY Zenon DEF Nics

LEMMA NicBlocking ==
    ASSUME NEW D, NEW n \in Nics(D), NEW b \in Blockings
    PROVE  [n EXCEPT !.blocking = b] \in Nics(D)
  BY Zenon DEF Nics

LEMMA NicMapping ==
    ASSUME NEW D, NEW n \in Nics(D), NEW t \in Mappings
    PROVE  [n EXCEPT !.mapping = t] \in Nics(D)
  BY Zenon DEF Nics

LEMMA Blocked ==
    ASSUME NEW b \in Blockings, NEW ip \in IpAddress
    PROVE  InsertIfAbsent(b, ip, 0) \in Blockings
  <1>1. PICK S \in SUBSET IpAddress : b \in [S -> Nat]  BY Zenon DEF Blockings
  <1>2. InsertIfAbsent(b, ip, 0) \in [S \cup {ip} -> Nat]  BY <1>1 DEF InsertIfAbsent
  <1> QED  BY <1>2, Zenon DEF Blockings

LEMMA Known ==
    ASSUME NEW t \in Mappings, NEW ip \in IpAddress, NEW e \in [eth : Ports, age : Nat]
    PROVE  InsertIfAbsent(t, ip, e) \in Mappings
  <1> DEFINE R == [eth : Ports, age : Nat]
  <1>1. PICK S \in SUBSET IpAddress : t \in [S -> R]  BY Zenon DEF Mappings
  <1>2. e \in R  OBVIOUS
  <1> HIDE DEF R
  <1>3. InsertIfAbsent(t, ip, e) \in [S \cup {ip} -> R]  BY ONLY <1>1, <1>2, SMTT(30) DEF InsertIfAbsent
  <1> QED  BY <1>3, Zenon DEF Mappings, R

LEMMA MappedEth ==
    ASSUME NEW t \in Mappings, NEW ip \in DOMAIN t
    PROVE  t[ip].eth \in Ports
  <1> DEFINE R == [eth : Ports, age : Nat]
  <1>1. PICK S \in SUBSET IpAddress : t \in [S -> R]  BY Zenon DEF Mappings
  <1> HIDE DEF R
  <1>2. t[ip] \in R  BY <1>1
  <1> QED  BY <1>2, Zenon DEF R

\* The frames that interfaces make.
LEMMA ArpTyped ==
    ASSUME NEW D, NEW n \in Nics(D), NEW e \in Ports \cup {ETHERNET_BROADCAST},
           NEW o \in {"REQUEST", "REPLY"}, NEW ip \in IpAddress
    PROVE  ArpFrame(n, e, o, ip) \in Frames(D)
  <1>1. ArpFrame(n, e, o, ip) \in Arps  BY NicFields DEF ArpFrame, Arps
  <1> QED  BY <1>1, Zenon DEF Frames

LEMMA Ipv4Typed ==
    ASSUME NEW D, NEW n \in Nics(D), NEW e \in Ports, NEW d \in D
    PROVE  Ipv4Frame(n, e, d) \in Frames(D)
  <1>1. Ipv4Frame(n, e, d) \in Ipv4s(D)  BY NicFields DEF Ipv4Frame, Ipv4s
  <1> QED  BY <1>1, Zenon DEF Frames

LEMMA PushTyped ==
    ASSUME NEW D, NEW n \in Nics(D), NEW f \in Frames(D)
    PROVE  push_frame(n, f) \in Nics(D)
  <1> DEFINE out == Append(n.frames_out, f)
  <1>1. out \in Seq(Frames(D))
    <2>1. n.frames_out \in Seq(Frames(D))  BY NicFields
    <2> QED  BY <2>1
  <1> HIDE DEF out
  <1>2. [n EXCEPT !.frames_out = out] \in Nics(D)  BY <1>1, NicFrames, Zenon
  <1> QED  BY <1>2, Zenon DEF push_frame, out

LEMMA SendTyped ==
    ASSUME NEW D, NEW n \in Nics(D), NEW d \in D, NEW to \in IpAddress
    PROVE  send_datagram(n, d, to) \in Nics(D)
  <1> DEFINE e == [dgram |-> d, next_hop |-> to]
             p == Append(n.pending, e)
             held == [n EXCEPT !.pending = p]
             b == InsertIfAbsent(n.blocking, to, 0)
             asked == [held EXCEPT !.blocking = b]
             f == Ipv4Frame(n, n.mapping[to].eth, d)
             a == ArpFrame(n, ETHERNET_BROADCAST, "REQUEST", to)
  <1>1. /\ n.pending \in Seq(Entries(D)) /\ n.blocking \in Blockings /\ n.mapping \in Mappings
    BY NicFields
  <1>2. held.blocking = n.blocking  BY DEF Nics
  <1>3. send_datagram(n, d, to) = IF to \in DOMAIN n.mapping THEN push_frame(n, f)
            ELSE IF to \in DOMAIN n.blocking THEN held ELSE push_frame(asked, a)
    BY <1>2, Zenon DEF send_datagram, push_frame, request_allowed
  <1>4. held \in Nics(D)
    <2>1. e \in Entries(D)  BY DEF Entries
    <2> HIDE DEF e
    <2>2. p \in Seq(Entries(D))  BY <1>1, <2>1
    <2> HIDE DEF p
    <2> QED  BY <2>2, NicPending, Zenon
  <1>5. asked \in Nics(D)
    <2>1. b \in Blockings  BY <1>1, Blocked, Zenon
    <2> HIDE DEF b, held
    <2> QED  BY <1>4, <2>1, NicBlocking, Zenon
  <1>6. push_frame(asked, a) \in Nics(D)
    <2>1. ETHERNET_BROADCAST \in Ports \cup {ETHERNET_BROADCAST}  OBVIOUS
    <2>2. a \in Frames(D)  BY <2>1, ArpTyped, Zenon
    <2> HIDE DEF a, asked
    <2> QED  BY <1>5, <2>2, PushTyped, Zenon
  <1>7. to \in DOMAIN n.mapping => push_frame(n, f) \in Nics(D)
    <2> HAVE to \in DOMAIN n.mapping
    <2>1. n.mapping[to].eth \in Ports  BY <1>1, MappedEth, Zenon
    <2>2. f \in Frames(D)  BY <2>1, Ipv4Typed, Zenon
    <2> HIDE DEF f
    <2> QED  BY <2>2, PushTyped, Zenon
  <1> HIDE DEF held, asked, f, a
  <1> QED  BY ONLY <1>3, <1>4, <1>6, <1>7, Zenon

LEMMA LearnTyped ==
    ASSUME NEW D, NEW n \in Nics(D), NEW msg \in Arps
    PROVE  learn(n, msg) \in Nics(D)
  <1> DEFINE e == [eth |-> msg.sender_eth, age |-> 0]
             t == InsertIfAbsent(n.mapping, msg.sender_ip, e)
  <1>1. msg.sender_ip \in IpAddress /\ msg.sender_eth \in Ports  BY Zenon DEF Arps
  <1>2. e \in [eth : Ports, age : Nat]  BY <1>1
  <1>3. n.mapping \in Mappings  BY NicFields
  <1> HIDE DEF e
  <1>4. t \in Mappings  BY <1>1, <1>2, <1>3, Known, Zenon
  <1> HIDE DEF t
  <1>5. [n EXCEPT !.mapping = t] \in Nics(D)  BY <1>4, NicMapping, Zenon
  <1> QED  BY <1>5, Zenon DEF learn, t, e

LEMMA SplitTyped ==
    ASSUME NEW D, NEW list \in Seq(Entries(D)), NEW ip
    PROVE  split(list, ip).tmp_list \in Seq(Entries(D)) /\ split(list, ip).rest \in Seq(Entries(D))
  <1> DEFINE E == Entries(D)
             T == [tmp_list : Seq(E), rest : Seq(E)]
  <1>1. list \in Seq(E)  OBVIOUS
  <1> HIDE DEF E
  <1>2. nothing \in T  BY DEF nothing
  <1>3. ASSUME NEW x \in T, NEW k \in 1 .. Len(list)  PROVE take(x, list[k], ip) \in T
    <2> DEFINE e == list[k]
    <2>1. e \in E  BY <1>1
    <2> HIDE DEF e
    <2>2. x.tmp_list \in Seq(E) /\ x.rest \in Seq(E)  OBVIOUS
    <2>3. Append(x.tmp_list, e) \in Seq(E) /\ Append(x.rest, e) \in Seq(E)  BY <2>1, <2>2
    <2>4. [x EXCEPT !.tmp_list = Append(x.tmp_list, e)] \in T  BY <2>3, Zenon
    <2>5. [x EXCEPT !.rest = Append(x.rest, e)] \in T  BY <2>3, Zenon
    <2>6. take(x, e, ip) \in T  BY ONLY <2>4, <2>5, Zenon DEF take
    <2> QED  BY <2>6 DEF e
  <1>4. Len(list) \in Nat  BY <1>1
  <1>5. split(list, ip) \in T
    <2> HIDE DEF T
    <2> QED  BY ONLY <1>2, <1>3, <1>4, SplitStays, Zenon
  <1> QED  BY ONLY <1>5, Zenon DEF E

LEMMA FlushTyped ==
    ASSUME NEW D, NEW n \in Nics(D), NEW ip
    PROVE  flush(n, ip) \in Nics(D)
  <1> DEFINE l == split(n.pending, ip)
             list == l.tmp_list
             base == [n EXCEPT !.pending = l.rest]
  <1>1. n.pending \in Seq(Entries(D))  BY NicFields
  <1>2. list \in Seq(Entries(D)) /\ l.rest \in Seq(Entries(D))  BY <1>1, SplitTyped
  <1> HIDE DEF l
  <1>3. base \in Nics(D)  BY <1>2, NicPending, Zenon
  <1>4. ASSUME NEW x \in Nics(D), NEW k \in 1 .. Len(list)  PROVE resend(x, list[k]) \in Nics(D)
    <2> HIDE DEF list
    <2>1. list[k] \in Entries(D)  BY <1>2
    <2>2. list[k].dgram \in D /\ list[k].next_hop \in IpAddress  BY <2>1, Zenon DEF Entries
    <2> QED  BY <2>2, SendTyped, Zenon DEF resend
  <1>5. Len(list) \in Nat  BY <1>2
  <1> HIDE DEF list, base
  <1>6. ForEach(resend, base, list) \in Nics(D)  BY ONLY <1>3, <1>4, <1>5, ResendStays, Zenon
  <1> QED  BY <1>6, Zenon DEF flush, list, base, l

LEMMA RecvArpTyped ==
    ASSUME NEW D, NEW n \in Nics(D), NEW msg \in Arps
    PROVE  recv_arp(n, msg) \in Nics(D)
  <1> DEFINE c == learn(n, msg)
             f == ArpFrame(n, msg.sender_eth, "REPLY", msg.sender_ip)
  <1>1. msg.sender_ip \in IpAddress /\ msg.sender_eth \in Ports  BY Zenon DEF Arps
  <1>2. c \in Nics(D)  BY LearnTyped, Zenon
  <1>3. f \in Frames(D)  BY <1>1, ArpTyped
  <1> HIDE DEF c, f
  <1>4. push_frame(c, f) \in Nics(D)  BY <1>2, <1>3, PushTyped, Zenon
  <1>5. flush(c, msg.sender_ip) \in Nics(D)  BY <1>2, FlushTyped, Zenon
  <1>6. \/ recv_arp(n, msg) = flush(c, msg.sender_ip)
        \/ recv_arp(n, msg) = push_frame(c, f)
        \/ recv_arp(n, msg) = c
    BY DEF recv_arp, c, f
  <1> QED  BY <1>2, <1>4, <1>5, <1>6, Zenon

LEMMA RecvTyped ==
    ASSUME NEW D, NEW n \in Nics(D), NEW f \in Frames(D)
    PROVE  recv_frame(n, f).nic \in Nics(D) /\ recv_frame(n, f).up \in Seq(D)
  <1> DEFINE r == recv_frame(n, f)
             a == recv_arp(n, f)
  <1>1. f \in Arps \/ f \in Ipv4s(D)  BY Zenon DEF Frames
  <1>2. f \in Arps => f.type = "ARP"  BY DEF Arps
  <1>3. f \in Ipv4s(D) => f.type = "IPv4" /\ f.dgram \in D  BY DEF Ipv4s
  <1>4. \/ r = [nic |-> n, up |-> <<>>]
        \/ r = [nic |-> a, up |-> <<>>] /\ f.type = "ARP"
        \/ r = [nic |-> n, up |-> <<f.dgram>>] /\ f.type = "IPv4"
    <2> HIDE DEF a
    <2>1. f.type = "ARP" \/ f.type = "IPv4"  BY ONLY <1>1, <1>2, <1>3, Zenon
    <2>2. r = CASE ~for_me(n, f) -> [nic |-> n, up |-> <<>>]
                [] for_me(n, f) /\ f.type = "ARP" -> [nic |-> a, up |-> <<>>]
                [] for_me(n, f) /\ f.type = "IPv4" -> [nic |-> n, up |-> <<f.dgram>>]
                [] OTHER -> [nic |-> n, up |-> <<>>]
      BY Zenon DEF recv_frame, a
    <2> HIDE DEF r
    <2>3. "ARP" # "IPv4"  OBVIOUS
    <2>4. CASE ~for_me(n, f)  BY ONLY <2>2, <2>4, SMTT(30)
    <2>5. CASE for_me(n, f) /\ f.type = "ARP"  BY ONLY <2>2, <2>3, <2>5, SMTT(30)
    <2>6. CASE for_me(n, f) /\ f.type = "IPv4"  BY ONLY <2>2, <2>3, <2>6, SMTT(30)
    <2> QED  BY ONLY <2>1, <2>4, <2>5, <2>6, Zenon
  <1>5. f.type = "ARP" => a \in Nics(D)
    <2>1. "ARP" # "IPv4"  OBVIOUS
    <2> QED  BY <1>1, <1>3, <2>1, RecvArpTyped, Zenon
  <1>6. f.type = "IPv4" => <<f.dgram>> \in Seq(D)
    <2>1. "ARP" # "IPv4"  OBVIOUS
    <2>2. f.type = "IPv4" => f.dgram \in D  BY ONLY <1>1, <1>2, <1>3, <2>1, Zenon
    <2> QED  BY <2>2
  <1>7. <<>> \in Seq(D)  OBVIOUS
  <1> HIDE DEF r, a
  <1>8. r.nic \in Nics(D) /\ r.up \in Seq(D)  
    <2>1. \A x, y : [nic |-> x, up |-> y].nic = x /\ [nic |-> x, up |-> y].up = y  OBVIOUS
    <2>2. CASE r = [nic |-> n, up |-> <<>>]  BY ONLY n \in Nics(D), <1>7, <2>1, <2>2, Zenon
    <2>3. CASE r = [nic |-> a, up |-> <<>>] /\ f.type = "ARP"  BY ONLY <1>5, <1>7, <2>1, <2>3, Zenon
    <2>4. CASE r = [nic |-> n, up |-> <<f.dgram>>] /\ f.type = "IPv4"
      BY ONLY n \in Nics(D), <1>6, <2>1, <2>4, Zenon
    <2> QED  BY ONLY <1>4, <2>2, <2>3, <2>4, Zenon
  <1> QED  BY <1>8, Zenon DEF r

LEMMA AsyncTyped ==
    ASSUME NEW D, NEW c \in Cards(D), NEW f \in Frames(D)
    PROVE  async_recv_frame(c, f) \in Cards(D)
  <1> DEFINE r == recv_frame(c.nic, f)
  <1>1. c.nic \in Nics(D) /\ c.datagrams_out \in Seq(D)  BY Zenon DEF Cards
  <1>2. r.nic \in Nics(D) /\ r.up \in Seq(D)  BY <1>1, RecvTyped, Zenon
  <1>3. async_recv_frame(c, f) = [nic |-> r.nic, datagrams_out |-> c.datagrams_out \o r.up]
    BY Zenon DEF async_recv_frame
  <1> HIDE DEF r
  <1>4. c.datagrams_out \o r.up \in Seq(D)  BY <1>1, <1>2
  <1> QED  BY ONLY <1>2, <1>3, <1>4, SMTT(30) DEF Cards

\* The queue of frames is emptied.
LEMMA SentTyped ==
    ASSUME NEW D, NEW c \in Cards(D)
    PROVE  Sent(c) \in Cards(D) /\ c.nic.frames_out \in Seq(Frames(D))
  <1> DEFINE n == [c.nic EXCEPT !.frames_out = <<>>]
  <1>1. c.nic \in Nics(D) /\ c.datagrams_out \in Seq(D)  BY Zenon DEF Cards
  <1>2. <<>> \in Seq(Frames(D))  OBVIOUS
  <1>3. n \in Nics(D)  BY <1>1, <1>2, NicFrames, Zenon
  <1>4. Sent(c) = [c EXCEPT !.nic = n]  BY Zenon DEF Sent
  <1> HIDE DEF n
  <1>5. [c EXCEPT !.nic = n] \in Cards(D)  BY <1>3, Zenon DEF Cards
  <1>6. c.nic.frames_out \in Seq(Frames(D))  BY <1>1, NicFields
  <1> QED  BY <1>4, <1>5, <1>6

\* A search among the rules of a router finds one of them, if any.
LEMMA LookupTyped ==
    ASSUME NEW r, NEW D, NEW q \in RouterOf(r, D), NEW t, find_match(lookup(q, t))
    PROVE  Head(lookup(q, t).match_rule) \in RulesOf(r)
  <1> DEFINE R == RulesOf(r)
             M == {<<>>} \cup {<<x>> : x \in R}
             T == [longest : PrefixLength, match_rule : M]
             list == q.rule_list
             found == lookup(q, t)
  <1>1. list \in Seq(R)  BY Zenon DEF RouterOf
  <1>2. lookup_begin \in T
    <2>1. 0 \in PrefixLength  BY LookupAssumption DEF PrefixLength
    <2>2. <<>> \in M  OBVIOUS
    <2> HIDE DEF M
    <2> QED  BY <2>1, <2>2, Zenon DEF lookup_begin
  <1>3. ASSUME NEW x \in T, NEW k \in 1 .. Len(list)  PROVE lookup_once(x, list[k], t) \in T
    <2> HIDE DEF R, list
    <2> DEFINE e == list[k]
    <2>1. e \in R  BY <1>1
    <2> HIDE DEF e
    <2>2. e.prefix_length \in PrefixLength  BY <2>1, Zenon DEF R, RulesOf
    <2>3. <<e>> \in M  BY <2>1, Zenon
    <2> HIDE DEF M
    <2>4. [longest |-> e.prefix_length, match_rule |-> <<e>>] \in T  BY <2>2, <2>3, Zenon
    <2>5. lookup_once(x, e, t) \in T  BY ONLY x \in T, <2>4, Zenon DEF lookup_once
    <2> QED  BY <2>5, Zenon DEF e
  <1>4. found \in T
    <2>1. Len(list) \in Nat  BY <1>1
    <2>2. list = q.rule_list  OBVIOUS
    <2> HIDE DEF T, list
    <2> QED  BY ONLY <1>2, <1>3, <2>1, <2>2, LookupStays, Zenon
  <1> HIDE DEF found
  <1>5. found.match_rule \in M
    <2> HIDE DEF M
    <2> QED  BY ONLY <1>4, Zenon
  <1>6. found.match_rule # <<>>  BY Zenon DEF find_match, found
  <1>7. PICK e \in R : found.match_rule = <<e>>  BY ONLY <1>5, <1>6, Zenon
  <1>8. Head(<<e>>) = e  OBVIOUS
  <1> QED  BY <1>7, <1>8, Zenon DEF found

\* A number below the modulus is its own remainder.
LEMMA SmallRemainder ==
    ASSUME NEW mod \in Nat \ {0}, NEW rest \in 0 .. mod - 1
    PROVE  rest % mod = rest
  <1>1. 0 \in Int /\ mod * 0 + rest = rest  OBVIOUS
  <1>2. (mod * 0 + rest) % mod = rest  BY ONLY <1>1, mod \in Nat \ {0}, rest \in 0 .. mod - 1, ModUnique, Zenon
  <1> QED  BY ONLY <1>1, <1>2, Zenon

\* router.cc:56: a datagram that does not expire pays for its hop.
LEMMA HopPaid ==
    ASSUME NEW s \in Seq(Sendings), NEW d \in Paid(s), ~expires(d)
    PROVE  hop(d) \in Paid(s) /\ hop(d).dst = d.dst
  <1> DEFINE h == hop(d)
  <1>1. /\ d \in [id : Nat, dst : IpAddress, ttl : 0 .. TtlMod - 1, hops : Nat]
        /\ d.id \in 1 .. Len(s) /\ d.ttl + d.hops = s[d.id].ttl
    BY Zenon DEF Paid
  <1>2. d.ttl \in 0 .. TtlMod - 1 /\ d.hops \in Nat /\ d.id \in Nat /\ d.dst \in IpAddress  BY <1>1, Zenon
  <1>3. d.ttl # 0 /\ d.ttl # 1  BY Zenon DEF expires
  <1>4. TtlMod \in Nat \ {0}  BY RouterAssumption
  <1>5. (d.ttl - 1) % TtlMod = d.ttl - 1
    <2>1. d.ttl - 1 \in 0 .. TtlMod - 1  BY ONLY <1>2, <1>3, <1>4, SMTT(30)
    <2> QED  BY ONLY <1>4, <2>1, SmallRemainder, Zenon
  <1>6. /\ h.ttl = d.ttl - 1 /\ h.hops = d.hops + 1 /\ h.id = d.id /\ h.dst = d.dst
        /\ h = [d EXCEPT !.ttl = d.ttl - 1, !.hops = d.hops + 1]
    <2> DEFINE v == d.ttl - 1
               w == d.hops + 1
    <2>1. h = [d EXCEPT !.ttl = v, !.hops = w]  BY <1>5, Zenon DEF hop
    <2> HIDE DEF h, v, w
    <2>2. h.ttl = v /\ h.hops = w /\ h.id = d.id /\ h.dst = d.dst  BY ONLY <1>1, <2>1, SMTT(30)
    <2> QED  BY ONLY <2>1, <2>2, Zenon DEF v, w
  <1>7. d.ttl - 1 \in 0 .. TtlMod - 1 /\ d.hops + 1 \in Nat /\ d.ttl - 1 > 0
    BY ONLY <1>2, <1>3, <1>4, SMTT(30)
  <1> HIDE DEF h
  <1>8. h \in [id : Nat, dst : IpAddress, ttl : 0 .. TtlMod - 1, hops : Nat]
    BY ONLY <1>1, <1>6, <1>7, Zenon
  <1>9. h.ttl + h.hops = s[h.id].ttl /\ h.ttl > 0 /\ h.id \in 1 .. Len(s)
    BY ONLY <1>1, <1>2, <1>6, <1>7, SMTT(30)
  <1>10. h \in Paid(s)  BY ONLY <1>8, <1>9, Zenon DEF Paid
  <1> QED  BY <1>6, <1>10, Zenon DEF h

\* A change of one interface of a router.
LEMMA CardTyped ==
    ASSUME NEW r, NEW D, NEW x \in RouterOf(r, D), NEW i \in PortsOf(r), NEW c \in Cards(D)
    PROVE  [x EXCEPT !.interfaces[i] = c] \in RouterOf(r, D)
  <1>1. x.interfaces \in [PortsOf(r) -> Cards(D)]  BY Zenon DEF RouterOf
  <1> DEFINE f == [x.interfaces EXCEPT ![i] = c]
  <1>2. f \in [PortsOf(r) -> Cards(D)]  BY <1>1, Zenon
  <1> HIDE DEF f
  <1>3. [x EXCEPT !.interfaces = f] \in RouterOf(r, D)  BY <1>2, Zenon DEF RouterOf
  <1> QED  BY <1>3, Zenon DEF f

LEMMA CardOf ==
    ASSUME NEW r, NEW D, NEW x \in RouterOf(r, D), NEW i \in PortsOf(r)
    PROVE  /\ x.interfaces[i] \in Cards(D) /\ x.interfaces[i].nic \in Nics(D)
           /\ x.interfaces[i].datagrams_out \in Seq(D)
  <1>1. x.interfaces \in [PortsOf(r) -> Cards(D)]  BY Zenon DEF RouterOf
  <1>2. x.interfaces[i] \in Cards(D)  BY <1>1, Zenon
  <1> QED  BY <1>2, Zenon DEF Cards

LEMMA RouteOneTyped ==
    ASSUME NEW r, NEW s \in Seq(Sendings), NEW x \in RouterOf(r, Paid(s)), NEW d \in Paid(s)
    PROVE  route_one_datagram(x, d) \in RouterOf(r, Paid(s))
  <1> DEFINE D == Paid(s)
             found == lookup(x, d.dst)
             rule == Head(found.match_rule)
             i == rule.interface_num
             to == next_hop_of(rule, d)
             n == send_datagram(x.interfaces[i].nic, hop(d), to)
             c == [x.interfaces[i] EXCEPT !.nic = n]
  <1>1. CASE ~find_match(found) \/ expires(d)
    <2>1. route_one_datagram(x, d) = x  BY <1>1, Zenon DEF route_one_datagram
    <2> QED  BY <2>1
  <1>2. CASE find_match(found) /\ ~expires(d)
    <2>1. rule \in RulesOf(r)  BY <1>2, LookupTyped, Zenon
    <2>2. hop(d) \in D  BY <1>2, HopPaid, Zenon
    <2>3. route_one_datagram(x, d) = [x EXCEPT !.interfaces[i] = c]
      BY <1>2, Zenon DEF route_one_datagram
    <2> HIDE DEF rule
    <2>4. i \in PortsOf(r) /\ rule.next_hop \in IpAddress \cup {NoHop}  BY <2>1, Zenon DEF RulesOf
    <2>5. d.dst \in IpAddress
      <3>1. d \in [id : Nat, dst : IpAddress, ttl : 0 .. TtlMod - 1, hops : Nat]  BY Zenon DEF Paid
      <3> QED  BY <3>1, Zenon
    <2>6. to \in IpAddress  BY <2>4, <2>5, Zenon DEF next_hop_of
    <2> HIDE DEF to, i, D
    <2>7. x \in RouterOf(r, D)  BY DEF D
    <2>8. x.interfaces[i] \in Cards(D) /\ x.interfaces[i].nic \in Nics(D)  BY ONLY <2>4, <2>7, CardOf, Zenon
    <2>9. n \in Nics(D)  BY ONLY <2>2, <2>6, <2>8, SendTyped, Zenon
    <2> HIDE DEF n
    <2>10. c \in Cards(D)  BY ONLY <2>8, <2>9, Zenon DEF Cards
    <2> HIDE DEF c
    <2>11. [x EXCEPT !.interfaces[i] = c] \in RouterOf(r, D)  BY ONLY <2>4, <2>7, <2>10, CardTyped, Zenon
    <2> QED  BY <2>3, <2>11, Zenon DEF D
  <1> QED  BY <1>1, <1>2, Zenon

LEMMA RouteInterfaceTyped ==
    ASSUME NEW r, NEW s \in Seq(Sendings), NEW x \in RouterOf(r, Paid(s)), NEW i \in PortsOf(r)
    PROVE  route_interface(x, i) \in RouterOf(r, Paid(s))
  <1> DEFINE D == Paid(s)
             c == [x.interfaces[i] EXCEPT !.datagrams_out = <<>>]
             base == [x EXCEPT !.interfaces[i] = c]
             list == x.interfaces[i].datagrams_out
  <1> HIDE DEF D
  <1>1. x \in RouterOf(r, D)  BY DEF D
  <1>2. x.interfaces[i] \in Cards(D) /\ list \in Seq(D)  BY ONLY i \in PortsOf(r), <1>1, CardOf, Zenon
  <1>3. c \in Cards(D)
    <2>1. <<>> \in Seq(D)  OBVIOUS
    <2> QED  BY ONLY <1>2, <2>1, Zenon DEF Cards
  <1>4. route_interface(x, i) = ForEach(route_one_datagram, base, list)  BY Zenon DEF route_interface
  <1> HIDE DEF c, list
  <1>5. base \in RouterOf(r, D)  BY ONLY i \in PortsOf(r), <1>1, <1>3, CardTyped, Zenon
  <1>6. Len(list) \in Nat /\ \A k \in 1 .. Len(list) : list[k] \in D  BY <1>2
  <1>7. \A y \in RouterOf(r, D) : \A k \in 1 .. Len(list) : route_one_datagram(y, list[k]) \in RouterOf(r, D)
    BY ONLY s \in Seq(Sendings), <1>6, RouteOneTyped, Zenon DEF D
  <1> HIDE DEF base
  <1>8. ForEach(route_one_datagram, base, list) \in RouterOf(r, D)
    BY ONLY <1>5, <1>6, <1>7, RouteOneStays, Zenon
  <1> QED  BY ONLY <1>4, <1>8, Zenon DEF D

\* The numbers of a router's interfaces.
LEMMA NumbersTyped ==
    ASSUME NEW r \in Routers, NEW D, NEW x \in RouterOf(r, D)
    PROVE  Len(numbers(x)) \in Nat /\ \A k \in 1 .. Len(numbers(x)) : numbers(x)[k] \in PortsOf(r)
  <1>1. PICK n \in 0 .. Cardinality(Ports) : PortsOf(r) = 0 .. n - 1  BY InternetAssumption, Zenon
  <1>2. n \in Nat
    <2>1. n \in Int /\ 0 <= n  OBVIOUS
    <2> QED  BY <2>1
  <1>3. Cardinality(0 .. n - 1) = n
    <2>1. 0 \in Int /\ n - 1 \in Int /\ (0 > n - 1 => n = 0) /\ (n - 1) - 0 + 1 = n  BY <1>2
    <2>2. Cardinality(0 .. n - 1) = IF 0 > n - 1 THEN 0 ELSE (n - 1) - 0 + 1  BY ONLY <2>1, FS_Interval, Zenon
    <2> QED  BY ONLY <2>1, <2>2, SMTT(30)
  <1>4. DOMAIN x.interfaces = PortsOf(r)
    <2>1. x.interfaces \in [PortsOf(r) -> Cards(D)]  BY Zenon DEF RouterOf
    <2> QED  BY <2>1, Zenon
  <1>5. numbers(x) = [k \in 1 .. n |-> k - 1]  BY ONLY <1>1, <1>3, <1>4, Zenon DEF numbers
  <1>6. Len(numbers(x)) = n /\ \A k \in 1 .. n : numbers(x)[k] = k - 1  BY ONLY <1>2, <1>5, SMTT(30)
  <1> QED  BY ONLY <1>1, <1>2, <1>6, SMTT(30)

LEMMA RouteTyped ==
    ASSUME NEW r \in Routers, NEW s \in Seq(Sendings), NEW x \in RouterOf(r, Paid(s))
    PROVE  route(x) \in RouterOf(r, Paid(s))
  <1> DEFINE T == RouterOf(r, Paid(s))
             list == numbers(x)
  <1>1. Len(list) \in Nat /\ \A k \in 1 .. Len(list) : list[k] \in PortsOf(r)  BY NumbersTyped, Zenon
  <1>2. \A y \in T : \A k \in 1 .. Len(list) : route_interface(y, list[k]) \in T
    <2> HIDE DEF list
    <2> QED  BY <1>1, RouteInterfaceTyped, Zenon
  <1>3. route(x) = ForEach(route_interface, x, list)  BY Zenon DEF route
  <1>4. x \in T  OBVIOUS
  <1> HIDE DEF list, T
  <1>5. ForEach(route_interface, x, list) \in T  BY ONLY <1>1, <1>2, <1>4, RouteAllStays, Zenon
  <1> QED  BY <1>3, <1>5, Zenon DEF T

\* Frames on the wires.
LEMMA PutTyped ==
    ASSUME NEW D, NEW w \in Wires(D), NEW p, NEW f \in Seq(Frames(D))
    PROVE  Put(w, p, f) \in Wires(D)
  <1> DEFINE F == Frames(D)
             v(q) == IF q # p /\ LinkOf[q] = LinkOf[p] THEN w[q] \o f ELSE w[q]
  <1>1. w \in [Ports -> Seq(F)] /\ f \in Seq(F)  BY Zenon DEF Wires
  <1> HIDE DEF F
  <1>2. ASSUME NEW q \in Ports  PROVE v(q) \in Seq(F)
    <2>1. w[q] \in Seq(F)  BY <1>1, Zenon
    <2>2. w[q] \o f \in Seq(F)  BY <1>1, <2>1
    <2> QED  BY <2>1, <2>2, Zenon
  <1>3. Put(w, p, f) = [q \in Ports |-> v(q)]  BY Zenon DEF Put
  <1> HIDE DEF v
  <1>4. [q \in Ports |-> v(q)] \in [Ports -> Seq(F)]  BY ONLY <1>2, Zenon
  <1> QED  BY ONLY <1>3, <1>4, Zenon DEF Wires, F

LEMMA PutAllTyped ==
    ASSUME NEW r \in Routers, NEW D, NEW w \in Wires(D), NEW c \in RouterOf(r, D)
    PROVE  PutAll(w, r, c) \in Wires(D)
  <1> DEFINE list == numbers(c)
             T == Wires(D)
  <1>1. Len(list) \in Nat /\ \A k \in 1 .. Len(list) : list[k] \in PortsOf(r)  BY NumbersTyped, Zenon
  <1>2. list = numbers(c)  OBVIOUS
  <1> HIDE DEF list
  <1>3. ASSUME NEW x \in T, NEW k \in 1 .. Len(list)
        PROVE  Put(x, <<r, list[k]>>, c.interfaces[list[k]].nic.frames_out) \in T
    <2> DEFINE i == list[k]
               f == c.interfaces[i].nic.frames_out
    <2>1. i \in PortsOf(r)  BY <1>1, Zenon
    <2> HIDE DEF i
    <2>2. c.interfaces[i].nic \in Nics(D)  BY <2>1, CardOf, Zenon
    <2>3. f \in Seq(Frames(D))  BY <2>2, NicFields, Zenon
    <2> HIDE DEF f
    <2>4. Put(x, <<r, i>>, f) \in T  BY <2>3, PutTyped, Zenon
    <2> QED  BY <2>4, Zenon DEF f, i
  <1>4. w \in T  OBVIOUS
  <1> HIDE DEF T
  <1>5. PutAll(w, r, c) \in T  BY ONLY <1>1, <1>2, <1>3, <1>4, PutAllStays, Zenon
  <1> QED  BY <1>5, Zenon DEF T

\* A frame is taken from a wire.
LEMMA TakeTyped ==
    ASSUME NEW D, NEW w \in Wires(D), NEW p \in Ports, w[p] # <<>>
    PROVE  Head(w[p]) \in Frames(D) /\ [w EXCEPT ![p] = Tail(w[p])] \in Wires(D)
  <1> DEFINE F == Frames(D)
             t == Tail(w[p])
  <1>1. w \in [Ports -> Seq(F)]  BY Zenon DEF Wires
  <1> HIDE DEF F
  <1>2. w[p] \in Seq(F)  BY <1>1, Zenon
  <1>3. Head(w[p]) \in F /\ t \in Seq(F)  BY <1>2
  <1> HIDE DEF t
  <1>4. [w EXCEPT ![p] = t] \in [Ports -> Seq(F)]  BY <1>1, <1>3, Zenon
  <1> QED  BY <1>3, <1>4, Zenon DEF Wires, F, t

\* More datagrams allow more states.
LEMMA SeqGrows ==
    ASSUME NEW S, NEW T, S \subseteq T
    PROVE  Seq(S) \subseteq Seq(T)
  OBVIOUS

LEMMA FramesGrow ==
    ASSUME NEW D, NEW E, D \subseteq E
    PROVE  Seq(Frames(D)) \subseteq Seq(Frames(E)) /\ Seq(Entries(D)) \subseteq Seq(Entries(E))
  <1>1. Ipv4s(D) \subseteq Ipv4s(E)  BY Zenon DEF Ipv4s
  <1>2. Frames(D) \subseteq Frames(E)  BY <1>1, Zenon DEF Frames
  <1>3. Entries(D) \subseteq Entries(E)  BY Zenon DEF Entries
  <1> QED  BY ONLY <1>2, <1>3, SeqGrows, Zenon

LEMMA CardsGrow ==
    ASSUME NEW D, NEW E, D \subseteq E
    PROVE  Nics(D) \subseteq Nics(E) /\ Cards(D) \subseteq Cards(E)
  <1>1. Seq(Frames(D)) \subseteq Seq(Frames(E)) /\ Seq(Entries(D)) \subseteq Seq(Entries(E))  BY FramesGrow, Zenon
  <1>2. Nics(D) \subseteq Nics(E)  BY ONLY <1>1, Zenon DEF Nics
  <1>3. Seq(D) \subseteq Seq(E)  BY SeqGrows
  <1>4. Cards(D) \subseteq Cards(E)  BY ONLY <1>2, <1>3, Zenon DEF Cards
  <1> QED  BY <1>2, <1>4

LEMMA StatesGrow ==
    ASSUME NEW D, NEW E, D \subseteq E
    PROVE  /\ [Hosts -> Cards(D)] \subseteq [Hosts -> Cards(E)]
           /\ \A r : RouterOf(r, D) \subseteq RouterOf(r, E)
           /\ Wires(D) \subseteq Wires(E)
  <1>1. Cards(D) \subseteq Cards(E)  BY CardsGrow
  <1>2. Seq(Frames(D)) \subseteq Seq(Frames(E))  BY FramesGrow
  <1>3. [Hosts -> Cards(D)] \subseteq [Hosts -> Cards(E)]  BY ONLY <1>1, Zenon
  <1>4. Wires(D) \subseteq Wires(E)  BY ONLY <1>2, Zenon DEF Wires
  <1>5. ASSUME NEW r  PROVE RouterOf(r, D) \subseteq RouterOf(r, E)
    <2>1. [PortsOf(r) -> Cards(D)] \subseteq [PortsOf(r) -> Cards(E)]  BY ONLY <1>1, Zenon
    <2> QED  BY ONLY <2>1, Zenon DEF RouterOf
  <1> QED  BY <1>3, <1>4, <1>5

\* A datagram has paid as much when another one is sent.
LEMMA PaidGrows ==
    ASSUME NEW s \in Seq(Sendings), NEW e \in Sendings
    PROVE  /\ Append(s, e) \in Seq(Sendings)
           /\ Paid(s) \subseteq Paid(Append(s, e))
           /\ Append(s, e)[Len(s) + 1] = e /\ Len(s) \in Nat /\ Len(s) + 1 \in 1 .. Len(Append(s, e))
  <1> DEFINE t == Append(s, e)
  <1>1. /\ t \in Seq(Sendings) /\ t[Len(s) + 1] = e /\ Len(s) \in Nat /\ Len(s) + 1 \in 1 .. Len(t)
        /\ \A k \in 1 .. Len(s) : k \in 1 .. Len(t) /\ t[k] = s[k]
    <2> HIDE DEF Sendings
    <2> QED  OBVIOUS
  <1> HIDE DEF t
  <1>2. Paid(s) \subseteq Paid(t)  BY ONLY <1>1, Zenon DEF Paid
  <1> QED  BY <1>1, <1>2, Zenon DEF t

\* A new interface.
LEMMA NewPortTyped ==
    ASSUME NEW D, NEW p \in Ports
    PROVE  NewPort(p) \in Cards(D)
  <1> DEFINE n == NewNetworkInterface(p, AddressOf[p])
  <1>1. AddressOf[p] \in IpAddress  BY InternetAssumption, Zenon
  <1>2. EmptyMap \in Mappings /\ EmptyMap \in Blockings
    <2>1. \A R : EmptyMap \in [{} -> R]  BY DEF EmptyMap
    <2>2. {} \in SUBSET IpAddress  OBVIOUS
    <2> QED  BY ONLY <2>1, <2>2, Zenon DEF Mappings, Blockings
  <1>3. <<>> \in Seq(Frames(D)) /\ <<>> \in Seq(Entries(D)) /\ <<>> \in Seq(D)  OBVIOUS
  <1>4. n \in Nics(D)  BY ONLY p \in Ports, <1>1, <1>2, <1>3, Zenon DEF NewNetworkInterface, Nics
  <1> HIDE DEF n
  <1>5. [nic |-> n, datagrams_out |-> <<>>] \in Cards(D)  BY ONLY <1>3, <1>4, Zenon DEF Cards
  <1> QED  BY <1>5, Zenon DEF NewPort, NewAsyncNetworkInterface, n

LEMMA PortIs ==
    ASSUME NEW r, NEW n \in PortsOf(r)
    PROVE  <<r, n>> \in Ports
  <1>1. PICK p \in Ports : p[1] = r /\ p[2] = n  BY Zenon DEF PortsOf
  <1>2. p = <<p[1], p[2]>>  BY InternetAssumption
  <1> QED  BY <1>1, <1>2, Zenon

LEMMA NewRouterTyped ==
    ASSUME NEW r \in Routers, NEW D
    PROVE  ForEach(add_route, NewRouter([n \in PortsOf(r) |-> NewPort(<<r, n>>)]), RouteTable[r])
               \in RouterOf(r, D)
  <1> DEFINE f == [n \in PortsOf(r) |-> NewPort(<<r, n>>)]
             base == NewRouter(f)
             list == RouteTable[r]
             T == RouterOf(r, D)
             R == RulesOf(r)
  <1>1. f \in [PortsOf(r) -> Cards(D)]
    <2>1. \A n \in PortsOf(r) : NewPort(<<r, n>>) \in Cards(D)  BY PortIs, NewPortTyped, Zenon
    <2> QED  BY ONLY <2>1, Zenon
  <1>2. list \in Seq(R)  BY InternetAssumption, Zenon DEF RulesOf
  <1> HIDE DEF f, R
  <1>3. <<>> \in Seq(R)  OBVIOUS
  <1>4. base \in T  BY ONLY <1>1, <1>3, Zenon DEF NewRouter, RouterOf, R
  <1> HIDE DEF list
  <1>5. Len(list) \in Nat /\ \A k \in 1 .. Len(list) : list[k] \in R  BY <1>2
  <1>6. ASSUME NEW x \in T, NEW k \in 1 .. Len(list)  PROVE add_route(x, list[k]) \in T
    <2> DEFINE l == Append(x.rule_list, list[k])
    <2>1. x.rule_list \in Seq(R)  BY Zenon DEF RouterOf, R
    <2>2. l \in Seq(R)
      <3> HIDE DEF T
      <3> QED  BY <1>5, <2>1
    <2>3. add_route(x, list[k]) = [x EXCEPT !.rule_list = l]  BY Zenon DEF add_route
    <2> HIDE DEF l
    <2> QED  BY <2>2, <2>3, Zenon DEF RouterOf, R
  <1> HIDE DEF base, T
  <1>7. ForEach(add_route, base, list) \in T  BY ONLY <1>4, <1>5, <1>6, AddRouteStays, Zenon
  <1> QED  BY <1>7, Zenon DEF base, list, f, T

LEMMA InternetStarts == InternetInit => InternetInv
  <1> SUFFICES ASSUME InternetInit  PROVE InternetInv  OBVIOUS
  <1> DEFINE D == Paid(sent)
  <1>1. sent \in Seq(Sendings)
    <2>1. <<>> \in Seq(Sendings)  OBVIOUS
    <2> QED  BY <2>1, Zenon DEF InternetInit
  <1>2. host \in [Hosts -> Cards(D)]
    <2> HIDE DEF D
    <2>1. \A h \in Hosts : NewPort(<<h, 0>>) \in Cards(D)  BY InternetAssumption, NewPortTyped, Zenon
    <2>2. host = [h \in Hosts |-> NewPort(<<h, 0>>)]  BY Zenon DEF InternetInit
    <2> QED  BY ONLY <2>1, <2>2, Zenon
  <1>3. router = [r \in Routers |-> router[r]] /\ \A r \in Routers : router[r] \in RouterOf(r, D)
    <2> HIDE DEF D
    <2> DEFINE X(r) == ForEach(add_route, NewRouter([n \in PortsOf(r) |-> NewPort(<<r, n>>)]), RouteTable[r])
    <2>1. \A r \in Routers : X(r) \in RouterOf(r, D)  BY NewRouterTyped, Zenon
    <2>2. router = [r \in Routers |-> X(r)]  BY Zenon DEF InternetInit
    <2> HIDE DEF X
    <2> QED  BY ONLY <2>1, <2>2, Zenon
  <1>4. wire \in Wires(D)
    <2> HIDE DEF D
    <2>1. <<>> \in Seq(Frames(D))  OBVIOUS
    <2>2. wire = [p \in Ports |-> <<>>]  BY Zenon DEF InternetInit
    <2> QED  BY ONLY <2>1, <2>2, Zenon DEF Wires
  <1> QED  BY <1>1, <1>2, <1>3, <1>4, Zenon DEF InternetInv

LEMMA HostSends ==
    ASSUME InternetInv, NEW h \in Hosts, NEW dst \in Targets, NEW ttl \in Ttls, SendTo(h, dst, ttl)
    PROVE  InternetInv'
  <1> DEFINE dgram == [id |-> Len(sent) + 1, dst |-> dst, ttl |-> ttl, hops |-> 0]
             e == [from |-> h, dst |-> dst, ttl |-> ttl]
             t == Append(sent, e)
             E == Paid(t)
             n == send_datagram(host[h].nic, dgram, Gateway[h])
             c == [host[h] EXCEPT !.nic = n]
  <1>1. /\ host' = [host EXCEPT ![h] = Sent(c)] /\ wire' = Put(wire, <<h, 0>>, n.frames_out)
        /\ sent' = t /\ router' = router
    BY Zenon DEF SendTo
  <1>2. dst \in IpAddress /\ ttl \in 0 .. TtlMod - 1 /\ Gateway[h] \in IpAddress
    BY InternetAssumption, Zenon
  <1>3. e \in Sendings  BY ONLY h \in Hosts, <1>2, Zenon DEF Sendings
  <1>4. /\ sent \in Seq(Sendings) /\ host \in [Hosts -> Cards(Paid(sent))] /\ wire \in Wires(Paid(sent))
        /\ router = [r \in Routers |-> router[r]]
        /\ \A r \in Routers : router[r] \in RouterOf(r, Paid(sent))
    BY Zenon DEF InternetInv
  <1>5. /\ t \in Seq(Sendings) /\ Paid(sent) \subseteq E
        /\ t[Len(sent) + 1] = e /\ Len(sent) \in Nat /\ Len(sent) + 1 \in 1 .. Len(t)
    <2> HIDE DEF e
    <2> QED  BY ONLY <1>3, <1>4, PaidGrows, Zenon
  <1>6. dgram \in E
    <2> DEFINE T == [id : Nat, dst : IpAddress, ttl : 0 .. TtlMod - 1, hops : Nat]
    <2>1. 0 \in Nat /\ Len(sent) + 1 \in Nat /\ ttl + 0 = ttl /\ ~(0 > 0)  BY <1>2, <1>5
    <2>2. dgram \in T  BY ONLY <1>2, <2>1, Zenon
    <2>3. dgram.id = Len(sent) + 1 /\ dgram.ttl = ttl /\ dgram.hops = 0  OBVIOUS
    <2>4. e.ttl = ttl  OBVIOUS
    <2> HIDE DEF dgram, e, t
    <2>5. /\ dgram.id \in 1 .. Len(t) /\ dgram.ttl + dgram.hops = t[dgram.id].ttl
          /\ dgram.hops > 0 => dgram.ttl > 0
      BY ONLY <1>5, <2>1, <2>3, <2>4, Zenon
    <2> QED  BY ONLY <2>2, <2>5, Zenon DEF Paid
  <1> HIDE DEF dgram, e, t, E
  <1>7. /\ host \in [Hosts -> Cards(E)] /\ wire \in Wires(E)
        /\ \A r \in Routers : router[r] \in RouterOf(r, E)
    BY ONLY <1>4, <1>5, StatesGrow, Zenon
  <1>8. host[h] \in Cards(E) /\ host[h].nic \in Nics(E)  BY <1>7, Zenon DEF Cards
  <1>9. n \in Nics(E)  BY ONLY <1>2, <1>6, <1>8, SendTyped, Zenon
  <1> HIDE DEF n
  <1>10. c \in Cards(E)  BY ONLY <1>8, <1>9, Zenon DEF Cards
  <1> HIDE DEF c
  <1>11. Sent(c) \in Cards(E) /\ n.frames_out \in Seq(Frames(E))  BY ONLY <1>9, <1>10, SentTyped, NicFields, Zenon
  <1>12. host' \in [Hosts -> Cards(E)]  BY ONLY <1>1, <1>7, <1>11, Zenon
  <1>13. wire' \in Wires(E)  BY ONLY <1>1, <1>7, <1>11, PutTyped, Zenon
  <1>14. Paid(sent)' = E  BY ONLY <1>1, Zenon DEF E
  <1>15. router' = [r \in Routers |-> router'[r]] /\ \A r \in Routers : router'[r] \in RouterOf(r, E)
    BY ONLY <1>1, <1>4, <1>7, Zenon
  <1> QED  BY ONLY <1>1, <1>5, <1>12, <1>13, <1>14, <1>15, Zenon DEF InternetInv

LEMMA HostReceives ==
    ASSUME InternetInv, NEW h \in Hosts, HostReceive(h)
    PROVE  InternetInv'
  <1> DEFINE D == Paid(sent)
             p == <<h, 0>>
             w == [wire EXCEPT ![p] = Tail(wire[p])]
             c == async_recv_frame(host[h], Head(wire[p]))
  <1>1. /\ wire[p] # <<>> /\ host' = [host EXCEPT ![h] = Sent(c)]
        /\ wire' = Put(w, p, c.nic.frames_out) /\ router' = router /\ sent' = sent
    BY Zenon DEF HostReceive
  <1>2. /\ sent \in Seq(Sendings) /\ host \in [Hosts -> Cards(D)] /\ wire \in Wires(D)
        /\ router = [r \in Routers |-> router[r]] /\ \A r \in Routers : router[r] \in RouterOf(r, D)
    BY Zenon DEF InternetInv
  <1>3. p \in Ports  BY InternetAssumption, Zenon
  <1>4. Paid(sent)' = D  BY <1>1, Zenon
  <1> HIDE DEF D, p
  <1>5. Head(wire[p]) \in Frames(D) /\ w \in Wires(D)  BY ONLY <1>1, <1>2, <1>3, TakeTyped, Zenon
  <1>6. host[h] \in Cards(D)  BY <1>2, Zenon
  <1>7. c \in Cards(D)  BY ONLY <1>5, <1>6, AsyncTyped, Zenon
  <1> HIDE DEF c, w
  <1>8. Sent(c) \in Cards(D) /\ c.nic.frames_out \in Seq(Frames(D))  BY ONLY <1>7, SentTyped, Zenon
  <1>9. host' \in [Hosts -> Cards(D)]  BY ONLY <1>1, <1>2, <1>8, Zenon
  <1>10. wire' \in Wires(D)  BY ONLY <1>1, <1>5, <1>8, PutTyped, Zenon
  <1> QED  BY ONLY <1>1, <1>2, <1>4, <1>9, <1>10, Zenon DEF InternetInv

\* One router changes.
LEMMA RouterStays ==
    ASSUME NEW D, NEW x, NEW y, NEW q \in Routers, NEW v \in RouterOf(q, D),
           x = [r \in Routers |-> x[r]], \A r \in Routers : x[r] \in RouterOf(r, D),
           y = [x EXCEPT ![q] = v]
    PROVE  y = [r \in Routers |-> y[r]] /\ \A r \in Routers : y[r] \in RouterOf(r, D)
  <1>1. y = [r \in Routers |-> IF r = q THEN v ELSE x[r]]  OBVIOUS
  <1> QED  BY ONLY <1>1, v \in RouterOf(q, D), \A r \in Routers : x[r] \in RouterOf(r, D), Zenon

LEMMA RouterReceives ==
    ASSUME InternetInv, NEW q \in Routers, NEW n \in PortsOf(q), RouterReceive(q, n)
    PROVE  InternetInv'
  <1> DEFINE D == Paid(sent)
             p == <<q, n>>
             w == [wire EXCEPT ![p] = Tail(wire[p])]
             c == async_recv_frame(router[q].interfaces[n], Head(wire[p]))
             v == [router[q] EXCEPT !.interfaces[n] = Sent(c)]
  <1>1. /\ wire[p] # <<>> /\ router' = [router EXCEPT ![q] = v]
        /\ wire' = Put(w, p, c.nic.frames_out) /\ host' = host /\ sent' = sent
    BY Zenon DEF RouterReceive
  <1>2. /\ sent \in Seq(Sendings) /\ host \in [Hosts -> Cards(D)] /\ wire \in Wires(D)
        /\ router = [r \in Routers |-> router[r]] /\ \A r \in Routers : router[r] \in RouterOf(r, D)
    BY Zenon DEF InternetInv
  <1>3. p \in Ports  BY PortIs, Zenon
  <1>4. Paid(sent)' = D  BY <1>1, Zenon
  <1> HIDE DEF D, p
  <1>5. Head(wire[p]) \in Frames(D) /\ w \in Wires(D)  BY ONLY <1>1, <1>2, <1>3, TakeTyped, Zenon
  <1>6. router[q] \in RouterOf(q, D)  BY <1>2, Zenon
  <1>7. router[q].interfaces[n] \in Cards(D)  BY ONLY n \in PortsOf(q), <1>6, CardOf, Zenon
  <1>8. c \in Cards(D)  BY ONLY <1>5, <1>7, AsyncTyped, Zenon
  <1> HIDE DEF c, w
  <1>9. Sent(c) \in Cards(D) /\ c.nic.frames_out \in Seq(Frames(D))  BY ONLY <1>8, SentTyped, Zenon
  <1>10. v \in RouterOf(q, D)  BY ONLY n \in PortsOf(q), <1>6, <1>9, CardTyped, Zenon
  <1> HIDE DEF v
  <1>11. router' = [r \in Routers |-> router'[r]] /\ \A r \in Routers : router'[r] \in RouterOf(r, D)
    BY ONLY q \in Routers, <1>1, <1>2, <1>10, RouterStays, Zenon
  <1>12. wire' \in Wires(D)  BY ONLY <1>1, <1>5, <1>9, PutTyped, Zenon
  <1> QED  BY ONLY <1>1, <1>2, <1>4, <1>11, <1>12, Zenon DEF InternetInv

LEMMA RouterRoutes ==
    ASSUME InternetInv, NEW q \in Routers, Route(q)
    PROVE  InternetInv'
  <1> DEFINE D == Paid(sent)
             c == route(router[q])
             f == [n \in PortsOf(q) |-> Sent(c.interfaces[n])]
             v == [router[q] EXCEPT !.interfaces = f]
  <1>1. /\ router' = [router EXCEPT ![q] = v] /\ wire' = PutAll(wire, q, c) /\ host' = host /\ sent' = sent
    BY Zenon DEF Route
  <1>2. /\ sent \in Seq(Sendings) /\ host \in [Hosts -> Cards(D)] /\ wire \in Wires(D)
        /\ router = [r \in Routers |-> router[r]] /\ \A r \in Routers : router[r] \in RouterOf(r, D)
    BY Zenon DEF InternetInv
  <1>3. router[q] \in RouterOf(q, D)  BY <1>2, Zenon
  <1>4. c \in RouterOf(q, D)  BY ONLY q \in Routers, <1>2, <1>3, RouteTyped, Zenon
  <1>5. Paid(sent)' = D  BY <1>1, Zenon
  <1> HIDE DEF D, c
  <1>6. f \in [PortsOf(q) -> Cards(D)]
    <2>1. \A n \in PortsOf(q) : Sent(c.interfaces[n]) \in Cards(D)  BY ONLY <1>4, CardOf, SentTyped, Zenon
    <2> QED  BY ONLY <2>1, Zenon
  <1> HIDE DEF f
  <1>7. v \in RouterOf(q, D)  BY ONLY <1>3, <1>6, Zenon DEF RouterOf
  <1> HIDE DEF v
  <1>8. router' = [r \in Routers |-> router'[r]] /\ \A r \in Routers : router'[r] \in RouterOf(r, D)
    BY ONLY q \in Routers, <1>1, <1>2, <1>7, RouterStays, Zenon
  <1>9. wire' \in Wires(D)  BY ONLY q \in Routers, <1>1, <1>2, <1>4, PutAllTyped, Zenon
  <1> QED  BY ONLY <1>1, <1>2, <1>5, <1>8, <1>9, Zenon DEF InternetInv

\* What is at a port has paid.
LEMMA AllPaid == InternetInv => TtlPaid
  <1> SUFFICES ASSUME InternetInv, NEW p \in Ports, NEW d \in At(p)
               PROVE  d.ttl + d.hops = sent[d.id].ttl /\ (d.hops > 0 => d.ttl > 0)
    BY Zenon DEF TtlPaid
  <1> DEFINE D == Paid(sent)
             c == PortState(p)
             w == wire[p]
  <1>1. d \in D => d.ttl + d.hops = sent[d.id].ttl /\ (d.hops > 0 => d.ttl > 0)  BY Zenon DEF Paid
  <1>2. /\ host \in [Hosts -> Cards(D)] /\ wire \in Wires(D)
        /\ \A r \in Routers : router[r] \in RouterOf(r, D)
    BY Zenon DEF InternetInv
  <1> HIDE DEF D
  <1>3. c \in Cards(D)
    <2>1. p = <<p[1], p[2]>> /\ (p[1] \in Hosts \/ p[1] \in Routers)  BY InternetAssumption
    <2>2. CASE p[1] \in Hosts  BY ONLY <1>2, <2>2, Zenon DEF PortState
    <2>3. CASE p[1] \notin Hosts
      <3>1. p[1] \in Routers  BY <2>1, <2>3
      <3>2. p[2] \in PortsOf(p[1])  BY Zenon DEF PortsOf
      <3>3. router[p[1]] \in RouterOf(p[1], D)  BY <1>2, <3>1, Zenon
      <3>4. router[p[1]].interfaces[p[2]] \in Cards(D)  BY ONLY <3>2, <3>3, CardOf, Zenon
      <3> QED  BY ONLY <2>3, <3>4, Zenon DEF PortState
    <2> QED  BY <2>2, <2>3
  <1>4. w \in Seq(Frames(D))  BY <1>2, Zenon DEF Wires
  <1>5. \/ \E k \in 1 .. Len(c.nic.pending) : d = c.nic.pending[k].dgram
        \/ \E k \in 1 .. Len(c.datagrams_out) : d = c.datagrams_out[k]
        \/ \E k \in 1 .. Len(w) : w[k].type = "IPv4" /\ d = w[k].dgram
    BY Zenon DEF At
  <1> HIDE DEF c, w
  <1>6. c.nic.pending \in Seq(Entries(D)) /\ c.datagrams_out \in Seq(D)
    <2>1. c.nic \in Nics(D) /\ c.datagrams_out \in Seq(D)  BY <1>3, Zenon DEF Cards
    <2> QED  BY <2>1, NicFields, Zenon
  <1>7. \A k \in 1 .. Len(c.nic.pending) : c.nic.pending[k].dgram \in D
    <2>1. \A k \in 1 .. Len(c.nic.pending) : c.nic.pending[k] \in Entries(D)  BY ONLY <1>6, SMTT(30)
    <2> QED  BY ONLY <2>1, Zenon DEF Entries
  <1>8. \A k \in 1 .. Len(c.datagrams_out) : c.datagrams_out[k] \in D  BY ONLY <1>6, SMTT(30)
  <1>9. \A k \in 1 .. Len(w) : w[k].type = "IPv4" => w[k].dgram \in D
    <2>1. \A k \in 1 .. Len(w) : w[k] \in Frames(D)  BY ONLY <1>4, SMTT(30)
    <2>2. \A f \in Arps : f.type = "ARP"  BY DEF Arps
    <2>3. \A f \in Ipv4s(D) : f.dgram \in D  BY Zenon DEF Ipv4s
    <2>4. "ARP" # "IPv4"  OBVIOUS
    <2> QED  BY ONLY <2>1, <2>2, <2>3, <2>4, Zenon DEF Frames
  <1>10. d \in D  BY ONLY <1>5, <1>7, <1>8, <1>9, Zenon
  <1> QED  BY <1>1, <1>10

(***************************************************************************)
(* router.cc:56: in every network, whatever the tables of the routers say, *)
(* each datagram that is held, on a wire or received has as much time to   *)
(* live as it was sent with less one for every router it has crossed, and  *)
(* none that a router let pass has no time left.                           *)
(***************************************************************************)
THEOREM TtlPaidAlways == InternetSpec => []TtlPaid
  <1>1. InternetInit => InternetInv  BY InternetStarts
  <1>2. InternetInv /\ [InternetNext]_internetVars => InternetInv'
    <2> SUFFICES ASSUME InternetInv, [InternetNext]_internetVars  PROVE InternetInv'  OBVIOUS
    <2>1. CASE InternetNext  BY <2>1, HostSends, HostReceives, RouterReceives, RouterRoutes, Zenon DEF InternetNext
    <2>2. CASE UNCHANGED internetVars
      <3>1. host' = host /\ router' = router /\ wire' = wire /\ sent' = sent  BY <2>2, Zenon DEF internetVars
      <3>2. /\ sent \in Seq(Sendings) /\ host \in [Hosts -> Cards(Paid(sent))] /\ wire \in Wires(Paid(sent))
            /\ router = [r \in Routers |-> router[r]]
            /\ \A r \in Routers : router[r] \in RouterOf(r, Paid(sent))
        BY Zenon DEF InternetInv
      <3>3. Paid(sent)' = Paid(sent)  BY <3>1, Zenon
      <3> QED  BY ONLY <3>1, <3>2, <3>3, Zenon DEF InternetInv
    <2> QED  BY <2>1, <2>2
  <1>3. InternetInv => TtlPaid  BY AllPaid
  <1> QED  BY <1>1, <1>2, <1>3, PTL DEF InternetSpec
=============================================================================
