------------------------------ MODULE LanProofs -----------------------------
(***************************************************************************)
(* Interfaces on one Ethernet, for every number of hosts, sends, losses    *)
(* and restarts and every pair of timeouts.  First what each method of an  *)
(* interface does to its fields, then the invariants of the network: the   *)
(* table of blocked requests counts the young ones (FloodInv), and every   *)
(* datagram has one place (PlaceInv).                                      *)
(***************************************************************************)
EXTENDS Lan, WellFoundedInduction, TLAPS

\* A set of natural numbers that is not empty has a least member.
LEMMA LeastNat ==
    ASSUME NEW T, T \subseteq Nat, T # {}
    PROVE  \E x \in T : \A y \in T : x <= y
  <1> DEFINE R == OpToRel(<, Nat)
  <1>1. IsWellFoundedOn(R, Nat)  BY NatLessThanWellFounded, Zenon
  <1>2. \A x, y \in Nat : <<x, y>> \in R <=> x < y  BY DEF OpToRel
  <1> HIDE DEF R
  <1>3. PICK x \in T : \A y \in T : ~(<<y, x>> \in R)  BY <1>1, WFMin, Zenon
  <1>4. ASSUME NEW y \in T  PROVE x <= y
    <2>1. x \in Nat /\ y \in Nat  OBVIOUS
    <2>2. ~(y < x)  BY <1>2, <1>3, <2>1, Zenon
    <2> QED  BY <2>1, <2>2
  <1> QED  BY <1>4

\* Induction up to n.
LEMMA Induction ==
    ASSUME NEW n \in Nat, NEW T, 0 \in T,
           \A k \in 0 .. n - 1 : k \in T => k + 1 \in T
    PROVE  \A k \in 0 .. n : k \in T
  <1> DEFINE U == {k \in 0 .. n : k \notin T}
  <1>1. SUFFICES ASSUME U # {}  PROVE FALSE  OBVIOUS
  <1>2. U \subseteq Nat  OBVIOUS
  <1>3. PICK x \in U : \A y \in U : x <= y
    <2> HIDE DEF U
    <2> QED  BY <1>1, <1>2, LeastNat, Zenon
  <1>4. x # 0 /\ x \in 0 .. n /\ x \notin T  OBVIOUS
  <1>5. x - 1 \in 0 .. n - 1 /\ (x - 1) + 1 = x  BY <1>4
  <1>6. x - 1 \notin T  BY <1>4, <1>5
  <1>7. x - 1 \in U  BY <1>5, <1>6
  <1> QED  BY <1>3, <1>4, <1>7

USE SMTT(30)

\* The Ethernet addresses that hosts may have.
Eths == Hosts \X Nat

Arps == [type : {"ARP"}, src : Eths, dst : Eths \cup {ETHERNET_BROADCAST},
         opcode : {"REQUEST", "REPLY"}, sender_ip : Hosts, sender_eth : Eths, target_ip : Hosts]
Ipv4s == [type : {"IPv4"}, src : Eths, dst : Eths, dgram : Nat]
Frames == Arps \cup Ipv4s

Entries == [dgram : Nat, next_hop : Hosts]
Mappings == UNION {[D -> [eth : Eths, age : Nat]] : D \in SUBSET Hosts}
Blockings == UNION {[D -> Ages] : D \in SUBSET Hosts}

Nics == [eth : Eths, ip : Hosts, frames_out : Seq(Frames),
         mapping : Mappings, pending : Seq(Entries), blocking : Blockings]

\* What a field of an interface holds.
LEMMA NicFields ==
    ASSUME NEW n \in Nics
    PROVE  /\ n.eth \in Eths /\ n.ip \in Hosts /\ n.frames_out \in Seq(Frames)
           /\ n.mapping \in Mappings /\ n.pending \in Seq(Entries) /\ n.blocking \in Blockings
           /\ DOMAIN n.mapping \subseteq Hosts /\ DOMAIN n.blocking \subseteq Hosts
           /\ \A ip \in DOMAIN n.mapping :
                  n.mapping[ip] \in [eth : Eths, age : Nat] /\ n.mapping[ip].eth \in Eths
           /\ \A ip \in DOMAIN n.blocking : n.blocking[ip] \in Ages
  <1>1. /\ n.eth \in Eths /\ n.ip \in Hosts /\ n.frames_out \in Seq(Frames)
        /\ n.mapping \in Mappings /\ n.pending \in Seq(Entries) /\ n.blocking \in Blockings
    BY Zenon DEF Nics
  <1>2. PICK D \in SUBSET Hosts : n.mapping \in [D -> [eth : Eths, age : Nat]]
    BY <1>1, Zenon DEF Mappings
  <1>3. PICK B \in SUBSET Hosts : n.blocking \in [B -> Ages]
    BY <1>1, Zenon DEF Blockings
  <1> QED  BY <1>1, <1>2, <1>3

\* The interface whose fields are given.
LEMMA NicIs ==
    ASSUME NEW e \in Eths, NEW i \in Hosts, NEW f \in Seq(Frames), NEW m \in Mappings,
           NEW p \in Seq(Entries), NEW b \in Blockings
    PROVE  [eth |-> e, ip |-> i, frames_out |-> f, mapping |-> m, pending |-> p,
            blocking |-> b] \in Nics
  BY Zenon DEF Nics

\* Updates of single fields.
LEMMA NicFrames ==
    ASSUME NEW n \in Nics, NEW f \in Seq(Frames), NEW m, m = [n EXCEPT !.frames_out = f]
    PROVE  /\ m \in Nics /\ m.eth = n.eth /\ m.ip = n.ip /\ m.frames_out = f
           /\ m.mapping = n.mapping /\ m.pending = n.pending /\ m.blocking = n.blocking
  BY Zenon DEF Nics

LEMMA NicPending ==
    ASSUME NEW n \in Nics, NEW p \in Seq(Entries), NEW m, m = [n EXCEPT !.pending = p]
    PROVE  /\ m \in Nics /\ m.eth = n.eth /\ m.ip = n.ip /\ m.frames_out = n.frames_out
           /\ m.mapping = n.mapping /\ m.pending = p /\ m.blocking = n.blocking
  BY Zenon DEF Nics

LEMMA NicBlocking ==
    ASSUME NEW n \in Nics, NEW b \in Blockings, NEW m, m = [n EXCEPT !.blocking = b]
    PROVE  /\ m \in Nics /\ m.eth = n.eth /\ m.ip = n.ip /\ m.frames_out = n.frames_out
           /\ m.mapping = n.mapping /\ m.pending = n.pending /\ m.blocking = b
  BY Zenon DEF Nics

LEMMA NicMapping ==
    ASSUME NEW n \in Nics, NEW t \in Mappings, NEW m, m = [n EXCEPT !.mapping = t]
    PROVE  /\ m \in Nics /\ m.eth = n.eth /\ m.ip = n.ip /\ m.frames_out = n.frames_out
           /\ m.mapping = t /\ m.pending = n.pending /\ m.blocking = n.blocking
  BY Zenon DEF Nics

Speaks(f, n, opcode, ip) ==
    /\ f \in Frames /\ f.type = "ARP" /\ f.opcode = opcode /\ f.target_ip = ip
    /\ f.sender_ip = n.ip /\ f.sender_eth = n.eth

LEMMA IsArp ==
    ASSUME NEW n \in Nics, NEW dst \in Eths \cup {ETHERNET_BROADCAST},
           NEW opcode \in {"REQUEST", "REPLY"}, NEW ip \in Hosts,
           NEW f, f = ArpFrame(n, dst, opcode, ip)
    PROVE  Speaks(f, n, opcode, ip)
  <1>1. n.eth \in Eths /\ n.ip \in Hosts  BY NicFields
  <1>2. f = [type |-> "ARP", src |-> n.eth, dst |-> dst, opcode |-> opcode,
             sender_ip |-> n.ip, sender_eth |-> n.eth, target_ip |-> ip]
    BY DEF ArpFrame
  <1>3. f \in Arps  BY <1>1, <1>2 DEF Arps
  <1> QED  BY <1>2, <1>3 DEF Frames, Speaks

Carries(f, dst, dgram) ==
    f \in Frames /\ f.type = "IPv4" /\ f.dst = dst /\ f.dgram = dgram

LEMMA IsIpv4 ==
    ASSUME NEW n \in Nics, NEW dst \in Eths, NEW dgram \in Nat,
           NEW f, f = Ipv4Frame(n, dst, dgram)
    PROVE  Carries(f, dst, dgram)
  <1>1. n.eth \in Eths  BY NicFields
  <1>2. f = [type |-> "IPv4", src |-> n.eth, dst |-> dst, dgram |-> dgram]  BY DEF Ipv4Frame
  <1>3. f \in Ipv4s  BY <1>1, <1>2 DEF Ipv4s
  <1> QED  BY <1>2, <1>3 DEF Frames, Carries

\* An entry that is inserted in a table.
LEMMA Blocked ==
    ASSUME NEW b \in Blockings, NEW ip \in Hosts, NEW t, t = InsertIfAbsent(b, ip, 0)
    PROVE  /\ t \in Blockings /\ DOMAIN t = DOMAIN b \cup {ip}
           /\ \A k \in DOMAIN b : t[k] = b[k]
           /\ ip \notin DOMAIN b => t[ip] = 0
  <1>1. PICK D \in SUBSET Hosts : b \in [D -> Ages]  BY Zenon DEF Blockings
  <1>2. 0 \in Ages  BY InterfaceAssumption DEF Ages
  <1>3. t \in [D \cup {ip} -> Ages]  BY <1>1, <1>2 DEF InsertIfAbsent
  <1>4. D \cup {ip} \in SUBSET Hosts  BY <1>1
  <1>5. t \in Blockings  BY ONLY <1>3, <1>4, Zenon DEF Blockings
  <1> QED  BY <1>1, <1>5 DEF InsertIfAbsent

LEMMA Known ==
    ASSUME NEW m \in Mappings, NEW ip \in Hosts, NEW e \in Eths,
           NEW t, t = InsertIfAbsent(m, ip, [eth |-> e, age |-> 0])
    PROVE  /\ t \in Mappings /\ DOMAIN t = DOMAIN m \cup {ip}
           /\ \A k \in DOMAIN m : t[k] = m[k]
           /\ ip \notin DOMAIN m => t[ip].eth = e
  <1>1. PICK D \in SUBSET Hosts : m \in [D -> [eth : Eths, age : Nat]]  BY Zenon DEF Mappings
  <1> DEFINE v == [eth |-> e, age |-> 0]
  <1>2. v \in [eth : Eths, age : Nat] /\ v.eth = e  OBVIOUS
  <1> HIDE DEF v
  <1>3. t \in [D \cup {ip} -> [eth : Eths, age : Nat]]  BY <1>1, <1>2 DEF InsertIfAbsent, v
  <1>4. D \cup {ip} \in SUBSET Hosts  BY <1>1
  <1>5. t \in Mappings  BY ONLY <1>3, <1>4, Zenon DEF Mappings
  <1> QED  BY <1>1, <1>2, <1>5 DEF InsertIfAbsent, v

-----------------------------------------------------------------------------
\* The methods of an interface.

\* send_datagram sends the datagram, or holds it and asks at most once.
Sends(m, n, d, to) ==
    /\ m \in Nics /\ m.eth = n.eth /\ m.ip = n.ip /\ m.mapping = n.mapping
    /\ to \in DOMAIN n.mapping =>
           /\ m.pending = n.pending /\ m.blocking = n.blocking
           /\ m.frames_out = Append(n.frames_out, Ipv4Frame(n, n.mapping[to].eth, d))
    /\ to \notin DOMAIN n.mapping =>
           /\ m.pending = Append(n.pending, [dgram |-> d, next_hop |-> to])
           /\ IF to \in DOMAIN n.blocking
              THEN m.blocking = n.blocking /\ m.frames_out = n.frames_out
              ELSE /\ m.blocking = InsertIfAbsent(n.blocking, to, 0)
                   /\ m.frames_out = Append(n.frames_out, ArpFrame(n, ETHERNET_BROADCAST, "REQUEST", to))

LEMMA SendDatagram ==
    ASSUME NEW n \in Nics, NEW d \in Nat, NEW to \in Hosts, NEW m, m = send_datagram(n, d, to)
    PROVE  Sends(m, n, d, to)
  <1> DEFINE e == [dgram |-> d, next_hop |-> to]
             p == Append(n.pending, e)
             held == [n EXCEPT !.pending = p]
             b == InsertIfAbsent(n.blocking, to, 0)
             asked == [held EXCEPT !.blocking = b]
             f == Ipv4Frame(n, n.mapping[to].eth, d)
             a == ArpFrame(n, ETHERNET_BROADCAST, "REQUEST", to)
  <1>1. /\ n.frames_out \in Seq(Frames) /\ n.pending \in Seq(Entries) /\ n.blocking \in Blockings
        /\ to \in DOMAIN n.mapping => n.mapping[to].eth \in Eths
    BY NicFields
  <1>2. m = IF to \in DOMAIN n.mapping THEN [n EXCEPT !.frames_out = Append(n.frames_out, f)]
            ELSE IF to \in DOMAIN n.blocking THEN held
            ELSE [asked EXCEPT !.frames_out = Append(asked.frames_out, a)]
    <2>1. held.blocking = n.blocking  BY DEF Nics
    <2> QED  BY <2>1, Zenon DEF send_datagram, push_frame, request_allowed
  <1> HIDE DEF f, a, b, asked, p, held
  <1>3. CASE to \in DOMAIN n.mapping
    <2>1. f \in Frames  BY <1>1, <1>3, IsIpv4 DEF f, Carries
    <2> DEFINE out == Append(n.frames_out, f)
    <2>2. out \in Seq(Frames)  BY <1>1, <2>1
    <2>3. m = [n EXCEPT !.frames_out = out]  BY <1>2, <1>3, Zenon
    <2> HIDE DEF out
    <2>4. /\ m \in Nics /\ m.eth = n.eth /\ m.ip = n.ip /\ m.frames_out = out
          /\ m.mapping = n.mapping /\ m.pending = n.pending /\ m.blocking = n.blocking
      BY ONLY n \in Nics, <2>2, <2>3, NicFrames, SMTT(30)
    <2> QED  BY <1>3, <2>4, Zenon DEF Sends, f, out
  <1>4. CASE to \notin DOMAIN n.mapping
    <2>1. p \in Seq(Entries)
      <3>1. e \in Entries  BY DEF Entries
      <3> QED  BY <1>1, <3>1 DEF p
    <2>2. /\ held \in Nics /\ held.eth = n.eth /\ held.ip = n.ip /\ held.frames_out = n.frames_out
          /\ held.mapping = n.mapping /\ held.pending = p /\ held.blocking = n.blocking
      BY <2>1, NicPending DEF held
    <2>3. CASE to \in DOMAIN n.blocking
      <3>1. m = held  BY <1>2, <1>4, <2>3, Zenon
      <3> QED  BY <1>4, <2>2, <2>3, <3>1, Zenon DEF Sends, p
    <2>4. CASE to \notin DOMAIN n.blocking
      <3>1. b \in Blockings
        <4>1. b = InsertIfAbsent(n.blocking, to, 0)  BY DEF b
        <4> QED  BY ONLY <4>1, <1>1, to \in Hosts, Blocked, Zenon
      <3>2. /\ asked \in Nics /\ asked.eth = n.eth /\ asked.ip = n.ip
            /\ asked.frames_out = n.frames_out /\ asked.mapping = n.mapping
            /\ asked.pending = p /\ asked.blocking = b
        <4>1. /\ asked \in Nics /\ asked.eth = held.eth /\ asked.ip = held.ip
              /\ asked.frames_out = held.frames_out /\ asked.mapping = held.mapping
              /\ asked.pending = held.pending /\ asked.blocking = b
          <5>1. asked = [held EXCEPT !.blocking = b]  BY Zenon DEF asked
          <5> QED  BY ONLY <2>2, <3>1, <5>1, NicBlocking, SMTT(30)
        <4> QED  BY <4>1, <2>2, Zenon
      <3>3. a \in Frames  BY IsArp DEF a, Speaks
      <3> DEFINE out == Append(n.frames_out, a)
      <3>4. out \in Seq(Frames)  BY <1>1, <3>3
      <3>5. m = [asked EXCEPT !.frames_out = out]  BY <1>2, <1>4, <2>4, <3>2, Zenon
      <3> HIDE DEF out
      <3>6. /\ m \in Nics /\ m.eth = asked.eth /\ m.ip = asked.ip
            /\ m.frames_out = out /\ m.mapping = asked.mapping
            /\ m.pending = asked.pending /\ m.blocking = asked.blocking
        BY ONLY <3>2, <3>4, <3>5, NicFrames, SMTT(30)
      <3> QED  BY <1>4, <2>4, <3>2, <3>6, Zenon DEF Sends, p, a, b, out
    <2> QED  BY <2>3, <2>4, Zenon
  <1> QED  BY <1>3, <1>4, Zenon

\* The sender of an ARP message is known afterwards; who was known stays.
Learns(m, n, msg) ==
    /\ m \in Nics /\ m.eth = n.eth /\ m.ip = n.ip /\ m.frames_out = n.frames_out
    /\ m.pending = n.pending /\ m.blocking = n.blocking
    /\ DOMAIN m.mapping = DOMAIN n.mapping \cup {msg.sender_ip}
    /\ \A ip \in DOMAIN n.mapping : m.mapping[ip] = n.mapping[ip]
    /\ msg.sender_ip \notin DOMAIN n.mapping => m.mapping[msg.sender_ip].eth = msg.sender_eth

LEMMA Learn ==
    ASSUME NEW n \in Nics, NEW msg \in Arps, NEW m, m = learn(n, msg)
    PROVE  Learns(m, n, msg)
  <1> DEFINE t == InsertIfAbsent(n.mapping, msg.sender_ip, [eth |-> msg.sender_eth, age |-> 0])
  <1>1. msg.sender_ip \in Hosts /\ msg.sender_eth \in Eths  BY DEF Arps
  <1>2. n.mapping \in Mappings  BY NicFields
  <1>3. m = [n EXCEPT !.mapping = t]  BY Zenon DEF learn
  <1> HIDE DEF t
  <1>4. /\ t \in Mappings /\ DOMAIN t = DOMAIN n.mapping \cup {msg.sender_ip}
        /\ \A k \in DOMAIN n.mapping : t[k] = n.mapping[k]
        /\ msg.sender_ip \notin DOMAIN n.mapping => t[msg.sender_ip].eth = msg.sender_eth
    <2>1. t = InsertIfAbsent(n.mapping, msg.sender_ip, [eth |-> msg.sender_eth, age |-> 0])
      BY DEF t
    <2> QED  BY ONLY <1>1, <1>2, <2>1, Known, SMTT(30)
  <1>5. /\ m \in Nics /\ m.eth = n.eth /\ m.ip = n.ip /\ m.frames_out = n.frames_out
        /\ m.mapping = t /\ m.pending = n.pending /\ m.blocking = n.blocking
    BY ONLY n \in Nics, <1>3, <1>4, NicMapping, SMTT(30)
  <1> QED  BY <1>4, <1>5, Zenon DEF Learns

-----------------------------------------------------------------------------
\* What is held for the sender of a reply is sent, each datagram once.

Distinct(s) == \A i, j \in 1 .. Len(s) : s[i].dgram = s[j].dgram => i = j

\* s was put together from the first k elements of list.
Part(s, list, k) ==
    /\ s \in Seq(Entries)
    /\ \A i \in 1 .. Len(s) : \E j \in 1 .. k : s[i] = list[j]
    /\ Distinct(list) => Distinct(s)

LEMMA PartGrows ==
    ASSUME NEW list \in Seq(Entries), NEW k \in 0 .. Len(list) - 1, NEW s, Part(s, list, k),
           NEW t, t = Append(s, list[k + 1])
    PROVE  Part(s, list, k + 1) /\ Part(t, list, k + 1)
  <1>1. s \in Seq(Entries) /\ k \in Nat /\ k + 1 \in 1 .. Len(list) /\ Len(list) \in Nat
    BY DEF Part
  <1>2. \A i \in 1 .. Len(s) : \E j \in 1 .. k : s[i] = list[j]  BY DEF Part
  <1>3. 1 .. k \subseteq 1 .. k + 1 /\ 1 .. k \subseteq 1 .. Len(list)  BY <1>1
  <1>4. /\ t \in Seq(Entries) /\ Len(t) = Len(s) + 1 /\ t[Len(s) + 1] = list[k + 1]
        /\ \A i \in 1 .. Len(s) : t[i] = s[i]
        /\ Len(s) \in Nat
    <2>1. list[k + 1] \in Entries  BY <1>1
    <2> QED  BY <1>1, <2>1
  <1>5. \A i \in 1 .. Len(s) : \E j \in 1 .. k + 1 : s[i] = list[j]  BY <1>2, <1>3
  <1>6. ASSUME NEW i \in 1 .. Len(t)  PROVE \E j \in 1 .. k + 1 : t[i] = list[j]
    <2>1. CASE i = Len(s) + 1
      <3>1. k + 1 \in 1 .. k + 1  BY <1>1
      <3> QED  BY <2>1, <3>1, <1>4
    <2>2. CASE i # Len(s) + 1
      <3>1. i \in 1 .. Len(s)  BY <2>2, <1>4
      <3> QED  BY <3>1, <1>4, <1>5
    <2> QED  BY <2>1, <2>2
  <1>7. ASSUME Distinct(list)  PROVE Distinct(s) /\ Distinct(t)
    <2>1. Distinct(s)  BY <1>7 DEF Part
    <2>2. ASSUME NEW i \in 1 .. Len(s)  PROVE s[i].dgram # list[k + 1].dgram
      <3>1. PICK j \in 1 .. k : s[i] = list[j]  BY <1>2
      <3>2. j \in 1 .. Len(list) /\ j # k + 1  BY <1>1, <1>3
      <3> QED  BY <1>1, <1>7, <3>1, <3>2 DEF Distinct
    <2>3. ASSUME NEW i \in 1 .. Len(t), NEW j \in 1 .. Len(t), t[i].dgram = t[j].dgram
          PROVE  i = j
      <3>1. i \in 1 .. Len(s) \/ i = Len(s) + 1  BY <1>4
      <3>2. j \in 1 .. Len(s) \/ j = Len(s) + 1  BY <1>4
      <3>3. CASE i \in 1 .. Len(s) /\ j \in 1 .. Len(s)
        BY <2>1, <2>3, <3>3, <1>4 DEF Distinct
      <3> QED  BY <2>2, <2>3, <3>1, <3>2, <3>3, <1>4
    <2> QED  BY <2>1, <2>3 DEF Distinct
  <1> QED  BY <1>1, <1>4, <1>5, <1>6, <1>7 DEF Part

LEMMA PartHas ==
    ASSUME NEW list \in Seq(Entries), NEW k \in 0 .. Len(list) - 1,
           NEW s, Part(s, list, k), NEW t, t = Append(s, list[k + 1])
    PROVE  Has(t, list[k + 1])
  <1>1. s \in Seq(Entries) /\ list[k + 1] \in Entries  BY DEF Part
  <1>2. Len(s) + 1 \in 1 .. Len(t) /\ t[Len(s) + 1] = list[k + 1]  BY <1>1
  <1> QED  BY <1>2, Zenon DEF Has

Keeps(s, t) == \A o : Has(s, o) => Has(t, o)

LEMMA PartKeeps ==
    ASSUME NEW list \in Seq(Entries), NEW k \in 0 .. Len(list) - 1,
           NEW s, Part(s, list, k), NEW t, t = Append(s, list[k + 1])
    PROVE  Keeps(s, t)
  <1>1. s \in Seq(Entries) /\ list[k + 1] \in Entries  BY DEF Part
  <1>2. \A i \in 1 .. Len(s) : i \in 1 .. Len(t) /\ t[i] = s[i]  BY <1>1
  <1> QED  BY <1>2, Zenon DEF Keeps, Has

Nothing == [tmp_list |-> <<>>, rest |-> <<>>]

\* The loop over the pending list has a state after each of its iterations.
LEMMA SplitRuns ==
    ASSUME NEW list, NEW ip, Len(list) \in Nat
    PROVE  \E run : /\ run[0] = Nothing
                    /\ \A k \in 1 .. Len(list) : run[k] = take(run[k - 1], list[k], ip)
                    /\ run[Len(list)] = split(list, ip)
  <1> DEFINE n == Len(list)
             Body(g, m) == [k \in 0 .. m |-> IF k = 0 THEN Nothing ELSE take(g[k - 1], list[k], ip)]
             T == {m \in 0 .. n : \E g : g = Body(g, m)}
  <1>1. 0 \in T
    <2> DEFINE g == [k \in 0 .. 0 |-> Nothing]
    <2>1. g = Body(g, 0)  OBVIOUS
    <2>2. 0 \in 0 .. n  OBVIOUS
    <2> HIDE DEF g, n
    <2> QED  BY <2>1, <2>2
  <1>2. ASSUME NEW m \in 0 .. n - 1, m \in T  PROVE m + 1 \in T
    <2>1. PICK g : g = Body(g, m)  BY <1>2
    <2> DEFINE v == take(g[m], list[m + 1], ip)
               h == [k \in 0 .. m + 1 |-> IF k = m + 1 THEN v ELSE g[k]]
    <2>2. ASSUME NEW k \in 0 .. m + 1
          PROVE  h[k] = IF k = 0 THEN Nothing ELSE take(h[k - 1], list[k], ip)
      <3>1. CASE k = m + 1
        <4>1. m \in 0 .. m + 1 /\ m # m + 1 /\ k # 0 /\ k - 1 = m  BY <3>1
        <4>2. h[m] = g[m] /\ h[k] = v  BY <3>1, <4>1
        <4> HIDE DEF h
        <4> QED  BY <3>1, <4>1, <4>2
      <3>2. CASE k # m + 1
        <4>1. k \in 0 .. m /\ h[k] = g[k]  BY <3>2
        <4>2. g[k] = IF k = 0 THEN Nothing ELSE take(g[k - 1], list[k], ip)  BY <2>1, <4>1
        <4>3. k # 0 => k - 1 \in 0 .. m + 1 /\ k - 1 # m + 1  BY <4>1
        <4>4. k # 0 => h[k - 1] = g[k - 1]  BY <4>3
        <4> HIDE DEF h
        <4> QED  BY <4>1, <4>2, <4>4
      <3> QED  BY <3>1, <3>2
    <2>3. h = Body(h, m + 1)
      <3>1. h = [k \in 0 .. m + 1 |-> h[k]]  OBVIOUS
      <3> HIDE DEF h
      <3> QED  BY <2>2, <3>1, Zenon
    <2> HIDE DEF h
    <2> QED  BY <2>3
  <1>3. n \in T
    <2> HIDE DEF T, n
    <2>1. n \in Nat /\ n \in 0 .. n  BY DEF n
    <2>2. \A m \in 0 .. n - 1 : m \in T => m + 1 \in T  BY <1>2
    <2> QED  BY ONLY <1>1, <2>1, <2>2, Induction, SMTT(30)
  <1> DEFINE run == CHOOSE g : g = Body(g, n)
  <1>4. run = Body(run, n)
    <2>1. \E g : g = Body(g, n)  BY <1>3
    <2> HIDE DEF n
    <2> QED  BY <2>1, Zenon
  <1>5. run[n] = split(list, ip)
    BY Zenon DEF split, ForEach, Nothing
  <1> HIDE DEF run
  <1>6. run[0] = Nothing  BY <1>4
  <1>7. ASSUME NEW k \in 1 .. n  PROVE run[k] = take(run[k - 1], list[k], ip)
    BY <1>4
  <1> QED  BY <1>5, <1>6, <1>7, Zenon

\* What the loop has done when it has visited k elements.
Splitting(l, list, ip, k) ==
    /\ l \in [tmp_list : Seq(Entries), rest : Seq(Entries)]
    /\ Part(l.tmp_list, list, k) /\ Part(l.rest, list, k)
    /\ \A i \in 1 .. Len(l.tmp_list) : l.tmp_list[i].next_hop = ip
    /\ \A i \in 1 .. Len(l.rest) : l.rest[i].next_hop # ip
    /\ \A j \in 1 .. k : Has(l.tmp_list, list[j]) \/ Has(l.rest, list[j])

LEMMA TakeStep ==
    ASSUME NEW list \in Seq(Entries), NEW ip, NEW k \in 0 .. Len(list) - 1,
           NEW l, Splitting(l, list, ip, k), NEW m, m = take(l, list[k + 1], ip)
    PROVE  Splitting(m, list, ip, k + 1)
  <1> DEFINE e == list[k + 1]
             a == Append(l.tmp_list, e)
             b == Append(l.rest, e)
  <1>1. /\ l \in [tmp_list : Seq(Entries), rest : Seq(Entries)]
        /\ Part(l.tmp_list, list, k) /\ Part(l.rest, list, k)
        /\ \A i \in 1 .. Len(l.tmp_list) : l.tmp_list[i].next_hop = ip
        /\ \A i \in 1 .. Len(l.rest) : l.rest[i].next_hop # ip
        /\ \A j \in 1 .. k : Has(l.tmp_list, list[j]) \/ Has(l.rest, list[j])
    BY Zenon DEF Splitting
  <1>2. e \in Entries /\ l.tmp_list \in Seq(Entries) /\ l.rest \in Seq(Entries)  BY <1>1
  <1>3. m = IF e.next_hop = ip THEN [l EXCEPT !.tmp_list = a] ELSE [l EXCEPT !.rest = b]
    BY Zenon DEF take
  <1>4. a = Append(l.tmp_list, e) /\ b = Append(l.rest, e) /\ e = list[k + 1]  OBVIOUS
  <1> HIDE DEF e, a, b
  <1>5. a \in Seq(Entries) /\ b \in Seq(Entries)  BY <1>2, <1>4
  <1>6. /\ Part(l.tmp_list, list, k + 1) /\ Part(a, list, k + 1)
        /\ Has(a, e) /\ Keeps(l.tmp_list, a)
    <2>1. a = Append(l.tmp_list, list[k + 1])  BY <1>4, Zenon
    <2>2. Part(l.tmp_list, list, k)  BY <1>1, Zenon
    <2>3. Part(l.tmp_list, list, k + 1) /\ Part(a, list, k + 1)  BY <2>1, <2>2, PartGrows, Zenon
    <2>4. Has(a, list[k + 1])  BY <2>1, <2>2, PartHas, Zenon
    <2>5. Keeps(l.tmp_list, a)  BY <2>1, <2>2, PartKeeps, Zenon
    <2> QED  BY <2>3, <2>4, <2>5, <1>4, Zenon
  <1>7. /\ Part(l.rest, list, k + 1) /\ Part(b, list, k + 1)
        /\ Has(b, e) /\ Keeps(l.rest, b)
    <2>1. b = Append(l.rest, list[k + 1])  BY <1>4, Zenon
    <2>2. Part(l.rest, list, k)  BY <1>1, Zenon
    <2>3. Part(l.rest, list, k + 1) /\ Part(b, list, k + 1)  BY <2>1, <2>2, PartGrows, Zenon
    <2>4. Has(b, list[k + 1])  BY <2>1, <2>2, PartHas, Zenon
    <2>5. Keeps(l.rest, b)  BY <2>1, <2>2, PartKeeps, Zenon
    <2> QED  BY <2>3, <2>4, <2>5, <1>4, Zenon
  <1>8. \A j \in 1 .. k + 1 : j \in 1 .. k \/ j = k + 1  OBVIOUS
  <1>9. CASE e.next_hop = ip
    <2>1. m = [l EXCEPT !.tmp_list = a]  BY <1>3, <1>9, Zenon
    <2>2. m \in [tmp_list : Seq(Entries), rest : Seq(Entries)] /\ m.tmp_list = a /\ m.rest = l.rest
      BY ONLY <1>1, <1>5, <2>1, SMTT(30)
    <2>3. \A i \in 1 .. Len(a) : a[i].next_hop = ip
      BY ONLY <1>1, <1>2, <1>4, <1>9, SMTT(30)
    <2>4. \A j \in 1 .. k + 1 : Has(a, list[j]) \/ Has(l.rest, list[j])
      BY <1>1, <1>4, <1>6, <1>8, Zenon DEF Keeps
    <2> QED  BY <1>1, <1>6, <1>7, <2>2, <2>3, <2>4, Zenon DEF Splitting
  <1>10. CASE e.next_hop # ip
    <2>1. m = [l EXCEPT !.rest = b]  BY <1>3, <1>10, Zenon
    <2>2. m \in [tmp_list : Seq(Entries), rest : Seq(Entries)] /\ m.tmp_list = l.tmp_list /\ m.rest = b
      BY ONLY <1>1, <1>5, <2>1, SMTT(30)
    <2>3. \A i \in 1 .. Len(b) : b[i].next_hop # ip
      BY ONLY <1>1, <1>2, <1>4, <1>10, SMTT(30)
    <2>4. \A j \in 1 .. k + 1 : Has(l.tmp_list, list[j]) \/ Has(b, list[j])
      BY <1>1, <1>4, <1>7, <1>8, Zenon DEF Keeps
    <2> QED  BY <1>1, <1>6, <1>7, <2>2, <2>3, <2>4, Zenon DEF Splitting
  <1> QED  BY <1>9, <1>10

LEMMA Split ==
    ASSUME NEW list \in Seq(Entries), NEW ip, NEW l, l = split(list, ip)
    PROVE  Splitting(l, list, ip, Len(list))
  <1> DEFINE n == Len(list)
  <1>1. n \in Nat  OBVIOUS
  <1>2. PICK run : /\ run[0] = Nothing
                   /\ \A k \in 1 .. Len(list) : run[k] = take(run[k - 1], list[k], ip)
                   /\ run[Len(list)] = split(list, ip)
    BY ONLY <1>1, SplitRuns, Zenon
  <1> DEFINE T == {k \in 0 .. n : Splitting(run[k], list, ip, k)}
  <1>3. 0 \in T
    <2>1. Nothing \in [tmp_list : Seq(Entries), rest : Seq(Entries)]  BY DEF Nothing
    <2>2. Nothing.tmp_list = <<>> /\ Nothing.rest = <<>>  BY DEF Nothing
    <2>3. (\A i \in 1 .. Len(<<>>) : FALSE) /\ (\A j \in 1 .. 0 : FALSE) /\ <<>> \in Seq(Entries)
      OBVIOUS
    <2>4. Part(<<>>, list, 0)  BY <2>3, Zenon DEF Part, Distinct
    <2>5. Splitting(Nothing, list, ip, 0)  BY <2>1, <2>2, <2>3, <2>4, Zenon DEF Splitting
    <2>6. Splitting(run[0], list, ip, 0)  BY <2>5, <1>2, Zenon
    <2> QED  BY <2>6, <1>1
  <1>4. ASSUME NEW k \in 0 .. n - 1, k \in T  PROVE k + 1 \in T
    <2>1. k + 1 \in 1 .. n /\ (k + 1) - 1 = k /\ k + 1 \in 0 .. n  BY <1>1
    <2>2. Splitting(run[k], list, ip, k)  BY <1>4
    <2>3. \A i \in 1 .. n : run[i] = take(run[i - 1], list[i], ip)  BY <1>2, Zenon
    <2>4. run[k + 1] = take(run[k], list[k + 1], ip)  BY ONLY <2>1, <2>3, SMTT(30)
    <2>5. Splitting(run[k + 1], list, ip, k + 1)
      BY <1>4, <2>2, <2>4, TakeStep, Zenon
    <2> QED  BY <2>1, <2>5
  <1> HIDE DEF T
  <1>5. \A k \in 0 .. n : k \in T
    <2> HIDE DEF n
    <2>1. \A k \in 0 .. n - 1 : k \in T => k + 1 \in T  BY <1>4
    <2> QED  BY ONLY <1>1, <1>3, <2>1, Induction, SMTT(30)
  <1>6. n \in T  BY <1>1, <1>5
  <1>7. l = run[n]  BY <1>2, Zenon
  <1> QED  BY <1>6, <1>7 DEF T

LEMMA ResendRuns ==
    ASSUME NEW base, NEW list, Len(list) \in Nat
    PROVE  \E run : /\ run[0] = base
                    /\ \A k \in 1 .. Len(list) : run[k] = resend(run[k - 1], list[k])
                    /\ run[Len(list)] = ForEach(resend, base, list)
  <1> DEFINE n == Len(list)
             Body(g, m) == [k \in 0 .. m |-> IF k = 0 THEN base ELSE resend(g[k - 1], list[k])]
             T == {m \in 0 .. n : \E g : g = Body(g, m)}
  <1>1. 0 \in T
    <2> DEFINE g == [k \in 0 .. 0 |-> base]
    <2>1. g = Body(g, 0)  OBVIOUS
    <2>2. 0 \in 0 .. n  OBVIOUS
    <2> HIDE DEF g, n
    <2> QED  BY <2>1, <2>2
  <1>2. ASSUME NEW m \in 0 .. n - 1, m \in T  PROVE m + 1 \in T
    <2>1. PICK g : g = Body(g, m)  BY <1>2
    <2> DEFINE v == resend(g[m], list[m + 1])
               h == [k \in 0 .. m + 1 |-> IF k = m + 1 THEN v ELSE g[k]]
    <2>2. ASSUME NEW k \in 0 .. m + 1
          PROVE  h[k] = IF k = 0 THEN base ELSE resend(h[k - 1], list[k])
      <3>1. CASE k = m + 1
        <4>1. m \in 0 .. m + 1 /\ m # m + 1 /\ k # 0 /\ k - 1 = m  BY <3>1
        <4>2. h[m] = g[m] /\ h[k] = v  BY <3>1, <4>1
        <4> HIDE DEF h
        <4> QED  BY <3>1, <4>1, <4>2
      <3>2. CASE k # m + 1
        <4>1. k \in 0 .. m /\ h[k] = g[k]  BY <3>2
        <4>2. g[k] = IF k = 0 THEN base ELSE resend(g[k - 1], list[k])  BY <2>1, <4>1
        <4>3. k # 0 => k - 1 \in 0 .. m + 1 /\ k - 1 # m + 1  BY <4>1
        <4>4. k # 0 => h[k - 1] = g[k - 1]  BY <4>3
        <4> HIDE DEF h
        <4> QED  BY <4>1, <4>2, <4>4
      <3> QED  BY <3>1, <3>2
    <2>3. h = Body(h, m + 1)
      <3>1. h = [k \in 0 .. m + 1 |-> h[k]]  OBVIOUS
      <3> HIDE DEF h
      <3> QED  BY <2>2, <3>1
    <2> HIDE DEF h
    <2> QED  BY <2>3
  <1>3. n \in T
    <2> HIDE DEF T, n
    <2>1. n \in Nat /\ n \in 0 .. n  BY DEF n
    <2>2. \A m \in 0 .. n - 1 : m \in T => m + 1 \in T  BY <1>2
    <2> QED  BY ONLY <1>1, <2>1, <2>2, Induction, SMTT(30)
  <1> DEFINE run == CHOOSE g : g = Body(g, n)
  <1>4. run = Body(run, n)  
    <2>1. \E g : g = Body(g, n)  BY <1>3
    <2> HIDE DEF n
    <2> QED  BY <2>1, Zenon
  <1>5. run[n] = ForEach(resend, base, list)
    BY Zenon DEF ForEach
  <1> HIDE DEF run
  <1>6. run[0] = base  BY <1>4
  <1>7. ASSUME NEW k \in 1 .. n  PROVE run[k] = resend(run[k - 1], list[k])
    BY <1>4
  <1> QED  BY <1>5, <1>6, <1>7, Zenon

\* r has sent the first k elements of list, which wait for ip.
Flushing(r, n, ip, list, rest, k) ==
    /\ r \in Nics /\ r.eth = n.eth /\ r.ip = n.ip /\ r.mapping = n.mapping
    /\ r.blocking = n.blocking /\ r.pending = rest
    /\ Len(r.frames_out) = k
    /\ \A i \in 1 .. k : /\ r.frames_out[i].type = "IPv4"
                         /\ r.frames_out[i].dgram = list[i].dgram
                         /\ r.frames_out[i].dst = n.mapping[ip].eth

LEMMA ResendStep ==
    ASSUME NEW n \in Nics, NEW ip \in DOMAIN n.mapping, NEW list \in Seq(Entries),
           \A i \in 1 .. Len(list) : list[i].next_hop = ip,
           NEW rest, NEW k \in 0 .. Len(list) - 1,
           NEW r, Flushing(r, n, ip, list, rest, k), NEW m, m = resend(r, list[k + 1])
    PROVE  Flushing(m, n, ip, list, rest, k + 1)
  <1> DEFINE d == list[k + 1].dgram
             f == Ipv4Frame(r, n.mapping[ip].eth, d)
  <1>1. list[k + 1] \in Entries /\ list[k + 1].next_hop = ip /\ d \in Nat
    <2>1. list[k + 1] \in Entries /\ list[k + 1].next_hop = ip  OBVIOUS
    <2> QED  BY <2>1, Zenon DEF Entries
  <1>2. m = send_datagram(r, d, ip)  BY <1>1, Zenon DEF resend
  <1>3. /\ r \in Nics /\ r.eth = n.eth /\ r.ip = n.ip /\ r.mapping = n.mapping
        /\ r.blocking = n.blocking /\ r.pending = rest /\ Len(r.frames_out) = k
        /\ \A i \in 1 .. k : /\ r.frames_out[i].type = "IPv4"
                             /\ r.frames_out[i].dgram = list[i].dgram
                             /\ r.frames_out[i].dst = n.mapping[ip].eth
    BY Zenon DEF Flushing
  <1>4. ip \in Hosts /\ n.mapping[ip].eth \in Eths /\ r.frames_out \in Seq(Frames)
    BY <1>3, NicFields
  <1> HIDE DEF d
  <1>5. f \in Frames /\ f.type = "IPv4" /\ f.dst = n.mapping[ip].eth /\ f.dgram = d
    <2>1. f = Ipv4Frame(r, n.mapping[ip].eth, d)  OBVIOUS
    <2> HIDE DEF f
    <2>2. Carries(f, n.mapping[ip].eth, d)  BY ONLY <1>1, <1>3, <1>4, <2>1, IsIpv4, Zenon
    <2> QED  BY ONLY <2>2, Zenon DEF Carries
  <1>6. /\ m \in Nics /\ m.eth = r.eth /\ m.ip = r.ip /\ m.mapping = r.mapping
        /\ ip \in DOMAIN r.mapping =>
               /\ m.pending = r.pending /\ m.blocking = r.blocking
               /\ m.frames_out = Append(r.frames_out, Ipv4Frame(r, r.mapping[ip].eth, d))
    <2>1. Sends(m, r, d, ip)  BY ONLY <1>1, <1>2, <1>3, <1>4, SendDatagram, Zenon
    <2> QED  BY ONLY <2>1, Zenon DEF Sends
  <1>7. m.pending = r.pending /\ m.blocking = r.blocking /\ m.frames_out = Append(r.frames_out, f)
    BY <1>3, <1>6, Zenon
  <1> HIDE DEF f
  <1>8. /\ Len(m.frames_out) = k + 1 /\ m.frames_out[k + 1] = f
        /\ \A i \in 1 .. k : m.frames_out[i] = r.frames_out[i]
    BY ONLY k \in 0 .. Len(list) - 1, <1>3, <1>4, <1>5, <1>7, SMTT(30)
  <1>9. \A i \in 1 .. k + 1 : i \in 1 .. k \/ i = k + 1  OBVIOUS
  <1>10. ASSUME NEW i \in 1 .. k + 1
         PROVE  /\ m.frames_out[i].type = "IPv4"
                /\ m.frames_out[i].dgram = list[i].dgram
                /\ m.frames_out[i].dst = n.mapping[ip].eth
    <2>1. CASE i \in 1 .. k  BY ONLY <2>1, <1>3, <1>8, Zenon
    <2>2. CASE i = k + 1  BY ONLY <2>2, <1>5, <1>8, Zenon DEF d
    <2> QED  BY <1>9, <2>1, <2>2, Zenon
  <1> QED  BY ONLY <1>3, <1>6, <1>7, <1>8, <1>10, Zenon DEF Flushing

LEMMA Flush ==
    ASSUME NEW n \in Nics, n.frames_out = <<>>, NEW ip \in DOMAIN n.mapping,
           NEW m, m = flush(n, ip), NEW l, l = split(n.pending, ip)
    PROVE  /\ Splitting(l, n.pending, ip, Len(n.pending))
           /\ Flushing(m, n, ip, l.tmp_list, l.rest, Len(l.tmp_list))
  <1> DEFINE list == l.tmp_list
             rest == l.rest
             base == [n EXCEPT !.pending = rest]
             len == Len(list)
  <1>1. n.pending \in Seq(Entries)  BY NicFields
  <1>2. Splitting(l, n.pending, ip, Len(n.pending))  BY ONLY <1>1, l = split(n.pending, ip), Split, Zenon
  <1>3. /\ l \in [tmp_list : Seq(Entries), rest : Seq(Entries)]
        /\ \A i \in 1 .. Len(list) : list[i].next_hop = ip
    BY <1>2, Zenon DEF Splitting
  <1>4. list \in Seq(Entries) /\ rest \in Seq(Entries)  BY <1>3
  <1>5. m = ForEach(resend, base, list)  BY Zenon DEF flush
  <1>6. base = [n EXCEPT !.pending = rest]  OBVIOUS
  <1> HIDE DEF list, rest, base
  <1>7. /\ base \in Nics /\ base.eth = n.eth /\ base.ip = n.ip /\ base.frames_out = n.frames_out
        /\ base.mapping = n.mapping /\ base.pending = rest /\ base.blocking = n.blocking
    BY ONLY n \in Nics, <1>4, <1>6, NicPending, SMTT(30)
  <1>8. len \in Nat /\ Len(<<>>) = 0  BY <1>4
  <1>9. PICK run : /\ run[0] = base
                   /\ \A k \in 1 .. len : run[k] = resend(run[k - 1], list[k])
                   /\ run[len] = m
    <2>1. PICK run : /\ run[0] = base
                     /\ \A k \in 1 .. Len(list) : run[k] = resend(run[k - 1], list[k])
                     /\ run[Len(list)] = ForEach(resend, base, list)
      BY ONLY <1>8, ResendRuns, Zenon
    <2>2. run[Len(list)] = m  BY ONLY <2>1, <1>5, Zenon
    <2> QED  BY ONLY <2>1, <2>2, Zenon
  <1> DEFINE T == {k \in 0 .. len : Flushing(run[k], n, ip, list, rest, k)}
  <1>10. 0 \in T
    <2>1. \A i \in 1 .. 0 : FALSE  OBVIOUS
    <2>2. Flushing(base, n, ip, list, rest, 0)
      BY ONLY n.frames_out = <<>>, <1>7, <1>8, <2>1, Zenon DEF Flushing
    <2>3. Flushing(run[0], n, ip, list, rest, 0)  BY ONLY <2>2, <1>9, Zenon
    <2> QED  BY <2>3, <1>8
  <1>11. ASSUME NEW k \in 0 .. len - 1, k \in T  PROVE k + 1 \in T
    <2>1. k + 1 \in 1 .. len /\ (k + 1) - 1 = k /\ k + 1 \in 0 .. len  BY <1>8
    <2>2. Flushing(run[k], n, ip, list, rest, k)  BY <1>11
    <2>3. \A i \in 1 .. len : run[i] = resend(run[i - 1], list[i])  BY <1>9, Zenon
    <2>4. run[k + 1] = resend(run[k], list[k + 1])  BY ONLY <2>1, <2>3, SMTT(30)
    <2>5. Flushing(run[k + 1], n, ip, list, rest, k + 1)
      BY <1>3, <1>4, <1>11, <2>2, <2>4, ResendStep, Zenon DEF list
    <2> QED  BY <2>1, <2>5
  <1> HIDE DEF T
  <1>12. \A k \in 0 .. len : k \in T
    <2> HIDE DEF len
    <2>1. \A k \in 0 .. len - 1 : k \in T => k + 1 \in T  BY <1>11
    <2> QED  BY ONLY <1>8, <1>10, <2>1, Induction, SMTT(30)
  <1>13. len \in T  BY <1>8, <1>12
  <1>14. Flushing(run[len], n, ip, list, rest, len)  BY <1>13 DEF T
  <1> QED  BY ONLY <1>2, <1>9, <1>14, Zenon DEF list, rest

\* A frame for this host is learnt from or passed up; what it answers.
Replies(m, n, msg) ==
    \E k : /\ Learns(k, n, msg)
           /\ \/ m = k
              \/ /\ m \in Nics /\ m.eth = k.eth /\ m.ip = k.ip /\ m.mapping = k.mapping
                 /\ m.pending = k.pending /\ m.blocking = k.blocking
                 /\ m.frames_out = <<ArpFrame(n, msg.sender_eth, "REPLY", msg.sender_ip)>>
              \/ \E l : /\ Splitting(l, n.pending, msg.sender_ip, Len(n.pending))
                        /\ Flushing(m, k, msg.sender_ip, l.tmp_list, l.rest, Len(l.tmp_list))

Receives(r, n, f) ==
    \/ ~for_me(n, f) /\ r.nic = n /\ r.up = <<>>
    \/ for_me(n, f) /\ f \in Ipv4s /\ r.nic = n /\ r.up = <<f.dgram>>
    \/ for_me(n, f) /\ f \in Arps /\ Replies(r.nic, n, f) /\ r.up = <<>>

LEMMA RecvArp ==
    ASSUME NEW n \in Nics, n.frames_out = <<>>, NEW msg \in Arps, NEW m, m = recv_arp(n, msg)
    PROVE  Replies(m, n, msg)
  <1> DEFINE k == learn(n, msg)
             a == ArpFrame(n, msg.sender_eth, "REPLY", msg.sender_ip)
             out == <<a>>
  <1>1. Learns(k, n, msg)  BY Learn, Zenon
  <1>2. msg.sender_ip \in Hosts /\ msg.sender_eth \in Eths /\ msg.opcode \in {"REQUEST", "REPLY"}
    BY DEF Arps
  <1>3. m = CASE msg.opcode = "REPLY" -> flush(k, msg.sender_ip)
              [] msg.opcode = "REQUEST" /\ msg.target_ip = n.ip -> push_frame(k, a)
              [] OTHER -> k
    BY Zenon DEF recv_arp
  <1>4. a = ArpFrame(n, msg.sender_eth, "REPLY", msg.sender_ip)  OBVIOUS
  <1> HIDE DEF k, a
  <1>5. /\ k \in Nics /\ k.frames_out = <<>> /\ k.pending = n.pending
        /\ msg.sender_ip \in DOMAIN k.mapping
    BY <1>1, Zenon DEF Learns
  <1>6. CASE msg.opcode = "REPLY"
    <2>1. m = flush(k, msg.sender_ip)  BY <1>3, <1>6
    <2> DEFINE l == split(k.pending, msg.sender_ip)
    <2>2. /\ Splitting(l, k.pending, msg.sender_ip, Len(k.pending))
          /\ Flushing(m, k, msg.sender_ip, l.tmp_list, l.rest, Len(l.tmp_list))
      BY ONLY <1>5, <2>1, Flush, Zenon
    <2> HIDE DEF l
    <2> QED  BY ONLY <1>1, <1>5, <2>2, Zenon DEF Replies
  <1>7. CASE msg.opcode = "REQUEST" /\ msg.target_ip = n.ip
    <2>1. m = push_frame(k, a)  BY <1>3, <1>7
    <2>2. m = [k EXCEPT !.frames_out = Append(@, a)]  BY <2>1, Zenon DEF push_frame
    <2>3. m = [k EXCEPT !.frames_out = Append(<<>>, a)]  BY <2>2, <1>5, Zenon
    <2>4. a \in Frames
      <3>1. msg.sender_eth \in Eths \cup {ETHERNET_BROADCAST} /\ "REPLY" \in {"REQUEST", "REPLY"}
        BY <1>2
      <3>2. Speaks(a, n, "REPLY", msg.sender_ip)
        BY ONLY n \in Nics, <1>2, <3>1, <1>4, IsArp, Zenon
      <3> QED  BY <3>2, Zenon DEF Speaks
    <2>5. out = Append(<<>>, a)  OBVIOUS
    <2>6. out \in Seq(Frames)  BY <2>4
    <2> HIDE DEF out
    <2>7. m = [k EXCEPT !.frames_out = out]  BY <2>3, <2>5, Zenon
    <2>8. /\ m \in Nics /\ m.eth = k.eth /\ m.ip = k.ip /\ m.frames_out = out
          /\ m.mapping = k.mapping /\ m.pending = k.pending /\ m.blocking = k.blocking
      BY ONLY <1>5, <2>6, <2>7, NicFrames, SMTT(30)
    <2> QED  BY ONLY <1>1, <2>8, Zenon DEF Replies, out, a
  <1>8. CASE msg.opcode # "REPLY" /\ ~(msg.opcode = "REQUEST" /\ msg.target_ip = n.ip)
    <2>1. m = k  BY <1>3, <1>8
    <2> QED  BY ONLY <1>1, <2>1, Zenon DEF Replies
  <1> QED  BY <1>6, <1>7, <1>8, Zenon

LEMMA RecvFrame ==
    ASSUME NEW n \in Nics, n.frames_out = <<>>, NEW f \in Frames, NEW r, r = recv_frame(n, f)
    PROVE  Receives(r, n, f)
  <1>1. f \in Arps => f.type = "ARP"  BY DEF Arps
  <1>2. f \in Ipv4s => f.type = "IPv4"  BY DEF Ipv4s
  <1>3. f \in Arps \/ f \in Ipv4s  BY Zenon DEF Frames
  <1> DEFINE a == recv_arp(n, f)
             b == f.dgram
  <1>4. r = CASE ~for_me(n, f) -> [nic |-> n, up |-> <<>>]
              [] for_me(n, f) /\ f.type = "ARP" -> [nic |-> a, up |-> <<>>]
              [] for_me(n, f) /\ f.type = "IPv4" -> [nic |-> n, up |-> <<b>>]
              [] OTHER -> [nic |-> n, up |-> <<>>]
    BY Zenon DEF recv_frame
  <1>5. a = recv_arp(n, f) /\ b = f.dgram  OBVIOUS
  <1> HIDE DEF a, b
  <1>6. CASE ~for_me(n, f)
    <2>1. r = [nic |-> n, up |-> <<>>]  BY ONLY <1>4, <1>6, SMTT(30)
    <2>2. r.nic = n /\ r.up = <<>>  BY ONLY <2>1, SMTT(30)
    <2> QED  BY ONLY <2>2, <1>6, Zenon DEF Receives
  <1>7. CASE for_me(n, f) /\ f \in Arps
    <2>1. r = [nic |-> a, up |-> <<>>]  BY ONLY <1>4, <1>7, <1>1, SMTT(30)
    <2>2. r.nic = a /\ r.up = <<>>  BY ONLY <2>1, SMTT(30)
    <2>3. Replies(a, n, f)  BY ONLY n \in Nics, n.frames_out = <<>>, <1>5, <1>7, RecvArp, Zenon
    <2> QED  BY ONLY <2>2, <2>3, <1>7, Zenon DEF Receives
  <1>8. CASE for_me(n, f) /\ f \in Ipv4s
    <2>1. r = [nic |-> n, up |-> <<b>>]  BY ONLY <1>4, <1>8, <1>2, SMTT(30)
    <2>2. r.nic = n /\ r.up = <<b>>  BY ONLY <2>1, SMTT(30)
    <2> QED  BY ONLY <2>2, <1>5, <1>8, Zenon DEF Receives
  <1> QED  BY <1>3, <1>6, <1>7, <1>8, Zenon

\* Entries grow older and leave their table.
Grows(m, n) ==
    /\ m \in Nics /\ m.eth = n.eth /\ m.ip = n.ip /\ m.frames_out = n.frames_out
    /\ m.pending = n.pending
    /\ DOMAIN m.mapping \subseteq DOMAIN n.mapping
    /\ \A ip \in DOMAIN m.mapping : m.mapping[ip].eth = n.mapping[ip].eth
    /\ DOMAIN m.blocking = {ip \in DOMAIN n.blocking : n.blocking[ip] + 1 < ARP_REQ_BLOCKING_TIME}
    /\ \A ip \in DOMAIN m.blocking : m.blocking[ip] = n.blocking[ip] + 1

LEMMA TickNic ==
    ASSUME NEW n \in Nics, NEW m, m = NetworkInterface_tick(n, 1)
    PROVE  Grows(m, n)
  <1> DEFINE known == Younger([ip \in DOMAIN n.mapping |-> n.mapping[ip].age], ARP_VALID_TIME, 1)
             asked == Younger(n.blocking, ARP_REQ_BLOCKING_TIME, 1)
             t == [ip \in known |-> [n.mapping[ip] EXCEPT !.age = @ + 1]]
             b == [ip \in asked |-> n.blocking[ip] + 1]
  <1>1. /\ n.mapping \in Mappings /\ n.blocking \in Blockings
        /\ DOMAIN n.mapping \subseteq Hosts /\ DOMAIN n.blocking \subseteq Hosts
        /\ \A ip \in DOMAIN n.mapping : n.mapping[ip] \in [eth : Eths, age : Nat]
        /\ \A ip \in DOMAIN n.blocking : n.blocking[ip] \in Ages
    BY NicFields
  <1>2. known \subseteq DOMAIN n.mapping  BY DEF Younger
  <1>3. asked = {ip \in DOMAIN n.blocking : n.blocking[ip] + 1 < ARP_REQ_BLOCKING_TIME}
    BY DEF Younger
  <1>4. m = [n EXCEPT !.mapping = t, !.blocking = b]  BY Zenon DEF NetworkInterface_tick
  <1> HIDE DEF known, asked
  <1>5. t \in Mappings /\ DOMAIN t = known /\ \A ip \in known : t[ip].eth = n.mapping[ip].eth
    <2>1. t \in [known -> [eth : Eths, age : Nat]]  BY <1>1, <1>2
    <2>2. known \in SUBSET Hosts  BY <1>1, <1>2
    <2>3. t \in Mappings  BY ONLY <2>1, <2>2, Zenon DEF Mappings
    <2>4. \A ip \in known : t[ip].eth = n.mapping[ip].eth  BY <1>1, <1>2
    <2> QED  BY <2>3, <2>4
  <1>6. b \in Blockings /\ DOMAIN b = asked /\ \A ip \in asked : b[ip] = n.blocking[ip] + 1
    <2>1. b \in [asked -> Ages]  BY <1>1, <1>3, InterfaceAssumption DEF Ages
    <2>2. asked \in SUBSET Hosts  BY <1>1, <1>3
    <2>3. b \in Blockings  BY ONLY <2>1, <2>2, Zenon DEF Blockings
    <2> QED  BY <2>3
  <1> HIDE DEF t, b
  <1>7. /\ m \in Nics /\ m.eth = n.eth /\ m.ip = n.ip /\ m.frames_out = n.frames_out
        /\ m.pending = n.pending /\ m.mapping = t /\ m.blocking = b
    BY ONLY n \in Nics, <1>4, <1>5, <1>6, Zenon DEF Nics
  <1> QED  BY ONLY <1>2, <1>3, <1>5, <1>6, <1>7, Zenon DEF Grows

-----------------------------------------------------------------------------
\* What the variables hold; the queue of outgoing frames is empty between calls.
LanType ==
    /\ nic \in [Hosts -> Nics]
    /\ \A h \in Hosts : nic[h].frames_out = <<>>
    /\ wire \in [Hosts -> Seq(Frames)]
    /\ got \in [Hosts -> Seq(Nat)]
    /\ sent \in Seq([from : Hosts, to : Hosts])
    /\ losses \in Nat
    /\ restarts \in Nat

\* The Ethernet addresses that ip had before restart r.
Address(ip, r) == {ip} \X (0 .. r)

\* The datagrams of a list of entries, and of the frames on a wire.
Waits(p) == {p[k].dgram : k \in 1 .. Len(p)}
Loads(w) == {k \in 1 .. Len(w) : w[k].type = "IPv4"}
Load(w) == {w[k].dgram : k \in Loads(w)}
Members(s) == {s[k] : k \in 1 .. Len(s)}
Once(w) == \A i, j \in Loads(w) : w[i].dgram = w[j].dgram => i = j
Injective(s) == \A i, j \in 1 .. Len(s) : s[i] = s[j] => i = j

\* What a frame, an interface and an entry hold, when s was sent and r restarts happened.
FrameOK(f, s, r) ==
    /\ f.type = "ARP" => f.sender_eth \in Address(f.sender_ip, r)
    /\ f.type = "IPv4" => f.dgram \in 1 .. Len(s) /\ f.dst \in Address(s[f.dgram].to, r)

NicOK(h, n, r) ==
    /\ n.eth \in Address(h, r) /\ n.ip = h
    /\ \A ip \in DOMAIN n.mapping : n.mapping[ip].eth \in Address(ip, r)

EntryOK(h, e, s) == e.dgram \in 1 .. Len(s) /\ s[e.dgram].from = h /\ s[e.dgram].to = e.next_hop

PendingOK(h, p, s) == \A k \in 1 .. Len(p) : EntryOK(h, p[k], s)
WireOK(w, s, r) == \A k \in 1 .. Len(w) : FrameOK(w[k], s, r)

\* The datagrams that wait at h, that are on their way to h, and that h got.
P(h) == Waits(nic[h].pending)
L(h) == Load(wire[h])
G(h) == Members(got[h])

\* Addresses are those of the hosts, and datagrams wait and arrive where they belong.
Proper ==
    /\ restarts <= MaxRestarts
    /\ \A h \in Hosts : /\ NicOK(h, nic[h], restarts) /\ PendingOK(h, nic[h].pending, sent)
                        /\ WireOK(wire[h], sent, restarts)
                        /\ \A d \in G(h) : d \in 1 .. Len(sent) /\ sent[d].to = h

\* No datagram is in two places.
Apart ==
    \A h \in Hosts :
        /\ Distinct(nic[h].pending) /\ Once(wire[h]) /\ Injective(got[h])
        /\ \A g \in Hosts : P(h) \cap L(g) = {} /\ P(h) \cap G(g) = {}
        /\ \A d \in L(h) : sent[d].to = h => d \notin G(h)

\* No datagram is in none.
Kept ==
    losses = 0 /\ restarts = 0 =>
        \A d \in 1 .. Len(sent) : \A a, b \in Hosts :
            sent[d].from = a /\ sent[d].to = b => a # b /\ (d \in P(a) \/ d \in L(b) \/ d \in G(b))

PlaceInv == LanType /\ Proper /\ Apart /\ Kept

-----------------------------------------------------------------------------
\* The steps in terms of the fields.

\* h has the fields of n now and its frames went out; w is left on its way.
Delivered(h, n, w) ==
    /\ nic' \in [Hosts -> Nics]
    /\ \A g \in Hosts : nic'[g].frames_out = <<>>
    /\ nic'[h].eth = n.eth /\ nic'[h].ip = n.ip /\ nic'[h].mapping = n.mapping
    /\ nic'[h].pending = n.pending /\ nic'[h].blocking = n.blocking
    /\ \A g \in Hosts \ {h} : nic'[g] = nic[g]
    /\ wire' \in [Hosts -> Seq(Frames)] /\ wire'[h] = w
    /\ \A g \in Hosts \ {h} : wire'[g] = wire[g] \o n.frames_out
    /\ asks' = Asked(h, n.frames_out)

LEMMA Delivering ==
    ASSUME LanType, NEW h \in Hosts, NEW n \in Nics, NEW w \in Seq(Frames), SendPending(h, n, w)
    PROVE  Delivered(h, n, w)
  <1> DEFINE m == [n EXCEPT !.frames_out = <<>>]
             fs == n.frames_out
  <1>1. /\ nic \in [Hosts -> Nics] /\ wire \in [Hosts -> Seq(Frames)]
        /\ \A g \in Hosts : nic[g].frames_out = <<>>
    BY Zenon DEF LanType
  <1>2. <<>> \in Seq(Frames) /\ fs \in Seq(Frames) /\ Len(fs) \in Nat  BY NicFields
  <1>3. /\ m \in Nics /\ m.eth = n.eth /\ m.ip = n.ip /\ m.frames_out = <<>>
        /\ m.mapping = n.mapping /\ m.pending = n.pending /\ m.blocking = n.blocking
    <2>1. m = [n EXCEPT !.frames_out = <<>>]  OBVIOUS
    <2> HIDE DEF m
    <2> QED  BY ONLY n \in Nics, <1>2, <2>1, Zenon DEF Nics
  <1>4. nic' = [nic EXCEPT ![h] = m]  BY Zenon DEF SendPending
  <1>5. wire' = [g \in Hosts |-> IF g = h THEN w ELSE wire[g] \o fs]  BY Zenon DEF SendPending
  <1>6. asks' = Asked(h, fs)  BY Zenon DEF SendPending
  <1> HIDE DEF m, fs
  <1>7. /\ nic' \in [Hosts -> Nics] /\ nic'[h] = m
        /\ \A g \in Hosts \ {h} : nic'[g] = nic[g]
    BY ONLY <1>1, <1>3, <1>4, h \in Hosts, SMTT(30)
  <1>8. /\ wire' \in [Hosts -> Seq(Frames)] /\ wire'[h] = w
        /\ \A g \in Hosts \ {h} : wire'[g] = wire[g] \o fs
    BY ONLY <1>1, <1>2, <1>5, h \in Hosts, w \in Seq(Frames), SMTT(30)
  <1>10. \A g \in Hosts : nic'[g].frames_out = <<>>
    <2> TAKE g \in Hosts
    <2>1. CASE g = h  BY ONLY <2>1, <1>3, <1>7, Zenon
    <2>2. CASE g # h  BY ONLY <2>2, <1>1, <1>7, g \in Hosts, Zenon
    <2> QED  BY <2>1, <2>2
  <1>11. /\ nic'[h].eth = n.eth /\ nic'[h].ip = n.ip /\ nic'[h].mapping = n.mapping
         /\ nic'[h].pending = n.pending /\ nic'[h].blocking = n.blocking
    BY ONLY <1>3, <1>7, Zenon
  <1> QED  BY ONLY <1>6, <1>7, <1>8, <1>10, <1>11, Zenon DEF Delivered, fs

\* A new interface.
Fresh(m, e, h) ==
    /\ m \in Nics /\ m.eth = e /\ m.ip = h /\ m.frames_out = <<>> /\ m.pending = <<>>
    /\ DOMAIN m.mapping = {} /\ DOMAIN m.blocking = {}

LEMMA NewNic ==
    ASSUME NEW e \in Eths, NEW h \in Hosts, NEW m, m = NewNetworkInterface(e, h)
    PROVE  Fresh(m, e, h)
  <1>1. DOMAIN EmptyMap = {}  BY DEF EmptyMap
  <1>2. EmptyMap \in [{} -> [eth : Eths, age : Nat]] /\ EmptyMap \in [{} -> Ages]
    BY DEF EmptyMap
  <1>3. {} \in SUBSET Hosts  OBVIOUS
  <1>4. EmptyMap \in Mappings /\ EmptyMap \in Blockings
    BY ONLY <1>2, <1>3, Zenon DEF Mappings, Blockings
  <1>5. <<>> \in Seq(Frames) /\ <<>> \in Seq(Entries)  OBVIOUS
  <1>6. m = [eth |-> e, ip |-> h, frames_out |-> <<>>, mapping |-> EmptyMap, pending |-> <<>>,
             blocking |-> EmptyMap]
    BY Zenon DEF NewNetworkInterface
  <1>7. m \in Nics  BY ONLY e \in Eths, h \in Hosts, <1>4, <1>5, <1>6, Zenon DEF Nics
  <1>8. /\ m.eth = e /\ m.ip = h /\ m.frames_out = <<>> /\ m.pending = <<>>
        /\ m.mapping = EmptyMap /\ m.blocking = EmptyMap
    BY ONLY <1>6, Zenon
  <1> QED  BY ONLY <1>1, <1>7, <1>8, Zenon DEF Fresh

\* What an interface is after a frame, whatever the frame.
Received(m, n) ==
    /\ m \in Nics /\ m.eth = n.eth /\ m.ip = n.ip /\ m.blocking = n.blocking
    /\ \A k \in 1 .. Len(m.frames_out) : \A ip : ~IsRequest(m.frames_out[k], ip)

LEMMA NoRequests ==
    ASSUME NEW n \in Nics, n.frames_out = <<>>, NEW f \in Frames, NEW r, Receives(r, n, f)
    PROVE  Received(r.nic, n)
  <1> DEFINE m == r.nic
  <1>1. Len(<<>>) = 0 /\ \A k \in 1 .. 0 : FALSE  OBVIOUS
  <1>2. ASSUME m = n  PROVE Received(m, n)
    BY ONLY n \in Nics, n.frames_out = <<>>, <1>1, <1>2, Zenon DEF Received
  <1> HIDE DEF m
  <1>3. ASSUME f \in Arps, Replies(m, n, f)  PROVE Received(m, n)
    <2>1. PICK k :
             /\ Learns(k, n, f)
             /\ \/ m = k
                \/ /\ m \in Nics /\ m.eth = k.eth /\ m.ip = k.ip /\ m.mapping = k.mapping
                   /\ m.pending = k.pending /\ m.blocking = k.blocking
                   /\ m.frames_out = <<ArpFrame(n, f.sender_eth, "REPLY", f.sender_ip)>>
                \/ \E l : /\ Splitting(l, n.pending, f.sender_ip, Len(n.pending))
                          /\ Flushing(m, k, f.sender_ip, l.tmp_list, l.rest, Len(l.tmp_list))
      BY ONLY <1>3, Zenon DEF Replies
    <2>2. k \in Nics /\ k.eth = n.eth /\ k.ip = n.ip /\ k.blocking = n.blocking /\ k.frames_out = <<>>
      BY ONLY n.frames_out = <<>>, <2>1, Zenon DEF Learns
    <2>3. CASE m = k  BY ONLY <2>2, <2>3, <1>1, Zenon DEF Received
    <2>4. CASE /\ m \in Nics /\ m.eth = k.eth /\ m.ip = k.ip /\ m.mapping = k.mapping
               /\ m.pending = k.pending /\ m.blocking = k.blocking
               /\ m.frames_out = <<ArpFrame(n, f.sender_eth, "REPLY", f.sender_ip)>>
      <3> DEFINE a == ArpFrame(n, f.sender_eth, "REPLY", f.sender_ip)
      <3>1. a.opcode = "REPLY"  BY DEF ArpFrame
      <3>2. \A ip : ~IsRequest(a, ip)  BY <3>1 DEF IsRequest
      <3> HIDE DEF a
      <3>3. m.frames_out = <<a>>  BY <2>4, Zenon DEF a
      <3>4. \A j \in 1 .. Len(m.frames_out) : m.frames_out[j] = a  BY ONLY <3>3, SMTT(30)
      <3> QED  BY ONLY <2>2, <2>4, <3>2, <3>4, Zenon DEF Received
    <2>5. CASE \E l : /\ Splitting(l, n.pending, f.sender_ip, Len(n.pending))
                      /\ Flushing(m, k, f.sender_ip, l.tmp_list, l.rest, Len(l.tmp_list))
      <3>1. PICK l : Flushing(m, k, f.sender_ip, l.tmp_list, l.rest, Len(l.tmp_list))  BY <2>5, Zenon
      <3>2. /\ m \in Nics /\ m.eth = k.eth /\ m.ip = k.ip /\ m.blocking = k.blocking
            /\ \A j \in 1 .. Len(m.frames_out) : m.frames_out[j].type = "IPv4"
        BY ONLY <3>1, Zenon DEF Flushing
      <3>3. \A j \in 1 .. Len(m.frames_out) : m.frames_out[j].type # "ARP"  BY <3>2
      <3>4. \A j \in 1 .. Len(m.frames_out) : \A ip : ~IsRequest(m.frames_out[j], ip)
        BY <3>3, Zenon DEF IsRequest
      <3> QED  BY ONLY <2>2, <3>2, <3>4, Zenon DEF Received
    <2> QED  BY <2>1, <2>3, <2>4, <2>5, Zenon
  <1> QED  BY <1>2, <1>3, Zenon DEF Receives, m

\* Each action, in these terms.
Writes(h, to, n) ==
    /\ Sends(n, nic[h], Len(sent) + 1, to) /\ Delivered(h, n, wire[h])
    /\ h # to
    /\ sent' = Append(sent, [from |-> h, to |-> to])
    /\ got' = got /\ losses' = losses /\ restarts' = restarts

LEMMA WriteIs ==
    ASSUME LanType, NEW h \in Hosts, NEW to \in Hosts, Write(h, to)
    PROVE  \E n : Writes(h, to, n)
  <1> DEFINE n == send_datagram(nic[h], Len(sent) + 1, to)
  <1>1. nic[h] \in Nics /\ wire[h] \in Seq(Frames) /\ Len(sent) + 1 \in Nat  BY DEF LanType
  <1>2. Sends(n, nic[h], Len(sent) + 1, to)  BY ONLY <1>1, to \in Hosts, SendDatagram, Zenon
  <1>3. n \in Nics  BY ONLY <1>2, Zenon DEF Sends
  <1>4. SendPending(h, n, wire[h])  BY Zenon DEF Write
  <1>5. h # to /\ sent' = Append(sent, [from |-> h, to |-> to])
    BY Zenon DEF Write
  <1>7. got' = got /\ losses' = losses /\ restarts' = restarts  BY DEF Write
  <1> HIDE DEF n
  <1>6. Delivered(h, n, wire[h])  BY ONLY LanType, h \in Hosts, <1>1, <1>3, <1>4, Delivering, Zenon
  <1> QED  BY ONLY <1>2, <1>5, <1>6, <1>7, Zenon DEF Writes

Reads(h, r) ==
    /\ wire[h] # <<>> /\ Head(wire[h]) \in Frames /\ Tail(wire[h]) \in Seq(Frames)
    /\ Receives(r, nic[h], Head(wire[h])) /\ Received(r.nic, nic[h])
    /\ Delivered(h, r.nic, Tail(wire[h]))
    /\ got' = [got EXCEPT ![h] = @ \o r.up]
    /\ sent' = sent /\ losses' = losses /\ restarts' = restarts

LEMMA ReadIs ==
    ASSUME LanType, NEW h \in Hosts, Read(h)
    PROVE  \E r : Reads(h, r)
  <1> DEFINE f == Head(wire[h])
             w == Tail(wire[h])
             r == recv_frame(nic[h], f)
  <1>1. /\ nic[h] \in Nics /\ nic[h].frames_out = <<>> /\ wire[h] \in Seq(Frames)
    BY DEF LanType
  <1>2. wire[h] # <<>>  BY DEF Read
  <1>3. f \in Frames /\ w \in Seq(Frames)  BY <1>1, <1>2
  <1>4. SendPending(h, r.nic, w) /\ got' = [got EXCEPT ![h] = @ \o r.up]  BY Zenon DEF Read
  <1>5. sent' = sent /\ losses' = losses /\ restarts' = restarts  BY DEF Read
  <1>6. Receives(r, nic[h], f)  BY ONLY <1>1, <1>3, RecvFrame, Zenon
  <1> HIDE DEF r, f, w
  <1>7. Received(r.nic, nic[h])  BY ONLY <1>1, <1>3, <1>6, NoRequests, Zenon
  <1>8. r.nic \in Nics  BY ONLY <1>7, Zenon DEF Received
  <1>9. Delivered(h, r.nic, w)  BY ONLY LanType, h \in Hosts, <1>3, <1>4, <1>8, Delivering, Zenon
  <1> QED  BY ONLY <1>2, <1>3, <1>4, <1>5, <1>6, <1>7, <1>9, Zenon DEF Reads, f, w

LEMMA Updated ==
    ASSUME NEW S, NEW T, NEW f \in [S -> T], NEW h \in S, NEW v \in T, NEW g, g = [f EXCEPT ![h] = v]
    PROVE  g \in [S -> T] /\ g[h] = v /\ \A k \in S \ {h} : g[k] = f[k]
  OBVIOUS

\* The requests of a host a time unit later.
Older(a) == [ip \in Hosts |-> [age \in Ages |-> IF age = 0 THEN 0 ELSE a[ip][age - 1]]]

Ticks(h) ==
    /\ nic' \in [Hosts -> Nics] /\ Grows(nic'[h], nic[h])
    /\ \A g \in Hosts \ {h} : nic'[g] = nic[g]
    /\ asks' = [asks EXCEPT ![h] = Older(asks[h])]
    /\ wire' = wire /\ got' = got /\ sent' = sent /\ losses' = losses /\ restarts' = restarts

LEMMA TickIs ==
    ASSUME LanType, NEW h \in Hosts, Tick(h)
    PROVE  Ticks(h)
  <1> DEFINE m == NetworkInterface_tick(nic[h], 1)
  <1>1. nic \in [Hosts -> Nics] /\ nic[h] \in Nics  BY DEF LanType
  <1>2. Grows(m, nic[h])  BY ONLY <1>1, TickNic, Zenon
  <1>3. m \in Nics  BY ONLY <1>2, Zenon DEF Grows
  <1>4. nic' = [nic EXCEPT ![h] = m] /\ asks' = [asks EXCEPT ![h] = Older(asks[h])]
    BY Zenon DEF Tick, Older
  <1>5. wire' = wire /\ got' = got /\ sent' = sent /\ losses' = losses /\ restarts' = restarts
    BY DEF Tick
  <1> HIDE DEF m
  <1>6. /\ nic' \in [Hosts -> Nics] /\ nic'[h] = m
        /\ \A g \in Hosts \ {h} : nic'[g] = nic[g]
    BY ONLY <1>1, <1>3, <1>4, h \in Hosts, Updated, Zenon
  <1> QED  BY ONLY <1>2, <1>4, <1>5, <1>6, Zenon DEF Ticks

Loses(h) ==
    /\ wire[h] # <<>>
    /\ wire' \in [Hosts -> Seq(Frames)] /\ wire'[h] = Tail(wire[h])
    /\ \A g \in Hosts \ {h} : wire'[g] = wire[g]
    /\ losses' = losses + 1
    /\ nic' = nic /\ got' = got /\ sent' = sent /\ restarts' = restarts /\ asks' = asks

LEMMA LoseIs ==
    ASSUME LanType, NEW h \in Hosts, Lose(h)
    PROVE  Loses(h)
  <1>1. wire \in [Hosts -> Seq(Frames)]  BY DEF LanType
  <1>2. wire[h] # <<>> /\ losses' = losses + 1 /\ wire' = [wire EXCEPT ![h] = Tail(wire[h])]
    BY DEF Lose
  <1>3. nic' = nic /\ got' = got /\ sent' = sent /\ restarts' = restarts /\ asks' = asks
    BY DEF Lose
  <1> DEFINE w == Tail(wire[h])
  <1>4. w \in Seq(Frames)  BY <1>1, <1>2
  <1> HIDE DEF w
  <1>5. /\ wire' \in [Hosts -> Seq(Frames)] /\ wire'[h] = w
        /\ \A g \in Hosts \ {h} : wire'[g] = wire[g]
    <2>1. wire' = [wire EXCEPT ![h] = w]  BY <1>2, Zenon DEF w
    <2> QED  BY ONLY <1>1, <1>4, <2>1, h \in Hosts, SMTT(30)
  <1> QED  BY ONLY <1>2, <1>3, <1>5, Zenon DEF Loses, w

Restarts(h) ==
    /\ restarts < MaxRestarts /\ restarts' = restarts + 1
    /\ nic' \in [Hosts -> Nics] /\ Fresh(nic'[h], <<h, restarts + 1>>, h)
    /\ \A g \in Hosts \ {h} : nic'[g] = nic[g]
    /\ asks' = [asks EXCEPT ![h] = NoAsks]
    /\ wire' = wire /\ got' = got /\ sent' = sent /\ losses' = losses

LEMMA RestartIs ==
    ASSUME LanType, NEW h \in Hosts, Restart(h)
    PROVE  Restarts(h)
  <1> DEFINE e == <<h, restarts + 1>>
             m == NewNetworkInterface(e, h)
  <1>1. nic \in [Hosts -> Nics] /\ restarts \in Nat  BY DEF LanType
  <1>2. e \in Eths  BY <1>1 DEF Eths
  <1>3. restarts < MaxRestarts /\ restarts' = restarts + 1  BY DEF Restart
  <1>4. nic' = [nic EXCEPT ![h] = m] /\ asks' = [asks EXCEPT ![h] = NoAsks]  BY Zenon DEF Restart
  <1>5. wire' = wire /\ got' = got /\ sent' = sent /\ losses' = losses  BY DEF Restart
  <1>6. e = <<h, restarts + 1>>  OBVIOUS
  <1> HIDE DEF e
  <1>7. Fresh(m, e, h)  BY ONLY <1>2, h \in Hosts, NewNic, Zenon
  <1> HIDE DEF m
  <1>8. m \in Nics  BY ONLY <1>7, Zenon DEF Fresh
  <1>9. /\ nic' \in [Hosts -> Nics] /\ nic'[h] = m
        /\ \A g \in Hosts \ {h} : nic'[g] = nic[g]
    BY ONLY <1>1, <1>4, <1>8, h \in Hosts, Updated, Zenon
  <1> QED  BY ONLY <1>3, <1>4, <1>5, <1>6, <1>7, <1>9, Zenon DEF Restarts

\* The types.
LEMMA LanInit == Init => LanType
  <1> SUFFICES ASSUME Init  PROVE LanType
    OBVIOUS
  <1>1. \A h \in Hosts : <<h, 0>> \in Eths  BY DEF Eths
  <1>2. \A h \in Hosts : Fresh(NewNetworkInterface(<<h, 0>>, h), <<h, 0>>, h)
    BY ONLY <1>1, NewNic, Zenon
  <1>3. \A h \in Hosts : nic[h] = NewNetworkInterface(<<h, 0>>, h)  BY Zenon DEF Init
  <1>4. ASSUME NEW h \in Hosts  PROVE nic[h] \in Nics /\ nic[h].frames_out = <<>>
    <2>1. Fresh(nic[h], <<h, 0>>, h)  BY ONLY <1>2, <1>3, h \in Hosts, Zenon
    <2> QED  BY ONLY <2>1, Zenon DEF Fresh
  <1>5. nic \in [Hosts -> Nics]
    <2>1. nic = [h \in Hosts |-> nic[h]]  BY DEF Init
    <2> QED  BY ONLY <1>4, <2>1, SMTT(30)
  <1>6. wire \in [Hosts -> Seq(Frames)] /\ got \in [Hosts -> Seq(Nat)]  BY DEF Init
  <1>7. sent \in Seq([from : Hosts, to : Hosts])  BY DEF Init
  <1>8. losses \in Nat /\ restarts \in Nat  BY DEF Init
  <1> QED  BY ONLY <1>4, <1>5, <1>6, <1>7, <1>8, Zenon DEF LanType

LEMMA LanTypeStep == LanType /\ [Next]_vars => LanType'
  <1> SUFFICES ASSUME LanType, [Next]_vars  PROVE LanType'
    OBVIOUS
  <1>1. /\ nic \in [Hosts -> Nics] /\ wire \in [Hosts -> Seq(Frames)]
        /\ got \in [Hosts -> Seq(Nat)] /\ sent \in Seq([from : Hosts, to : Hosts])
        /\ losses \in Nat /\ restarts \in Nat
        /\ \A h \in Hosts : nic[h].frames_out = <<>>
    BY Zenon DEF LanType
  <1>2. ASSUME NEW h \in Hosts, NEW to \in Hosts, Write(h, to)  PROVE LanType'
    <2>1. PICK n : Writes(h, to, n)  BY ONLY LanType, <1>2, WriteIs, Zenon
    <2>2. Delivered(h, n, wire[h]) /\ got' = got /\ losses' = losses /\ restarts' = restarts
      BY ONLY <2>1, Zenon DEF Writes
    <2>3. sent' = Append(sent, [from |-> h, to |-> to])  BY ONLY <2>1, Zenon DEF Writes
    <2>4. sent' \in Seq([from : Hosts, to : Hosts])  BY <1>1, <2>3
    <2>5. /\ nic' \in [Hosts -> Nics] /\ wire' \in [Hosts -> Seq(Frames)]
          /\ \A g \in Hosts : nic'[g].frames_out = <<>>
      BY ONLY <2>2, Zenon DEF Delivered
    <2> QED  BY ONLY <1>1, <2>2, <2>4, <2>5, Zenon DEF LanType
  <1>3. ASSUME NEW h \in Hosts, Read(h)  PROVE LanType'
    <2>1. PICK r : Reads(h, r)  BY ONLY LanType, <1>3, ReadIs, Zenon
    <2>2. /\ Delivered(h, r.nic, Tail(wire[h])) /\ got' = [got EXCEPT ![h] = @ \o r.up]
          /\ sent' = sent /\ losses' = losses /\ restarts' = restarts
          /\ Receives(r, nic[h], Head(wire[h]))
      BY ONLY <2>1, Zenon DEF Reads
    <2>3. /\ nic' \in [Hosts -> Nics] /\ wire' \in [Hosts -> Seq(Frames)]
          /\ \A g \in Hosts : nic'[g].frames_out = <<>>
      BY ONLY <2>2, Zenon DEF Delivered
    <2> DEFINE f == Head(wire[h])
               u == r.up
    <2>4. u \in Seq(Nat)
      <3>1. u = <<>> \/ (f \in Ipv4s /\ u = <<f.dgram>>)  BY ONLY <2>2, Zenon DEF Receives
      <3>2. f \in Ipv4s => f.dgram \in Nat  BY DEF Ipv4s
      <3> HIDE DEF u, f
      <3>3. CASE u = <<>>  BY <3>3
      <3>4. CASE f \in Ipv4s /\ u = <<f.dgram>>
        <4> DEFINE d == f.dgram
        <4>1. d \in Nat /\ u = <<d>>  BY ONLY <3>2, <3>4, Zenon
        <4> HIDE DEF d
        <4> QED  BY ONLY <4>1, SMTT(30)
      <3> QED  BY ONLY <3>1, <3>3, <3>4, Zenon
    <2> HIDE DEF u
    <2>5. got' \in [Hosts -> Seq(Nat)]
      <3>1. got' = [got EXCEPT ![h] = got[h] \o u]  BY <2>2, Zenon DEF u
      <3>2. got[h] \o u \in Seq(Nat)  BY ONLY <1>1, <1>3, <2>4, SMTT(30)
      <3> QED  BY ONLY <1>1, <3>1, <3>2, SMTT(30)
    <2> QED  BY ONLY <1>1, <2>2, <2>3, <2>5, Zenon DEF LanType
  <1>4. ASSUME NEW h \in Hosts, Tick(h)  PROVE LanType'
    <2>1. Ticks(h)  BY ONLY LanType, <1>4, TickIs, Zenon
    <2>2. /\ nic' \in [Hosts -> Nics] /\ nic'[h].frames_out = nic[h].frames_out
          /\ \A g \in Hosts \ {h} : nic'[g] = nic[g]
          /\ wire' = wire /\ got' = got /\ sent' = sent /\ losses' = losses /\ restarts' = restarts
      BY ONLY <2>1, Zenon DEF Ticks, Grows
    <2>3. \A g \in Hosts : nic'[g].frames_out = <<>>  BY ONLY <1>1, <1>4, <2>2, Zenon
    <2> QED  BY ONLY <1>1, <2>2, <2>3, Zenon DEF LanType
  <1>5. ASSUME NEW h \in Hosts, Lose(h)  PROVE LanType'
    <2>1. Loses(h)  BY ONLY LanType, <1>5, LoseIs, Zenon
    <2>2. /\ wire' \in [Hosts -> Seq(Frames)] /\ losses' = losses + 1 /\ nic' = nic /\ got' = got
          /\ sent' = sent /\ restarts' = restarts
      BY ONLY <2>1, Zenon DEF Loses
    <2>3. losses' \in Nat  BY <1>1, <2>2
    <2> QED  BY ONLY <1>1, <2>2, <2>3, Zenon DEF LanType
  <1>6. ASSUME NEW h \in Hosts, Restart(h)  PROVE LanType'
    <2>1. Restarts(h)  BY ONLY LanType, <1>6, RestartIs, Zenon
    <2>2. /\ nic' \in [Hosts -> Nics] /\ nic'[h].frames_out = <<>>
          /\ \A g \in Hosts \ {h} : nic'[g] = nic[g]
          /\ wire' = wire /\ got' = got /\ sent' = sent /\ losses' = losses
          /\ restarts' = restarts + 1
      BY ONLY <2>1, Zenon DEF Restarts, Fresh
    <2>3. \A g \in Hosts : nic'[g].frames_out = <<>>  BY ONLY <1>1, <1>6, <2>2, Zenon
    <2>4. restarts' \in Nat  BY <1>1, <2>2
    <2> QED  BY ONLY <1>1, <2>2, <2>3, <2>4, Zenon DEF LanType
  <1>7. CASE UNCHANGED vars
    <2>1. /\ nic' = nic /\ wire' = wire /\ got' = got /\ sent' = sent /\ losses' = losses
          /\ restarts' = restarts
      BY <1>7 DEF vars
    <2> QED  BY ONLY <1>1, <2>1, Zenon DEF LanType
  <1>8. CASE Next  BY ONLY <1>2, <1>3, <1>4, <1>5, <1>6, <1>8, Zenon DEF Next
  <1> QED  BY <1>7, <1>8, Zenon

-----------------------------------------------------------------------------
\* The table of blocked requests.

Requests(frames, ip) == Cardinality({k \in 1 .. Len(frames) : IsRequest(frames[k], ip)})

\* What Requests counts; it follows from the theory of finite sets, below.
RequestsCounted ==
    \A frames, ip :
        /\ Len(frames) \in Nat => Requests(frames, ip) \in Nat
        /\ (\A k \in 1 .. Len(frames) : ~IsRequest(frames[k], ip)) => Requests(frames, ip) = 0
        /\ \A f : frames = <<f>> /\ IsRequest(f, ip) => Requests(frames, ip) = 1

AsksType == asks \in [Hosts -> [Hosts -> [Ages -> Nat]]]

\* The table of blocked requests and the young requests are the same.
Counted(h, ip) ==
    \A age \in Ages :
        asks[h][ip][age] = IF ip \in DOMAIN nic[h].blocking /\ nic[h].blocking[ip] = age
                           THEN 1 ELSE 0

FloodInv == LanType /\ AsksType /\ \A h \in Hosts, ip \in Hosts : Counted(h, ip)

\* h sent the frames fs, h is a time unit older, and h has forgotten.
Asking(h, fs) ==
    /\ AsksType'
    /\ \A g \in Hosts \ {h} : asks'[g] = asks[g]
    /\ \A ip \in Hosts : \A age \in Ages :
           asks'[h][ip][age] =
               IF age = 0 THEN asks[h][ip][0] + Requests(fs, ip) ELSE asks[h][ip][age]

Aging(h) ==
    /\ AsksType'
    /\ \A g \in Hosts \ {h} : asks'[g] = asks[g]
    /\ \A ip \in Hosts : \A age \in Ages :
           asks'[h][ip][age] = IF age = 0 THEN 0 ELSE asks[h][ip][age - 1]

Forgetting(h) ==
    /\ AsksType'
    /\ \A g \in Hosts \ {h} : asks'[g] = asks[g]
    /\ \A ip \in Hosts : \A age \in Ages : asks'[h][ip][age] = 0

LEMMA AsksSent ==
    ASSUME RequestsCounted, AsksType, NEW h \in Hosts, NEW n \in Nics, NEW w,
           Delivered(h, n, w)
    PROVE  Asking(h, n.frames_out)
  <1> DEFINE fs == n.frames_out
             row(ip) == [asks[h][ip] EXCEPT ![0] = @ + Requests(fs, ip)]
  <1>1. asks \in [Hosts -> [Hosts -> [Ages -> Nat]]]  BY Zenon DEF AsksType
  <1>2. asks' = Asked(h, fs)  BY Zenon DEF Delivered
  <1>3. asks' = [asks EXCEPT ![h] = [ip \in Hosts |-> row(ip)]]  BY <1>2, Zenon DEF Asked, Requests
  <1>4. Len(fs) \in Nat  BY NicFields
  <1>5. 0 \in Ages  BY InterfaceAssumption DEF Ages
  <1> HIDE DEF fs
  <1>6. \A ip \in Hosts : Requests(fs, ip) \in Nat  BY ONLY <1>4, RequestsCounted, Zenon DEF RequestsCounted
  <1>7. ASSUME NEW ip \in Hosts
        PROVE  /\ row(ip) \in [Ages -> Nat]
               /\ \A age \in Ages :
                      row(ip)[age] = IF age = 0 THEN asks[h][ip][0] + Requests(fs, ip)
                                                ELSE asks[h][ip][age]
    <2> DEFINE q == Requests(fs, ip)
               a == asks[h][ip]
    <2>1. q \in Nat /\ a \in [Ages -> Nat]  BY ONLY <1>1, <1>6, <1>7, h \in Hosts, SMTT(30)
    <2> HIDE DEF q, a
    <2>2. /\ [a EXCEPT ![0] = @ + q] \in [Ages -> Nat]
          /\ \A age \in Ages : [a EXCEPT ![0] = @ + q][age] = IF age = 0 THEN a[0] + q ELSE a[age]
      BY ONLY <2>1, <1>5, SMTT(30)
    <2> QED  BY ONLY <2>2, Zenon DEF q, a
  <1> HIDE DEF row
  <1>8. /\ asks' \in [Hosts -> [Hosts -> [Ages -> Nat]]]
        /\ \A g \in Hosts \ {h} : asks'[g] = asks[g]
        /\ \A ip \in Hosts : asks'[h][ip] = row(ip)
    BY ONLY <1>1, <1>3, <1>7, h \in Hosts, SMTT(30)
  <1> QED  BY ONLY <1>7, <1>8, Zenon DEF Asking, AsksType, fs

LEMMA AsksTick ==
    ASSUME AsksType, NEW h \in Hosts, Ticks(h)
    PROVE  Aging(h)
  <1> DEFINE row == Older(asks[h])
  <1>1. asks \in [Hosts -> [Hosts -> [Ages -> Nat]]]  BY Zenon DEF AsksType
  <1>2. asks' = [asks EXCEPT ![h] = row]  BY Zenon DEF Ticks
  <1>3. \A age \in Ages : age # 0 => age - 1 \in Ages  BY InterfaceAssumption DEF Ages
  <1>4. row \in [Hosts -> [Ages -> Nat]]  BY ONLY <1>1, <1>3, h \in Hosts, SMTT(30) DEF Older
  <1>5. \A ip \in Hosts : \A age \in Ages :
            row[ip][age] = IF age = 0 THEN 0 ELSE asks[h][ip][age - 1]
    BY DEF Older
  <1> HIDE DEF row
  <1>6. /\ asks' \in [Hosts -> [Hosts -> [Ages -> Nat]]] /\ asks'[h] = row
        /\ \A g \in Hosts \ {h} : asks'[g] = asks[g]
    BY ONLY <1>1, <1>2, <1>4, h \in Hosts, Updated, Zenon
  <1> QED  BY ONLY <1>5, <1>6, Zenon DEF Aging, AsksType

LEMMA AsksRestart ==
    ASSUME AsksType, NEW h \in Hosts, Restarts(h)
    PROVE  Forgetting(h)
  <1>1. asks \in [Hosts -> [Hosts -> [Ages -> Nat]]]  BY Zenon DEF AsksType
  <1>2. asks' = [asks EXCEPT ![h] = NoAsks]  BY Zenon DEF Restarts
  <1>3. /\ NoAsks \in [Hosts -> [Ages -> Nat]]
        /\ \A ip \in Hosts : \A age \in Ages : NoAsks[ip][age] = 0
    BY DEF NoAsks
  <1>4. /\ asks' \in [Hosts -> [Hosts -> [Ages -> Nat]]] /\ asks'[h] = NoAsks
        /\ \A g \in Hosts \ {h} : asks'[g] = asks[g]
    BY ONLY <1>1, <1>2, <1>3, h \in Hosts, Updated, Zenon
  <1> QED  BY ONLY <1>3, <1>4, Zenon DEF Forgetting, AsksType

LEMMA AsksTypeStep ==
    ASSUME RequestsCounted, LanType, AsksType, [Next]_vars
    PROVE  AsksType'
  <1>1. ASSUME asks' = asks  PROVE AsksType'  BY ONLY AsksType, <1>1, Zenon DEF AsksType
  <1>2. ASSUME NEW h \in Hosts, NEW to \in Hosts, Write(h, to)  PROVE AsksType'
    <2>1. PICK n : Writes(h, to, n)  BY ONLY LanType, <1>2, WriteIs, Zenon
    <2>2. Asking(h, n.frames_out)
      <3>1. n \in Nics /\ Delivered(h, n, wire[h])  BY ONLY <2>1, Zenon DEF Writes, Sends
      <3> QED  BY ONLY RequestsCounted, AsksType, h \in Hosts, <3>1, AsksSent, Zenon
    <2> QED  BY ONLY <2>2, Zenon DEF Asking
  <1>3. ASSUME NEW h \in Hosts, Read(h)  PROVE AsksType'
    <2>1. PICK r : Reads(h, r)  BY ONLY LanType, <1>3, ReadIs, Zenon
    <2>2. Asking(h, r.nic.frames_out)
      <3>1. r.nic \in Nics /\ Delivered(h, r.nic, Tail(wire[h]))
        BY ONLY <2>1, Zenon DEF Reads, Received
      <3> QED  BY ONLY RequestsCounted, AsksType, h \in Hosts, <3>1, AsksSent, Zenon
    <2> QED  BY ONLY <2>2, Zenon DEF Asking
  <1>4. ASSUME NEW h \in Hosts, Tick(h)  PROVE AsksType'
    <2>1. Ticks(h)  BY ONLY LanType, <1>4, TickIs, Zenon
    <2>2. Aging(h)  BY ONLY AsksType, h \in Hosts, <2>1, AsksTick, Zenon
    <2> QED  BY ONLY <2>2, Zenon DEF Aging
  <1>5. ASSUME NEW h \in Hosts, Lose(h)  PROVE AsksType'
    <2>1. asks' = asks  BY <1>5 DEF Lose
    <2> QED  BY ONLY <1>1, <2>1
  <1>6. ASSUME NEW h \in Hosts, Restart(h)  PROVE AsksType'
    <2>1. Restarts(h)  BY ONLY LanType, <1>6, RestartIs, Zenon
    <2>2. Forgetting(h)  BY ONLY AsksType, h \in Hosts, <2>1, AsksRestart, Zenon
    <2> QED  BY ONLY <2>2, Zenon DEF Forgetting
  <1>7. CASE UNCHANGED vars
    <2>1. asks' = asks  BY <1>7 DEF vars
    <2> QED  BY ONLY <1>1, <2>1
  <1>8. CASE Next  BY ONLY <1>2, <1>3, <1>4, <1>5, <1>6, <1>8, Zenon DEF Next
  <1> QED  BY <1>7, <1>8, Zenon

LEMMA FloodInit == Init => FloodInv
  <1> SUFFICES ASSUME Init  PROVE FloodInv
    OBVIOUS
  <1>1. LanType  BY LanInit, Zenon
  <1>2. \A h \in Hosts : DOMAIN nic[h].blocking = {}
    BY DEF Init, NewNetworkInterface, EmptyMap
  <1>3. \A h \in Hosts, ip \in Hosts : \A age \in Ages : asks[h][ip][age] = 0
    BY DEF Init, NoAsks
  <1>4. \A h \in Hosts, ip \in Hosts : Counted(h, ip)  BY ONLY <1>2, <1>3, Zenon DEF Counted
  <1>5. AsksType  BY DEF Init, NoAsks, AsksType
  <1> QED  BY ONLY <1>1, <1>4, <1>5, Zenon DEF FloodInv

LEMMA FloodWrite ==
    ASSUME RequestsCounted, LanType, AsksType, NEW h \in Hosts, NEW to \in Hosts, NEW n,
           Writes(h, to, n), Asking(h, n.frames_out), NEW ip \in Hosts, Counted(h, ip)
    PROVE  Counted(h, ip)'
  <1> DEFINE p == nic[h]
             fs == n.frames_out
             a == ArpFrame(p, ETHERNET_BROADCAST, "REQUEST", to)
             f == Ipv4Frame(p, p.mapping[to].eth, Len(sent) + 1)
  <1>1. p \in Nics /\ p.frames_out = <<>> /\ asks \in [Hosts -> [Hosts -> [Ages -> Nat]]]
    BY DEF LanType, AsksType
  <1>2. /\ nic'[h].blocking = n.blocking
        /\ \A age \in Ages : asks'[h][ip][age] =
               IF age = 0 THEN asks[h][ip][0] + Requests(fs, ip) ELSE asks[h][ip][age]
    BY ONLY ip \in Hosts, Writes(h, to, n), Asking(h, n.frames_out), Zenon DEF Writes, Delivered, Asking
  <1>3. /\ to \in DOMAIN p.mapping =>
               n.blocking = p.blocking /\ fs = Append(p.frames_out, f)
        /\ to \notin DOMAIN p.mapping =>
               IF to \in DOMAIN p.blocking
               THEN n.blocking = p.blocking /\ fs = p.frames_out
               ELSE n.blocking = InsertIfAbsent(p.blocking, to, 0) /\ fs = Append(p.frames_out, a)
    BY ONLY Writes(h, to, n), Zenon DEF Writes, Sends
  <1>4. p.blocking \in Blockings  BY <1>1, NicFields
  <1>5. ~IsRequest(f, ip)  BY DEF IsRequest, Ipv4Frame
  <1>6. IsRequest(a, ip) <=> ip = to  BY DEF IsRequest, ArpFrame
  <1>7. 0 \in Ages /\ asks[h][ip] \in [Ages -> Nat]  BY <1>1, InterfaceAssumption DEF Ages
  <1> HIDE DEF p, fs, a, f
  <1>8. Append(<<>>, f) = <<f>> /\ Append(<<>>, a) = <<a>>  OBVIOUS
  <1>9. ASSUME n.blocking = p.blocking, Requests(fs, ip) = 0  PROVE Counted(h, ip)'
    <2>1. \A age \in Ages : asks'[h][ip][age] = asks[h][ip][age]  BY ONLY <1>2, <1>7, <1>9, SMTT(30)
    <2>2. nic'[h].blocking = nic[h].blocking  BY ONLY <1>2, <1>9, Zenon DEF p
    <2> QED  BY ONLY <2>1, <2>2, Counted(h, ip), Zenon DEF Counted
  <1>10. CASE to \in DOMAIN p.mapping
    <2>1. n.blocking = p.blocking /\ fs = <<f>>  BY ONLY <1>1, <1>3, <1>8, <1>10, Zenon
    <2>2. \A k \in 1 .. Len(fs) : fs[k] = f  BY ONLY <2>1, SMTT(30)
    <2>3. \A k \in 1 .. Len(fs) : ~IsRequest(fs[k], ip)  BY ONLY <2>2, <1>5, Zenon
    <2>4. Requests(fs, ip) = 0  BY ONLY <2>3, RequestsCounted, Zenon DEF RequestsCounted
    <2> QED  BY ONLY <2>1, <2>4, <1>9, Zenon
  <1>11. CASE to \notin DOMAIN p.mapping /\ to \in DOMAIN p.blocking
    <2>1. n.blocking = p.blocking /\ fs = <<>>  BY ONLY <1>1, <1>3, <1>11, Zenon
    <2>2. \A k \in 1 .. Len(fs) : ~IsRequest(fs[k], ip)  BY ONLY <2>1, SMTT(30)
    <2>3. Requests(fs, ip) = 0  BY ONLY <2>2, RequestsCounted, Zenon DEF RequestsCounted
    <2> QED  BY ONLY <2>1, <2>3, <1>9, Zenon
  <1>12. CASE to \notin DOMAIN p.mapping /\ to \notin DOMAIN p.blocking
    <2>1. n.blocking = InsertIfAbsent(p.blocking, to, 0) /\ fs = <<a>>
      BY ONLY <1>1, <1>3, <1>8, <1>12, Zenon
    <2>2. /\ DOMAIN n.blocking = DOMAIN p.blocking \cup {to}
          /\ \A k \in DOMAIN p.blocking : n.blocking[k] = p.blocking[k]
          /\ n.blocking[to] = 0
      <3> DEFINE b == p.blocking
                 t == n.blocking
      <3>1. b \in Blockings /\ t = InsertIfAbsent(b, to, 0) /\ to \notin DOMAIN b
        BY ONLY <2>1, <1>4, <1>12, Zenon
      <3> HIDE DEF b, t
      <3>2. /\ DOMAIN t = DOMAIN b \cup {to} /\ (\A k \in DOMAIN b : t[k] = b[k]) /\ t[to] = 0
        BY ONLY <3>1, SMTT(30) DEF InsertIfAbsent
      <3> QED  BY ONLY <3>2, Zenon DEF b, t
    <2>3. CASE ip = to
      <3>1. Requests(fs, ip) = 1  BY ONLY <2>1, <2>3, <1>6, RequestsCounted, Zenon DEF RequestsCounted
      <3>2. \A age \in Ages : asks[h][ip][age] = 0  BY <2>3, <1>12, Zenon DEF Counted, p
      <3>3. \A age \in Ages : asks'[h][ip][age] = IF age = 0 THEN 1 ELSE 0
        BY ONLY <1>2, <1>7, <3>1, <3>2, SMTT(30)
      <3>4. ip \in DOMAIN nic'[h].blocking /\ nic'[h].blocking[ip] = 0
        BY ONLY <1>2, <2>2, <2>3, Zenon
      <3>5. \A age \in Ages : asks'[h][ip][age] =
                IF ip \in DOMAIN nic'[h].blocking /\ nic'[h].blocking[ip] = age THEN 1 ELSE 0
        BY ONLY <3>3, <3>4, SMTT(30)
      <3> QED  BY ONLY <3>5, Zenon DEF Counted
    <2>4. CASE ip # to
      <3>1. \A k \in 1 .. Len(fs) : fs[k] = a  BY ONLY <2>1, SMTT(30)
      <3>2. \A k \in 1 .. Len(fs) : ~IsRequest(fs[k], ip)  BY ONLY <3>1, <2>4, <1>6, Zenon
      <3>3. Requests(fs, ip) = 0  BY ONLY <3>2, RequestsCounted, Zenon DEF RequestsCounted
      <3>4. \A age \in Ages : asks'[h][ip][age] = asks[h][ip][age]
        BY ONLY <1>2, <1>7, <3>3, SMTT(30)
      <3>5. /\ ip \in DOMAIN nic'[h].blocking <=> ip \in DOMAIN nic[h].blocking
            /\ ip \in DOMAIN nic[h].blocking => nic'[h].blocking[ip] = nic[h].blocking[ip]
        BY ONLY <1>2, <2>2, <2>4, Zenon DEF p
      <3> QED  BY ONLY <3>4, <3>5, Counted(h, ip), Zenon DEF Counted
    <2> QED  BY <2>3, <2>4
  <1> QED  BY <1>10, <1>11, <1>12, Zenon

LEMMA FloodTick ==
    ASSUME LanType, NEW h \in Hosts, Ticks(h), Aging(h), NEW ip \in Hosts, Counted(h, ip)
    PROVE  Counted(h, ip)'
  <1> DEFINE p == nic[h].blocking
             q == nic'[h].blocking
             a == asks[h][ip]
             b == asks'[h][ip]
  <1>1. /\ DOMAIN q = {i \in DOMAIN p : p[i] + 1 < ARP_REQ_BLOCKING_TIME}
        /\ \A i \in DOMAIN q : q[i] = p[i] + 1
        /\ \A age \in Ages : b[age] = IF age = 0 THEN 0 ELSE a[age - 1]
    BY ONLY ip \in Hosts, Ticks(h), Aging(h), Zenon DEF Ticks, Grows, Aging
  <1>2. \A age \in Ages : a[age] = IF ip \in DOMAIN p /\ p[ip] = age THEN 1 ELSE 0
    BY Zenon DEF Counted
  <1>3. ip \in DOMAIN p => p[ip] \in Ages
    <2>1. nic[h] \in Nics  BY DEF LanType
    <2> QED  BY <2>1, NicFields
  <1> HIDE DEF p, q, a, b
  <1>4. ASSUME NEW age \in Ages
        PROVE  b[age] = IF ip \in DOMAIN q /\ q[ip] = age THEN 1 ELSE 0
    <2>1. Ages = 0 .. ARP_REQ_BLOCKING_TIME - 1 /\ ARP_REQ_BLOCKING_TIME \in Nat \ {0}
      BY InterfaceAssumption DEF Ages
    <2>2. ip \in DOMAIN q <=> ip \in DOMAIN p /\ p[ip] + 1 < ARP_REQ_BLOCKING_TIME
      BY ONLY <1>1, Zenon
    <2>3. ip \in DOMAIN q => q[ip] = p[ip] + 1  BY ONLY <1>1, Zenon
    <2>4. CASE age = 0
      <3>1. b[age] = 0  BY <1>1, <2>4
      <3>2. ip \in DOMAIN q => q[ip] # age  BY ONLY <2>1, <2>2, <2>3, <2>4, <1>3, SMTT(30)
      <3> QED  BY ONLY <3>1, <3>2, Zenon
    <2>5. CASE age # 0
      <3>1. age - 1 \in Ages  BY ONLY <2>1, <2>5, <1>4, SMTT(30)
      <3>2. b[age] = a[age - 1]  BY ONLY <1>1, <1>4, <2>5, SMTT(30)
      <3>3. a[age - 1] = IF ip \in DOMAIN p /\ p[ip] = age - 1 THEN 1 ELSE 0  BY ONLY <1>2, <3>1, Zenon
      <3>4. (ip \in DOMAIN p /\ p[ip] = age - 1) <=> (ip \in DOMAIN q /\ q[ip] = age)
        BY ONLY <2>1, <2>2, <2>3, <1>3, <1>4, SMTT(30)
      <3> QED  BY ONLY <3>2, <3>3, <3>4, Zenon
    <2> QED  BY <2>4, <2>5
  <1> QED  BY ONLY <1>4, Zenon DEF Counted, q, b

LEMMA FloodStep == RequestsCounted /\ FloodInv /\ [Next]_vars => FloodInv'
  <1> SUFFICES ASSUME RequestsCounted, FloodInv, [Next]_vars  PROVE FloodInv'
    OBVIOUS
  <1>1. LanType /\ AsksType /\ \A h \in Hosts, ip \in Hosts : Counted(h, ip)
    BY Zenon DEF FloodInv
  <1>2. LanType' /\ AsksType'
    <2>1. LanType'  BY ONLY <1>1, [Next]_vars, LanTypeStep, Zenon
    <2>2. AsksType'  BY ONLY RequestsCounted, <1>1, [Next]_vars, AsksTypeStep, Zenon
    <2> QED  BY <2>1, <2>2, Zenon
  <1>3. asks \in [Hosts -> [Hosts -> [Ages -> Nat]]]  BY <1>1, Zenon DEF AsksType
  <1>4. SUFFICES ASSUME NEW g \in Hosts, NEW ip \in Hosts  PROVE Counted(g, ip)'
    <2>1. \A g \in Hosts, ip \in Hosts : Counted(g, ip)'  BY <1>4, Zenon
    <2> QED  BY ONLY <1>2, <2>1, Zenon DEF FloodInv
  <1>5. Counted(g, ip)  BY <1>1, Zenon
  <1>6. ASSUME nic'[g] = nic[g], asks'[g] = asks[g]  PROVE Counted(g, ip)'
    BY ONLY <1>5, <1>6, Zenon DEF Counted
  <1>7. ASSUME NEW h \in Hosts, NEW to \in Hosts, Write(h, to)  PROVE Counted(g, ip)'
    <2>1. PICK n : Writes(h, to, n)  BY ONLY <1>1, <1>7, WriteIs, Zenon
    <2>4. Asking(h, n.frames_out)
      <3>1. n \in Nics /\ Delivered(h, n, wire[h])  BY ONLY <2>1, Zenon DEF Writes, Sends
      <3> QED  BY ONLY RequestsCounted, <1>1, <1>7, <3>1, AsksSent, Zenon
    <2>2. CASE g = h  BY ONLY <1>1, <1>5, <1>4, <2>1, <2>2, <2>4, <1>7, RequestsCounted, FloodWrite, Zenon
    <2>3. CASE g # h
      <3>1. nic'[g] = nic[g] /\ asks'[g] = asks[g]
        BY ONLY <1>4, <2>1, <2>3, <2>4, Zenon DEF Writes, Delivered, Asking
      <3> QED  BY ONLY <3>1, <1>6
    <2> QED  BY <2>2, <2>3
  <1>8. ASSUME NEW h \in Hosts, Read(h)  PROVE Counted(g, ip)'
    <2>1. PICK r : Reads(h, r)  BY ONLY <1>1, <1>8, ReadIs, Zenon
    <2>4. Asking(h, r.nic.frames_out)
      <3>1. r.nic \in Nics /\ Delivered(h, r.nic, Tail(wire[h]))
        BY ONLY <2>1, Zenon DEF Reads, Received
      <3> QED  BY ONLY RequestsCounted, <1>1, <1>8, <3>1, AsksSent, Zenon
    <2>2. CASE g = h
      <3>1. /\ nic'[h].blocking = r.nic.blocking
            /\ \A age \in Ages : asks'[h][ip][age] =
                   IF age = 0 THEN asks[h][ip][0] + Requests(r.nic.frames_out, ip)
                              ELSE asks[h][ip][age]
        BY ONLY <1>4, <2>1, <2>4, Zenon DEF Reads, Delivered, Asking
      <3>2. /\ r.nic.blocking = nic[h].blocking
            /\ \A k \in 1 .. Len(r.nic.frames_out) : ~IsRequest(r.nic.frames_out[k], ip)
        BY ONLY <2>1, Zenon DEF Reads, Received
      <3>3. Requests(r.nic.frames_out, ip) = 0  BY ONLY <3>2, RequestsCounted, Zenon DEF RequestsCounted
      <3>4. \A age \in Ages : asks'[h][ip][age] = asks[h][ip][age]
        BY ONLY <1>3, <1>4, <1>8, <3>1, <3>3, SMTT(30)
      <3>5. Counted(h, ip)'
        <4>1. nic'[h].blocking = nic[h].blocking /\ Counted(h, ip)  BY ONLY <1>5, <2>2, <3>1, <3>2, Zenon
        <4> QED  BY ONLY <4>1, <3>4, Zenon DEF Counted
      <3> QED  BY <3>5, <2>2, Zenon
    <2>3. CASE g # h
      <3>1. nic'[g] = nic[g] /\ asks'[g] = asks[g]
        BY ONLY <1>4, <2>1, <2>3, <2>4, Zenon DEF Reads, Delivered, Asking
      <3> QED  BY ONLY <3>1, <1>6
    <2> QED  BY <2>2, <2>3
  <1>9. ASSUME NEW h \in Hosts, Tick(h)  PROVE Counted(g, ip)'
    <2>1. Ticks(h)  BY ONLY <1>1, <1>9, TickIs, Zenon
    <2>4. Aging(h)  BY ONLY <1>1, <1>9, <2>1, AsksTick, Zenon
    <2>2. CASE g = h  BY ONLY <1>1, <1>5, <1>4, <2>1, <2>2, <2>4, <1>9, FloodTick, Zenon
    <2>3. CASE g # h
      <3>1. nic'[g] = nic[g] /\ asks'[g] = asks[g]  BY ONLY <1>4, <2>1, <2>3, <2>4, Zenon DEF Ticks, Aging
      <3> QED  BY ONLY <3>1, <1>6
    <2> QED  BY <2>2, <2>3
  <1>10. ASSUME NEW h \in Hosts, Lose(h)  PROVE Counted(g, ip)'
    <2>1. Loses(h)  BY ONLY <1>1, <1>10, LoseIs, Zenon
    <2>2. nic'[g] = nic[g] /\ asks'[g] = asks[g]  BY ONLY <2>1, Zenon DEF Loses
    <2> QED  BY ONLY <2>2, <1>6
  <1>11. ASSUME NEW h \in Hosts, Restart(h)  PROVE Counted(g, ip)'
    <2>1. Restarts(h)  BY ONLY <1>1, <1>11, RestartIs, Zenon
    <2>4. Forgetting(h)  BY ONLY <1>1, <1>11, <2>1, AsksRestart, Zenon
    <2>2. CASE g = h
      <3>1. DOMAIN nic'[h].blocking = {} /\ \A age \in Ages : asks'[h][ip][age] = 0
        BY ONLY <1>4, <2>1, <2>4, Zenon DEF Restarts, Fresh, Forgetting
      <3> QED  BY ONLY <2>2, <3>1, Zenon DEF Counted
    <2>3. CASE g # h
      <3>1. nic'[g] = nic[g] /\ asks'[g] = asks[g]  BY ONLY <1>4, <2>1, <2>3, <2>4, Zenon DEF Restarts, Forgetting
      <3> QED  BY ONLY <3>1, <1>6
    <2> QED  BY <2>2, <2>3
  <1>12. CASE UNCHANGED vars
    <2>1. nic'[g] = nic[g] /\ asks'[g] = asks[g]  BY <1>12 DEF vars
    <2> QED  BY ONLY <2>1, <1>6
  <1>13. CASE Next  BY ONLY <1>7, <1>8, <1>9, <1>10, <1>11, <1>13, Zenon DEF Next
  <1> QED  BY <1>12, <1>13, Zenon

-----------------------------------------------------------------------------
\* The datagrams of a wire that loses its head or to which frames are added.

TailOf(t, w) ==
    /\ t \in Seq(Frames)
    /\ \A k \in 1 .. Len(t) : \E j \in 1 .. Len(w) : t[k] = w[j]
    /\ Load(t) \subseteq Load(w)
    /\ \A d \in Load(w) : d \in Load(t) \/ (Head(w).type = "IPv4" /\ Head(w).dgram = d)
    /\ Once(w) => Once(t)
    /\ Once(w) /\ Head(w).type = "IPv4" => Head(w).dgram \notin Load(t)
    /\ Head(w).type = "IPv4" => Head(w).dgram \in Load(w)
    /\ \E j \in 1 .. Len(w) : Head(w) = w[j]

LEMMA TailLoad ==
    ASSUME NEW w \in Seq(Frames), w # <<>>, NEW t, t = Tail(w)
    PROVE  TailOf(t, w)
  <1> DEFINE f == Head(w)
  <1>1. /\ t \in Seq(Frames) /\ Len(w) \in Nat /\ Len(t) \in Nat /\ Len(w) = Len(t) + 1
        /\ f = w[1] /\ \A k \in 1 .. Len(t) : t[k] = w[k + 1]
    OBVIOUS
  <1> HIDE DEF f
  <1>2. 1 \in 1 .. Len(w) /\ \A k \in 1 .. Len(t) : k + 1 \in 1 .. Len(w)  BY ONLY <1>1, SMTT(30)
  <1>3. \A j \in 1 .. Len(w) : j = 1 \/ (j - 1 \in 1 .. Len(t) /\ w[j] = t[j - 1])
    BY ONLY <1>1, SMTT(30)
  <1>4. \A k \in Loads(t) : k \in 1 .. Len(t) /\ k + 1 \in Loads(w) /\ t[k] = w[k + 1]
    BY ONLY <1>1, <1>2, Zenon DEF Loads
  <1>5. Load(t) \subseteq Load(w)
    <2>1. \A d \in Load(t) : \E k \in Loads(w) : d = w[k].dgram  BY ONLY <1>4, Zenon DEF Load
    <2> QED  BY ONLY <2>1, Zenon DEF Load
  <1>6. \A d \in Load(w) : d \in Load(t) \/ (f.type = "IPv4" /\ f.dgram = d)
    <2> TAKE d \in Load(w)
    <2>1. PICK j \in Loads(w) : d = w[j].dgram  BY Zenon DEF Load
    <2>2. j \in 1 .. Len(w) /\ w[j].type = "IPv4"  BY Zenon DEF Loads
    <2>3. CASE j = 1  BY ONLY <1>1, <2>1, <2>2, <2>3, Zenon
    <2>4. CASE j - 1 \in 1 .. Len(t) /\ w[j] = t[j - 1]
      <3>1. j - 1 \in Loads(t) /\ d = t[j - 1].dgram  BY ONLY <2>1, <2>2, <2>4, Zenon DEF Loads
      <3> QED  BY ONLY <3>1, Zenon DEF Load
    <2> QED  BY ONLY <1>3, <2>2, <2>3, <2>4, Zenon
  <1>7. Once(w) => Once(t)
    <2> SUFFICES ASSUME Once(w), NEW i \in Loads(t), NEW j \in Loads(t), t[i].dgram = t[j].dgram
                 PROVE  i = j
      BY Zenon DEF Once
    <2>1. i + 1 \in Loads(w) /\ j + 1 \in Loads(w) /\ w[i + 1].dgram = w[j + 1].dgram
      BY <1>4, Zenon
    <2>2. i + 1 = j + 1  BY <2>1, Zenon DEF Once
    <2>3. i \in 1 .. Len(t) /\ j \in 1 .. Len(t)  BY <1>4, Zenon
    <2> QED  BY ONLY <1>1, <2>2, <2>3, SMTT(30)
  <1>8. f.type = "IPv4" => 1 \in Loads(w)  BY ONLY <1>1, <1>2, Zenon DEF Loads
  <1>9. f.type = "IPv4" => f.dgram \in Load(w)  BY ONLY <1>1, <1>8, Zenon DEF Load
  <1>10. ASSUME Once(w), f.type = "IPv4", f.dgram \in Load(t)  PROVE FALSE
    <2>1. PICK k \in Loads(t) : f.dgram = t[k].dgram  BY <1>10, Zenon DEF Load
    <2>2. k \in 1 .. Len(t) /\ k + 1 \in Loads(w) /\ w[1].dgram = w[k + 1].dgram
      BY ONLY <1>1, <1>4, <2>1, Zenon
    <2>3. k + 1 = 1  BY ONLY <1>8, <1>10, <2>2, Zenon DEF Once
    <2> QED  BY ONLY <1>1, <2>2, <2>3, SMTT(30)
  <1>11. \A k \in 1 .. Len(t) : \E j \in 1 .. Len(w) : t[k] = w[j]  BY ONLY <1>1, <1>2, Zenon
  <1>12. \E j \in 1 .. Len(w) : f = w[j]  BY ONLY <1>1, <1>2, Zenon
  <1> QED  BY ONLY <1>1, <1>5, <1>6, <1>7, <1>9, <1>10, <1>11, <1>12, Zenon DEF TailOf, f

Joined(w, v, f) ==
    /\ Load(w) = Load(v) \cup Load(f)
    /\ Once(v) /\ Once(f) /\ Load(v) \cap Load(f) = {} => Once(w)
    /\ \A k \in 1 .. Len(w) : \/ \E j \in 1 .. Len(v) : w[k] = v[j]
                              \/ \E j \in 1 .. Len(f) : w[k] = f[j]

LEMMA JoinLoad ==
    ASSUME NEW v \in Seq(Frames), NEW f \in Seq(Frames), NEW w, w = v \o f
    PROVE  Joined(w, v, f)
  <1> DEFINE n == Len(v)
  <1>1. /\ n \in Nat /\ Len(f) \in Nat /\ Len(w) = n + Len(f)
        /\ \A k \in 1 .. n : w[k] = v[k]
        /\ \A k \in 1 .. Len(f) : w[n + k] = f[k]
    OBVIOUS
  <1>2. n = Len(v)  OBVIOUS
  <1> HIDE DEF n
  <1>3. /\ \A k \in 1 .. n : k \in 1 .. Len(w)
        /\ \A k \in 1 .. Len(f) : n + k \in 1 .. Len(w)
        /\ \A k \in 1 .. Len(w) : \/ k \in 1 .. n
                                  \/ k - n \in 1 .. Len(f) /\ n + (k - n) = k
    BY ONLY <1>1, SMTT(30)
  <1>4. \A k \in Loads(v) : k \in 1 .. n /\ k \in Loads(w) /\ w[k] = v[k]
    BY ONLY <1>1, <1>2, <1>3, Zenon DEF Loads
  <1>5. \A k \in Loads(f) : k \in 1 .. Len(f) /\ n + k \in Loads(w) /\ w[n + k] = f[k]
    BY ONLY <1>1, <1>3, Zenon DEF Loads
  <1>6. ASSUME NEW k \in Loads(w)
        PROVE  \/ k \in Loads(v) /\ w[k] = v[k]
               \/ k - n \in Loads(f) /\ w[k] = f[k - n] /\ n + (k - n) = k
    <2>1. k \in 1 .. Len(w) /\ w[k].type = "IPv4"  BY ONLY <1>6, Zenon DEF Loads
    <2>2. CASE k \in 1 .. n  BY ONLY <1>1, <1>2, <2>1, <2>2, Zenon DEF Loads
    <2>3. CASE k - n \in 1 .. Len(f) /\ n + (k - n) = k
      <3>1. w[k] = f[k - n]
        <4>1. w[n + (k - n)] = f[k - n]  BY ONLY <1>1, <2>3, Zenon
        <4> QED  BY ONLY <4>1, <2>3, Zenon
      <3> QED  BY ONLY <2>1, <2>3, <3>1, Zenon DEF Loads
    <2> QED  BY ONLY <1>3, <2>1, <2>2, <2>3, Zenon
  <1>7. Load(w) = Load(v) \cup Load(f)
    <2>1. Load(v) \subseteq Load(w)
      <3>1. \A d \in Load(v) : \E k \in Loads(w) : d = w[k].dgram  BY ONLY <1>4, Zenon DEF Load
      <3> QED  BY ONLY <3>1, Zenon DEF Load
    <2>2. Load(f) \subseteq Load(w)
      <3>1. \A d \in Load(f) : \E k \in Loads(w) : d = w[k].dgram  BY ONLY <1>5, Zenon DEF Load
      <3> QED  BY ONLY <3>1, Zenon DEF Load
    <2>3. ASSUME NEW d \in Load(w)  PROVE d \in Load(v) \/ d \in Load(f)
      <3>1. PICK k \in Loads(w) : d = w[k].dgram  BY Zenon DEF Load
      <3> QED  BY ONLY <1>6, <3>1, Zenon DEF Load
    <2> QED  BY <2>1, <2>2, <2>3, Zenon
  <1>8. ASSUME Once(v), Once(f), Load(v) \cap Load(f) = {}  PROVE Once(w)
    <2> SUFFICES ASSUME NEW i \in Loads(w), NEW j \in Loads(w), w[i].dgram = w[j].dgram
                 PROVE  i = j
      BY Zenon DEF Once
    <2>1. \A k \in Loads(v) : v[k].dgram \in Load(v)  BY Zenon DEF Load
    <2>2. \A k \in Loads(f) : f[k].dgram \in Load(f)  BY Zenon DEF Load
    <2>3. CASE i \in Loads(v) /\ w[i] = v[i] /\ j \in Loads(v) /\ w[j] = v[j]
      BY <1>8, <2>3, Zenon DEF Once
    <2>4. CASE /\ i - n \in Loads(f) /\ w[i] = f[i - n] /\ n + (i - n) = i
               /\ j - n \in Loads(f) /\ w[j] = f[j - n] /\ n + (j - n) = j
      <3>1. i - n = j - n  BY <1>8, <2>4, Zenon DEF Once
      <3> QED  BY ONLY <2>4, <3>1, Zenon
    <2>5. CASE i \in Loads(v) /\ w[i] = v[i] /\ j - n \in Loads(f) /\ w[j] = f[j - n]
      <3>1. w[i].dgram \in Load(v) /\ w[i].dgram \in Load(f)  BY <2>1, <2>2, <2>5, Zenon
      <3> QED  BY <1>8, <3>1, Zenon
    <2>6. CASE j \in Loads(v) /\ w[j] = v[j] /\ i - n \in Loads(f) /\ w[i] = f[i - n]
      <3>1. w[i].dgram \in Load(v) /\ w[i].dgram \in Load(f)  BY <2>1, <2>2, <2>6, Zenon
      <3> QED  BY <1>8, <3>1, Zenon
    <2> QED  BY <1>6, <2>3, <2>4, <2>5, <2>6, Zenon
  <1>9. ASSUME NEW k \in 1 .. Len(w)
        PROVE  (\E j \in 1 .. Len(v) : w[k] = v[j]) \/ (\E j \in 1 .. Len(f) : w[k] = f[j])
    <2>1. CASE k \in 1 .. n  BY ONLY <1>1, <1>2, <2>1, Zenon
    <2>2. CASE k - n \in 1 .. Len(f) /\ n + (k - n) = k
      <3>1. w[n + (k - n)] = f[k - n]  BY ONLY <1>1, <2>2, Zenon
      <3> QED  BY ONLY <3>1, <2>2, Zenon
    <2> QED  BY ONLY <1>3, <1>9, <2>1, <2>2, Zenon
  <1> QED  BY ONLY <1>7, <1>8, <1>9, Zenon DEF Joined

LEMMA LoadNone ==
    ASSUME NEW w, \A k \in 1 .. Len(w) : w[k].type # "IPv4"
    PROVE  Load(w) = {} /\ Once(w)
  <1>1. Loads(w) = {}  BY Zenon DEF Loads
  <1> QED  BY <1>1, Zenon DEF Load, Once

LEMMA LoadOne ==
    ASSUME NEW f, f.type = "IPv4", NEW w, w = <<f>>
    PROVE  Load(w) = {f.dgram} /\ Once(w)
  <1>1. Len(w) = 1 /\ w[1] = f /\ 1 .. 1 = {1}  OBVIOUS
  <1>2. Loads(w) = {1}  BY ONLY <1>1, f.type = "IPv4", Zenon DEF Loads
  <1> QED  BY ONLY <1>1, <1>2, Zenon DEF Load, Once

Appended(q, p, d) == Distinct(q) /\ Waits(q) = Waits(p) \cup {d}

LEMMA WaitsAppend ==
    ASSUME NEW p \in Seq(Entries), Distinct(p), NEW e \in Entries, e.dgram \notin Waits(p),
           NEW q, q = Append(p, e)
    PROVE  Appended(q, p, e.dgram)
  <1> DEFINE n == Len(p)
             d == e.dgram
  <1>1. /\ n \in Nat /\ Len(q) = n + 1 /\ q[n + 1] = e
        /\ \A k \in 1 .. n : q[k] = p[k]
    OBVIOUS
  <1>2. n = Len(p) /\ d = e.dgram /\ d \notin Waits(p)  OBVIOUS
  <1> HIDE DEF n, d
  <1>3. /\ n + 1 \in 1 .. Len(q) /\ \A k \in 1 .. n : k \in 1 .. Len(q)
        /\ \A k \in 1 .. Len(q) : k \in 1 .. n \/ k = n + 1
    BY ONLY <1>1, SMTT(30)
  <1>4. \A k \in 1 .. n : p[k].dgram \in Waits(p)  BY ONLY <1>2, Zenon DEF Waits
  <1>5. \A k \in 1 .. n : q[k].dgram # d  BY ONLY <1>1, <1>2, <1>4, Zenon
  <1>6. ASSUME NEW i \in 1 .. Len(q), NEW j \in 1 .. Len(q), q[i].dgram = q[j].dgram
        PROVE  i = j
    <2>1. CASE i \in 1 .. n /\ j \in 1 .. n
      BY ONLY Distinct(p), <1>1, <1>2, <1>6, <2>1, Zenon DEF Distinct
    <2>2. CASE i = n + 1 \/ j = n + 1
      BY ONLY <1>1, <1>2, <1>3, <1>5, <1>6, <2>2, Zenon
    <2> QED  BY ONLY <1>3, <1>6, <2>1, <2>2, Zenon
  <1>7. Waits(q) \subseteq Waits(p) \cup {d}
    <2>1. ASSUME NEW x \in Waits(q)  PROVE x \in Waits(p) \/ x = d
      <3>1. PICK k \in 1 .. Len(q) : x = q[k].dgram  BY Zenon DEF Waits
      <3> QED  BY ONLY <1>1, <1>2, <1>3, <1>4, <3>1, Zenon
    <2> QED  BY <2>1, Zenon
  <1>8. Waits(p) \subseteq Waits(q)
    <2>1. ASSUME NEW x \in Waits(p)  PROVE x \in Waits(q)
      <3>1. PICK k \in 1 .. n : x = p[k].dgram  BY <1>2, Zenon DEF Waits
      <3>2. k \in 1 .. Len(q) /\ x = q[k].dgram  BY ONLY <1>1, <1>3, <3>1, Zenon
      <3> QED  BY ONLY <3>2, Zenon DEF Waits
    <2> QED  BY <2>1, Zenon
  <1>9. d \in Waits(q)  BY ONLY <1>1, <1>2, <1>3, Zenon DEF Waits
  <1>10. Distinct(q)  BY ONLY <1>6, Zenon DEF Distinct
  <1> QED  BY ONLY <1>7, <1>8, <1>9, <1>10, Zenon DEF Appended, d

\* The two lists that a list is split in have its datagrams.
Parted(l, list) ==
    /\ Distinct(l.tmp_list) /\ Distinct(l.rest)
    /\ Waits(l.tmp_list) \cup Waits(l.rest) = Waits(list)
    /\ Waits(l.tmp_list) \cap Waits(l.rest) = {}
    /\ \A i \in 1 .. Len(l.tmp_list) : \E j \in 1 .. Len(list) : l.tmp_list[i] = list[j]
    /\ \A i \in 1 .. Len(l.rest) : \E j \in 1 .. Len(list) : l.rest[i] = list[j]

LEMMA SplitParts ==
    ASSUME NEW list, Distinct(list), NEW ip, NEW l, Splitting(l, list, ip, Len(list))
    PROVE  Parted(l, list)
  <1> DEFINE s == l.tmp_list
             t == l.rest
  <1>1. /\ \A i \in 1 .. Len(s) : s[i].next_hop = ip
        /\ \A i \in 1 .. Len(t) : t[i].next_hop # ip
        /\ \A j \in 1 .. Len(list) : Has(s, list[j]) \/ Has(t, list[j])
        /\ Part(s, list, Len(list)) /\ Part(t, list, Len(list))
    BY Zenon DEF Splitting
  <1>2. /\ Distinct(s) /\ Distinct(t)
        /\ \A i \in 1 .. Len(s) : \E j \in 1 .. Len(list) : s[i] = list[j]
        /\ \A i \in 1 .. Len(t) : \E j \in 1 .. Len(list) : t[i] = list[j]
    BY ONLY Distinct(list), <1>1, Zenon DEF Part
  <1> HIDE DEF s, t
  <1>3. Waits(s) \subseteq Waits(list)
    <2>1. ASSUME NEW x \in Waits(s)  PROVE x \in Waits(list)
      <3>1. PICK k \in 1 .. Len(s) : x = s[k].dgram  BY Zenon DEF Waits
      <3>2. PICK j \in 1 .. Len(list) : s[k] = list[j]  BY ONLY <1>2, <3>1, Zenon
      <3> QED  BY ONLY <3>1, <3>2, Zenon DEF Waits
    <2> QED  BY <2>1, Zenon
  <1>4. Waits(t) \subseteq Waits(list)
    <2>1. ASSUME NEW x \in Waits(t)  PROVE x \in Waits(list)
      <3>1. PICK k \in 1 .. Len(t) : x = t[k].dgram  BY Zenon DEF Waits
      <3>2. PICK j \in 1 .. Len(list) : t[k] = list[j]  BY ONLY <1>2, <3>1, Zenon
      <3> QED  BY ONLY <3>1, <3>2, Zenon DEF Waits
    <2> QED  BY <2>1, Zenon
  <1>5. ASSUME NEW x \in Waits(list)  PROVE x \in Waits(s) \/ x \in Waits(t)
    <2>1. PICK j \in 1 .. Len(list) : x = list[j].dgram  BY Zenon DEF Waits
    <2>2. Has(s, list[j]) \/ Has(t, list[j])  BY ONLY <1>1, <2>1, Zenon
    <2> QED  BY ONLY <2>1, <2>2, Zenon DEF Has, Waits
  <1>6. ASSUME NEW x \in Waits(s), x \in Waits(t)  PROVE FALSE
    <2>1. PICK a \in 1 .. Len(s) : x = s[a].dgram  BY <1>6, Zenon DEF Waits
    <2>2. PICK b \in 1 .. Len(t) : x = t[b].dgram  BY <1>6, Zenon DEF Waits
    <2>3. PICK i \in 1 .. Len(list) : s[a] = list[i]  BY ONLY <1>2, <2>1, Zenon
    <2>4. PICK j \in 1 .. Len(list) : t[b] = list[j]  BY ONLY <1>2, <2>2, Zenon
    <2>5. i = j  BY ONLY Distinct(list), <2>1, <2>2, <2>3, <2>4, Zenon DEF Distinct
    <2> QED  BY ONLY <1>1, <2>1, <2>2, <2>3, <2>4, <2>5, Zenon
  <1>7. Waits(s) \cup Waits(t) = Waits(list)  BY <1>3, <1>4, <1>5, Zenon
  <1>8. Waits(s) \cap Waits(t) = {}  BY <1>6, Zenon
  <1> QED  BY ONLY <1>2, <1>7, <1>8, Zenon DEF Parted, s, t

\* Frames that carry the entries of a list.
LEMMA LoadFlush ==
    ASSUME NEW w, NEW s, Len(w) = Len(s), Distinct(s),
           \A i \in 1 .. Len(s) : w[i].type = "IPv4" /\ w[i].dgram = s[i].dgram
    PROVE  Load(w) = Waits(s) /\ Once(w)
  <1>1. Loads(w) = 1 .. Len(s)  BY Zenon DEF Loads
  <1>2. \A i \in 1 .. Len(s) : w[i].dgram = s[i].dgram  BY Zenon
  <1>3. Once(w)  BY ONLY <1>1, <1>2, Distinct(s), Zenon DEF Once, Distinct
  <1>4. ASSUME NEW x \in Load(w)  PROVE x \in Waits(s)
    BY ONLY <1>1, <1>2, <1>4, Zenon DEF Load, Waits
  <1>5. ASSUME NEW x \in Waits(s)  PROVE x \in Load(w)
    BY ONLY <1>1, <1>2, <1>5, Zenon DEF Load, Waits
  <1> QED  BY <1>3, <1>4, <1>5, Zenon

-----------------------------------------------------------------------------
\* t extends s by the datagrams in new.
Extended(s, t, new) ==
    /\ 1 .. Len(t) = (1 .. Len(s)) \cup new
    /\ new \cap (1 .. Len(s)) = {}
    /\ \A d \in 1 .. Len(s) : t[d] = s[d]

Later(r, q) == r \in Nat /\ q \in Nat /\ r <= q

LEMMA AddressStays ==
    ASSUME NEW r, NEW q, Later(r, q), NEW ip, NEW e \in Address(ip, r)
    PROVE  e \in Address(ip, q)
  BY DEF Address, Later

LEMMA EntryStays ==
    ASSUME NEW s, NEW t, NEW new, Extended(s, t, new), NEW h, NEW e, EntryOK(h, e, s)
    PROVE  EntryOK(h, e, t)
  BY Zenon DEF Extended, EntryOK

LEMMA FrameStays ==
    ASSUME NEW s, NEW t, NEW new, Extended(s, t, new), NEW r, NEW q, Later(r, q),
           NEW f, FrameOK(f, s, r)
    PROVE  FrameOK(f, t, q)
  <1>1. \A ip : \A e \in Address(ip, r) : e \in Address(ip, q)  BY ONLY Later(r, q), AddressStays, Zenon
  <1> QED  BY ONLY <1>1, Extended(s, t, new), FrameOK(f, s, r), Zenon DEF Extended, FrameOK

LEMMA PendingStays ==
    ASSUME NEW s, NEW t, NEW new, Extended(s, t, new), NEW h, NEW p, PendingOK(h, p, s)
    PROVE  PendingOK(h, p, t)
  BY EntryStays, Zenon DEF PendingOK

LEMMA WireStays ==
    ASSUME NEW s, NEW t, NEW new, Extended(s, t, new), NEW r, NEW q, Later(r, q),
           NEW w, WireOK(w, s, r)
    PROVE  WireOK(w, t, q)
  BY FrameStays, Zenon DEF WireOK

LEMMA NicStays ==
    ASSUME NEW r, NEW q, Later(r, q), NEW h, NEW n, NicOK(h, n, r)
    PROVE  NicOK(h, n, q)
  BY AddressStays, Zenon DEF NicOK

LEMMA ExtendedNone ==
    ASSUME NEW s
    PROVE  Extended(s, s, {})
  BY Zenon DEF Extended

LEMMA ExtendedOne ==
    ASSUME NEW T, NEW s \in Seq(T), NEW e \in T, NEW t, t = Append(s, e)
    PROVE  Extended(s, t, {Len(s) + 1})
  <1>1. 1 .. Len(t) = (1 .. Len(s)) \cup {Len(s) + 1}  OBVIOUS
  <1>2. {Len(s) + 1} \cap (1 .. Len(s)) = {}  OBVIOUS
  <1>3. \A d \in 1 .. Len(s) : t[d] = s[d]  OBVIOUS
  <1> QED  BY ONLY <1>1, <1>2, <1>3, Zenon DEF Extended

\* Every datagram of h that waits or is new waits or goes out afterwards, not both.
Handled(h, m, new) ==
    /\ NicOK(h, m, restarts) /\ PendingOK(h, m.pending, sent') /\ WireOK(m.frames_out, sent', restarts)
    /\ Distinct(m.pending) /\ Once(m.frames_out)
    /\ Waits(m.pending) \cap Load(m.frames_out) = {}
    /\ Waits(m.pending) \cup Load(m.frames_out) = P(h) \cup new

LEMMA PlaceRange ==
    ASSUME PlaceInv, NEW h \in Hosts
    PROVE  /\ \A d \in P(h) : d \in 1 .. Len(sent) /\ sent[d].from = h
           /\ \A d \in L(h) : d \in 1 .. Len(sent)
           /\ \A d \in G(h) : d \in 1 .. Len(sent) /\ sent[d].to = h
  <1>1. /\ PendingOK(h, nic[h].pending, sent) /\ WireOK(wire[h], sent, restarts)
        /\ \A d \in G(h) : d \in 1 .. Len(sent) /\ sent[d].to = h
    BY Zenon DEF PlaceInv, Proper
  <1>2. ASSUME NEW d \in P(h)  PROVE d \in 1 .. Len(sent) /\ sent[d].from = h
    <2>1. PICK k \in 1 .. Len(nic[h].pending) : d = nic[h].pending[k].dgram
      BY ONLY <1>2, Zenon DEF P, Waits
    <2> QED  BY ONLY <1>1, <2>1, Zenon DEF PendingOK, EntryOK
  <1>3. ASSUME NEW d \in L(h)  PROVE d \in 1 .. Len(sent)
    <2>1. PICK k \in 1 .. Len(wire[h]) : wire[h][k].type = "IPv4" /\ d = wire[h][k].dgram
      BY ONLY <1>3, Zenon DEF L, Load, Loads
    <2> QED  BY ONLY <1>1, <2>1, Zenon DEF WireOK, FrameOK
  <1> QED  BY <1>1, <1>2, <1>3, Zenon

LEMMA HandledWrite ==
    ASSUME PlaceInv, NEW h \in Hosts, NEW to \in Hosts, NEW n, Writes(h, to, n)
    PROVE  Extended(sent, sent', {Len(sent) + 1}) /\ Handled(h, n, {Len(sent) + 1})
  <1> DEFINE d == Len(sent) + 1
             p == nic[h]
             fs == n.frames_out
             e == [dgram |-> d, next_hop |-> to]
             a == ArpFrame(p, ETHERNET_BROADCAST, "REQUEST", to)
             dst == p.mapping[to].eth
             f == Ipv4Frame(p, dst, d)
  <1>1. /\ p \in Nics /\ p.frames_out = <<>> /\ sent \in Seq([from : Hosts, to : Hosts])
        /\ restarts \in Nat
    BY DEF PlaceInv, LanType
  <1>2. /\ p.pending \in Seq(Entries)
        /\ to \in DOMAIN p.mapping => dst \in Eths
    BY <1>1, NicFields
  <1>3. /\ NicOK(h, p, restarts) /\ PendingOK(h, p.pending, sent) /\ Distinct(p.pending)
    BY Zenon DEF PlaceInv, Proper, Apart
  <1>4. Sends(n, p, d, to) /\ sent' = Append(sent, [from |-> h, to |-> to]) /\ restarts' = restarts
    BY Zenon DEF Writes
  <1>5. /\ d \in 1 .. Len(sent') /\ sent'[d].from = h /\ sent'[d].to = to
        /\ d \in Nat /\ d \notin 1 .. Len(sent)
    BY <1>1, <1>4
  <1>6. Extended(sent, sent', {d}) /\ Later(restarts, restarts')
    <2>1. [from |-> h, to |-> to] \in [from : Hosts, to : Hosts]  OBVIOUS
    <2>2. Extended(sent, sent', {Len(sent) + 1})  BY ONLY <1>1, <1>4, <2>1, ExtendedOne, Zenon
    <2>3. Later(restarts, restarts')  BY <1>1, <1>4 DEF Later
    <2> QED  BY <2>2, <2>3
  <1>7. e \in Entries /\ e.dgram = d /\ e.next_hop = to  BY <1>5 DEF Entries
  <1>8. to \in DOMAIN p.mapping => Carries(f, dst, d)
    BY ONLY <1>1, <1>2, <1>5, IsIpv4, Zenon
  <1>9. a.type = "ARP" /\ a.sender_eth = p.eth /\ a.sender_ip = p.ip  BY DEF ArpFrame
  <1> HIDE DEF d, p, fs, e, a, dst, f
  <1>10. /\ n.eth = p.eth /\ n.ip = p.ip /\ n.mapping = p.mapping
         /\ to \in DOMAIN p.mapping => n.pending = p.pending /\ fs = Append(p.frames_out, f)
         /\ to \notin DOMAIN p.mapping =>
                /\ n.pending = Append(p.pending, e)
                /\ fs = p.frames_out \/ fs = Append(p.frames_out, a)
    BY ONLY <1>4, Zenon DEF Sends, fs, f, e, a, dst
  <1>11. Append(<<>>, f) = <<f>> /\ Append(<<>>, a) = <<a>>  OBVIOUS
  <1>12. NicOK(h, n, restarts)  BY ONLY <1>3, <1>10, Zenon DEF NicOK
  <1>13. d \notin P(h)  BY ONLY PlaceInv, h \in Hosts, <1>5, PlaceRange, Zenon
  <1>14. P(h) = Waits(p.pending)  BY Zenon DEF P, p
  <1>15. PendingOK(h, p.pending, sent')  BY ONLY <1>3, <1>6, PendingStays, Zenon
  <1>16. CASE to \in DOMAIN p.mapping
    <2>1. n.pending = p.pending /\ fs = <<f>>  BY ONLY <1>1, <1>10, <1>11, <1>16, Zenon
    <2>2. f.type = "IPv4" /\ f.dst = dst /\ f.dgram = d  BY ONLY <1>8, <1>16, Zenon DEF Carries
    <2>3. Load(fs) = {d} /\ Once(fs)  BY ONLY <2>1, <2>2, LoadOne, Zenon
    <2>4. dst \in Address(to, restarts)  BY ONLY <1>3, <1>16, Zenon DEF NicOK, dst
    <2>5. FrameOK(f, sent', restarts)
      <3>1. f.type # "ARP"  BY <2>2
      <3> QED  BY ONLY <3>1, <2>2, <2>4, <1>5, Zenon DEF FrameOK
    <2>6. WireOK(fs, sent', restarts)
      <3>1. \A k \in 1 .. Len(fs) : fs[k] = f  BY ONLY <2>1, SMTT(30)
      <3>2. \A k \in 1 .. Len(fs) : FrameOK(fs[k], sent', restarts)  BY ONLY <3>1, <2>5, Zenon
      <3> QED  BY ONLY <3>2, Zenon DEF WireOK
    <2>7. Waits(n.pending) = P(h)  BY ONLY <2>1, <1>14, Zenon
    <2>8. Waits(n.pending) \cap Load(fs) = {}  BY ONLY <2>3, <2>7, <1>13, Zenon
    <2>9. Waits(n.pending) \cup Load(fs) = P(h) \cup {d}  BY ONLY <2>3, <2>7, Zenon
    <2>10. PendingOK(h, n.pending, sent') /\ Distinct(n.pending)  BY ONLY <2>1, <1>3, <1>15, Zenon
    <2> QED  BY ONLY <1>6, <1>12, <2>3, <2>6, <2>8, <2>9, <2>10, Zenon DEF Handled, fs, d
  <1>17. CASE to \notin DOMAIN p.mapping
    <2>1. n.pending = Append(p.pending, e) /\ (fs = <<>> \/ fs = <<a>>)
      BY ONLY <1>1, <1>10, <1>11, <1>17, Zenon
    <2>2. FrameOK(a, sent', restarts) /\ a.type # "IPv4"
      <3>1. a.type # "IPv4"  BY <1>9
      <3>2. p.eth \in Address(h, restarts) /\ p.ip = h  BY ONLY <1>3, Zenon DEF NicOK
      <3>4. a.sender_eth \in Address(a.sender_ip, restarts)  BY ONLY <1>9, <3>2, Zenon
      <3> QED  BY ONLY <3>1, <3>4, Zenon DEF FrameOK
    <2>3. \A k \in 1 .. Len(fs) : fs[k] = a
      <3>1. CASE fs = <<>>  BY ONLY <3>1, SMTT(30)
      <3>2. CASE fs = <<a>>  BY ONLY <3>2, SMTT(30)
      <3> QED  BY <2>1, <3>1, <3>2, Zenon
    <2>4. WireOK(fs, sent', restarts)
      <3>1. \A k \in 1 .. Len(fs) : FrameOK(fs[k], sent', restarts)  BY ONLY <2>2, <2>3, Zenon
      <3> QED  BY ONLY <3>1, Zenon DEF WireOK
    <2>5. Load(fs) = {} /\ Once(fs)
      <3>1. \A k \in 1 .. Len(fs) : fs[k].type # "IPv4"  BY ONLY <2>2, <2>3, Zenon
      <3> QED  BY ONLY <3>1, LoadNone, Zenon
    <2> DEFINE q == p.pending
               r == n.pending
    <2>6. Appended(r, q, e.dgram)
      <3>1. /\ q \in Seq(Entries) /\ Distinct(q) /\ e.dgram \notin Waits(q) /\ r = Append(q, e)
        BY ONLY <1>2, <1>3, <1>7, <1>13, <1>14, <2>1, Zenon
      <3> HIDE DEF q, r
      <3> QED  BY ONLY <1>7, <3>1, WaitsAppend, Zenon
    <2>7. Distinct(r) /\ Waits(r) = P(h) \cup {d}  BY ONLY <2>6, <1>7, <1>14, Zenon DEF Appended
    <2>8. PendingOK(h, r, sent')
      <3>1. EntryOK(h, e, sent')  BY ONLY <1>5, <1>7, Zenon DEF EntryOK
      <3>2. q \in Seq(Entries) /\ r = Append(q, e)  BY ONLY <1>2, <2>1, Zenon
      <3> HIDE DEF q, r
      <3>3. \A k \in 1 .. Len(r) : r[k] = e \/ (k \in 1 .. Len(q) /\ r[k] = q[k])
        BY ONLY <3>2, <1>7, SMTT(30)
      <3>4. \A k \in 1 .. Len(q) : EntryOK(h, q[k], sent')  BY ONLY <1>15, Zenon DEF PendingOK, q
      <3>5. \A k \in 1 .. Len(r) : EntryOK(h, r[k], sent')  BY ONLY <3>1, <3>3, <3>4, Zenon
      <3> QED  BY ONLY <3>5, Zenon DEF PendingOK
    <2>9. Waits(r) \cap Load(fs) = {} /\ Waits(r) \cup Load(fs) = P(h) \cup {d}
      BY ONLY <2>5, <2>7, Zenon
    <2> QED  BY ONLY <1>6, <1>12, <2>4, <2>5, <2>7, <2>8, <2>9, Zenon DEF Handled, fs, d
  <1> QED  BY <1>16, <1>17, Zenon

LEMMA HandledRead ==
    ASSUME PlaceInv, NEW h \in Hosts, NEW r, Reads(h, r)
    PROVE  Handled(h, r.nic, {})
  <1> DEFINE n == nic[h]
             m == r.nic
             f == Head(wire[h])
             ip == f.sender_ip
  <1>1. /\ n \in Nics /\ n.frames_out = <<>> /\ wire[h] \in Seq(Frames)  BY DEF PlaceInv, LanType
  <1>2. /\ NicOK(h, n, restarts) /\ PendingOK(h, n.pending, sent) /\ WireOK(wire[h], sent, restarts)
        /\ Distinct(n.pending)
    BY Zenon DEF PlaceInv, Proper, Apart
  <1>3. /\ Receives(r, n, f) /\ sent' = sent /\ wire[h] # <<>>  BY Zenon DEF Reads
  <1>4. FrameOK(f, sent, restarts)
    <2>1. f = wire[h][1] /\ 1 \in 1 .. Len(wire[h])  BY <1>1, <1>3
    <2> QED  BY ONLY <1>2, <2>1, Zenon DEF WireOK
  <1>5. P(h) = Waits(n.pending)  BY Zenon DEF P
  <1> HIDE DEF m, f, n
  <1>6. Len(<<>>) = 0 /\ \A k \in 1 .. 0 : FALSE  OBVIOUS
  <1>7. ASSUME NEW w, \A k \in 1 .. Len(w) : FrameOK(w[k], sent, restarts) /\ w[k].type # "IPv4"
        PROVE  WireOK(w, sent', restarts) /\ Load(w) = {} /\ Once(w)
    <2>1. Load(w) = {} /\ Once(w)  BY ONLY <1>7, LoadNone, Zenon
    <2>2. WireOK(w, sent', restarts)  BY ONLY <1>3, <1>7, Zenon DEF WireOK
    <2> QED  BY <2>1, <2>2
  <1>8. ASSUME NicOK(h, m, restarts), m.pending = n.pending,
               \A k \in 1 .. Len(m.frames_out) :
                   FrameOK(m.frames_out[k], sent, restarts) /\ m.frames_out[k].type # "IPv4"
        PROVE  Handled(h, m, {})
    <2>1. WireOK(m.frames_out, sent', restarts) /\ Load(m.frames_out) = {} /\ Once(m.frames_out)
      BY ONLY <1>7, <1>8, Zenon
    <2>2. PendingOK(h, m.pending, sent') /\ Distinct(m.pending) /\ Waits(m.pending) = P(h)
      BY ONLY <1>2, <1>3, <1>5, <1>8, Zenon
    <2>3. /\ Waits(m.pending) \cap Load(m.frames_out) = {}
          /\ Waits(m.pending) \cup Load(m.frames_out) = P(h) \cup {}
      BY ONLY <2>1, <2>2, Zenon
    <2> QED  BY ONLY <1>8, <2>1, <2>2, <2>3, Zenon DEF Handled
  <1>9. ASSUME m = n  PROVE Handled(h, m, {})
    <2>1. \A k \in 1 .. Len(m.frames_out) : FALSE  BY ONLY <1>1, <1>6, <1>9, Zenon
    <2> QED  BY ONLY <1>2, <1>8, <1>9, <2>1, Zenon
  <1>10. ASSUME f \in Arps, Replies(m, n, f)  PROVE Handled(h, m, {})
    <2>1. PICK k :
             /\ Learns(k, n, f)
             /\ \/ m = k
                \/ /\ m \in Nics /\ m.eth = k.eth /\ m.ip = k.ip /\ m.mapping = k.mapping
                   /\ m.pending = k.pending /\ m.blocking = k.blocking
                   /\ m.frames_out = <<ArpFrame(n, f.sender_eth, "REPLY", f.sender_ip)>>
                \/ \E l : /\ Splitting(l, n.pending, f.sender_ip, Len(n.pending))
                          /\ Flushing(m, k, f.sender_ip, l.tmp_list, l.rest, Len(l.tmp_list))
      BY ONLY <1>10, Zenon DEF Replies
    <2>2. /\ k.eth = n.eth /\ k.ip = n.ip /\ k.pending = n.pending /\ k.frames_out = <<>>
          /\ DOMAIN k.mapping = DOMAIN n.mapping \cup {ip}
          /\ \A i \in DOMAIN n.mapping : k.mapping[i] = n.mapping[i]
          /\ ip \notin DOMAIN n.mapping => k.mapping[ip].eth = f.sender_eth
      BY ONLY <1>1, <2>1, Zenon DEF Learns
    <2>3. f.sender_eth \in Address(ip, restarts)
      <3>1. f.type = "ARP"  BY <1>10 DEF Arps
      <3> QED  BY ONLY <1>4, <3>1, Zenon DEF FrameOK
    <2> HIDE DEF ip
    <2>4. NicOK(h, k, restarts)  BY ONLY <1>2, <2>2, <2>3, Zenon DEF NicOK
    <2>5. CASE m = k
      <3>1. \A j \in 1 .. Len(m.frames_out) : FALSE  BY ONLY <2>2, <1>6, <2>5, Zenon
      <3> QED  BY ONLY <1>8, <2>2, <2>4, <2>5, <3>1, Zenon
    <2>6. CASE /\ m \in Nics /\ m.eth = k.eth /\ m.ip = k.ip /\ m.mapping = k.mapping
               /\ m.pending = k.pending /\ m.blocking = k.blocking
               /\ m.frames_out = <<ArpFrame(n, f.sender_eth, "REPLY", f.sender_ip)>>
      <3> DEFINE a == ArpFrame(n, f.sender_eth, "REPLY", f.sender_ip)
      <3>1. a.type = "ARP" /\ a.sender_eth = n.eth /\ a.sender_ip = n.ip  BY DEF ArpFrame
      <3> HIDE DEF a
      <3>2. a.type # "IPv4"  BY <3>1
      <3>3. FrameOK(a, sent, restarts)  BY ONLY <1>2, <3>1, <3>2, Zenon DEF FrameOK, NicOK
      <3>4. m.frames_out = <<a>>  BY ONLY <2>6, Zenon DEF a
      <3>5. \A j \in 1 .. Len(m.frames_out) : m.frames_out[j] = a  BY ONLY <3>4, SMTT(30)
      <3>6. NicOK(h, m, restarts)  BY ONLY <2>4, <2>6, Zenon DEF NicOK
      <3> QED  BY ONLY <1>8, <2>2, <2>6, <3>2, <3>3, <3>5, <3>6, Zenon
    <2>7. CASE \E l : /\ Splitting(l, n.pending, f.sender_ip, Len(n.pending))
                      /\ Flushing(m, k, f.sender_ip, l.tmp_list, l.rest, Len(l.tmp_list))
      <3>1. PICK l : /\ Splitting(l, n.pending, ip, Len(n.pending))
                     /\ Flushing(m, k, ip, l.tmp_list, l.rest, Len(l.tmp_list))
        BY ONLY <2>7, Zenon DEF ip
      <3> DEFINE s == l.tmp_list
                 t == l.rest
                 fs == m.frames_out
      <3>2. Parted(l, n.pending)  BY ONLY <1>2, <3>1, SplitParts, Zenon
      <3>3. /\ Distinct(s) /\ Distinct(t) /\ Waits(s) \cup Waits(t) = Waits(n.pending)
            /\ Waits(s) \cap Waits(t) = {}
            /\ \A i \in 1 .. Len(s) : \E j \in 1 .. Len(n.pending) : s[i] = n.pending[j]
            /\ \A i \in 1 .. Len(t) : \E j \in 1 .. Len(n.pending) : t[i] = n.pending[j]
        BY ONLY <3>2, Zenon DEF Parted
      <3>4. \A i \in 1 .. Len(s) : s[i].next_hop = ip  BY ONLY <3>1, Zenon DEF Splitting
      <3>5. /\ m.eth = k.eth /\ m.ip = k.ip /\ m.mapping = k.mapping /\ m.pending = t
            /\ Len(fs) = Len(s)
            /\ \A i \in 1 .. Len(s) : /\ fs[i].type = "IPv4" /\ fs[i].dgram = s[i].dgram
                                      /\ fs[i].dst = k.mapping[ip].eth
        BY ONLY <3>1, Zenon DEF Flushing
      <3> HIDE DEF s, t, fs
      <3>6. Load(fs) = Waits(s) /\ Once(fs)  BY ONLY <3>3, <3>5, LoadFlush, Zenon
      <3>7. NicOK(h, m, restarts)  BY ONLY <2>4, <3>5, Zenon DEF NicOK
      <3>8. PendingOK(h, t, sent')  BY ONLY <1>2, <1>3, <3>3, Zenon DEF PendingOK
      <3>9. \A i \in 1 .. Len(s) : EntryOK(h, s[i], sent)  BY ONLY <1>2, <3>3, Zenon DEF PendingOK
      <3>10. k.mapping[ip].eth \in Address(ip, restarts)  BY ONLY <2>2, <2>4, Zenon DEF NicOK
      <3>11. ASSUME NEW i \in 1 .. Len(fs)  PROVE FrameOK(fs[i], sent', restarts)
        <4>1. fs[i].type = "IPv4" /\ fs[i].dgram = s[i].dgram /\ fs[i].dst \in Address(ip, restarts)
          BY ONLY <3>5, <3>10, <3>11, Zenon
        <4>2. s[i].dgram \in 1 .. Len(sent) /\ sent[s[i].dgram].to = ip
          BY ONLY <3>4, <3>5, <3>9, <3>11, ZenonT(30) DEF EntryOK
        <4>3. fs[i].type # "ARP"  BY <4>1
        <4> QED  BY ONLY <1>3, <4>1, <4>2, <4>3, Zenon DEF FrameOK
      <3>12. WireOK(fs, sent', restarts)  BY ONLY <3>11, Zenon DEF WireOK
      <3>13. Waits(t) \cap Load(fs) = {} /\ Waits(t) \cup Load(fs) = P(h) \cup {}
        BY ONLY <1>5, <3>3, <3>6, Zenon
      <3> QED  BY ONLY <3>3, <3>5, <3>6, <3>7, <3>8, <3>12, <3>13, Zenon DEF Handled, fs
    <2> QED  BY ONLY <2>1, <2>5, <2>6, <2>7, Zenon
  <1> QED  BY ONLY <1>3, <1>9, <1>10, Zenon DEF Receives, m

\* w is left on the way to h, whom up was passed; other hosts were passed nothing.
Taken(h, w, up) ==
    /\ w \in Seq(Frames)
    /\ \A k \in 1 .. Len(w) : \E j \in 1 .. Len(wire[h]) : w[k] = wire[h][j]
    /\ Load(w) \subseteq L(h) /\ Once(w)
    /\ up \subseteq L(h) /\ up \cap Load(w) = {}
    /\ \A d \in up : sent[d].to = h
    /\ Members(got'[h]) = G(h) \cup up /\ Injective(got'[h])
    /\ \A g \in Hosts \ {h} : got'[g] = got[g]
    /\ restarts = 0 => \A d \in L(h) : d \in Load(w) \/ d \in up \/ sent[d].to # h

LEMMA TakenNothing ==
    ASSUME PlaceInv, NEW h \in Hosts, got' = got
    PROVE  Taken(h, wire[h], {})
  <1>1. wire[h] \in Seq(Frames)  BY DEF PlaceInv, LanType
  <1>2. Once(wire[h]) /\ Injective(got[h])  BY Zenon DEF PlaceInv, Apart
  <1>3. Load(wire[h]) = L(h) /\ Members(got[h]) = G(h)  BY Zenon DEF L, G
  <1>4. \A k \in 1 .. Len(wire[h]) : \E j \in 1 .. Len(wire[h]) : wire[h][k] = wire[h][j]  BY Zenon
  <1> QED  BY ONLY got' = got, <1>1, <1>2, <1>3, <1>4, Zenon DEF Taken

LEMMA MembersAppend ==
    ASSUME NEW s \in Seq(Nat), Injective(s), NEW d \in Nat, d \notin Members(s),
           NEW t, t = s \o <<d>>
    PROVE  Members(t) = Members(s) \cup {d} /\ Injective(t)
  <1> DEFINE n == Len(s)
  <1>1. /\ n \in Nat /\ Len(t) = n + 1 /\ t[n + 1] = d
        /\ \A k \in 1 .. n : t[k] = s[k]
    OBVIOUS
  <1>2. n = Len(s)  OBVIOUS
  <1> HIDE DEF n
  <1>3. /\ n + 1 \in 1 .. Len(t) /\ \A k \in 1 .. n : k \in 1 .. Len(t)
        /\ \A k \in 1 .. Len(t) : k \in 1 .. n \/ k = n + 1
    BY ONLY <1>1, SMTT(30)
  <1>4. \A k \in 1 .. n : s[k] \in Members(s)  BY ONLY <1>2, Zenon DEF Members
  <1>5. \A k \in 1 .. n : t[k] # d  BY ONLY d \notin Members(s), <1>1, <1>4, Zenon
  <1>6. ASSUME NEW i \in 1 .. Len(t), NEW j \in 1 .. Len(t), t[i] = t[j]  PROVE i = j
    <2>1. CASE i \in 1 .. n /\ j \in 1 .. n
      BY ONLY Injective(s), <1>1, <1>2, <1>6, <2>1, Zenon DEF Injective
    <2>2. CASE i = n + 1 \/ j = n + 1
      BY ONLY <1>1, <1>3, <1>5, <1>6, <2>2, Zenon
    <2> QED  BY ONLY <1>3, <1>6, <2>1, <2>2, Zenon
  <1>7. ASSUME NEW x \in Members(t)  PROVE x \in Members(s) \/ x = d
    <2>1. PICK k \in 1 .. Len(t) : x = t[k]  BY Zenon DEF Members
    <2> QED  BY ONLY <1>1, <1>3, <1>4, <2>1, Zenon
  <1>8. ASSUME NEW x \in Members(s)  PROVE x \in Members(t)
    <2>1. PICK k \in 1 .. n : x = s[k]  BY <1>2, Zenon DEF Members
    <2>2. k \in 1 .. Len(t) /\ x = t[k]  BY ONLY <1>1, <1>3, <2>1, Zenon
    <2> QED  BY ONLY <2>2, Zenon DEF Members
  <1>9. d \in Members(t)  BY ONLY <1>1, <1>3, Zenon DEF Members
  <1>10. Injective(t)  BY ONLY <1>6, Zenon DEF Injective
  <1> QED  BY <1>7, <1>8, <1>9, <1>10, Zenon

LEMMA TakenRead ==
    ASSUME PlaceInv, NEW h \in Hosts, NEW r, Reads(h, r)
    PROVE  \E up : Taken(h, Tail(wire[h]), up)
  <1> DEFINE n == nic[h]
             f == Head(wire[h])
             w == Tail(wire[h])
             d == f.dgram
             a == sent[d].to
             u == r.up
  <1>1. /\ wire[h] \in Seq(Frames) /\ got[h] \in Seq(Nat) /\ got \in [Hosts -> Seq(Nat)]
        /\ sent \in Seq([from : Hosts, to : Hosts]) /\ restarts \in Nat
    BY DEF PlaceInv, LanType
  <1>2. /\ NicOK(h, n, restarts) /\ WireOK(wire[h], sent, restarts) /\ restarts <= MaxRestarts
        /\ Once(wire[h]) /\ Injective(got[h])
        /\ \A x \in L(h) : sent[x].to = h => x \notin G(h)
    BY Zenon DEF PlaceInv, Proper, Apart
  <1>3. /\ Receives(r, n, f) /\ wire[h] # <<>> /\ got' = [got EXCEPT ![h] = got[h] \o u]
        /\ f \in Frames
    BY Zenon DEF Reads
  <1>4. TailOf(w, wire[h])  BY ONLY <1>1, <1>3, TailLoad, Zenon
  <1>5. /\ w \in Seq(Frames)
        /\ \A k \in 1 .. Len(w) : \E j \in 1 .. Len(wire[h]) : w[k] = wire[h][j]
        /\ Load(w) \subseteq L(h)
        /\ \A x \in L(h) : x \in Load(w) \/ (f.type = "IPv4" /\ d = x)
        /\ Once(w) /\ (f.type = "IPv4" => d \notin Load(w) /\ d \in L(h))
        /\ \E j \in 1 .. Len(wire[h]) : f = wire[h][j]
    BY ONLY <1>2, <1>4, Zenon DEF TailOf, L
  <1>6. FrameOK(f, sent, restarts)  BY ONLY <1>2, <1>5, Zenon DEF WireOK
  <1>7. G(h) = Members(got[h])  BY Zenon DEF G
  <1> HIDE DEF n, f, w, u
  <1>8. f.type = "IPv4" => d \in 1 .. Len(sent) /\ f.dst \in Address(a, restarts) /\ a \in Hosts /\ d \in Nat
    <2>1. f.type = "IPv4" => d \in 1 .. Len(sent) /\ f.dst \in Address(a, restarts)
      BY ONLY <1>6, Zenon DEF FrameOK
    <2> HIDE DEF d
    <2>2. ASSUME d \in 1 .. Len(sent)  PROVE a \in Hosts /\ d \in Nat
      <3> DEFINE R == [from : Hosts, to : Hosts]
      <3>1. sent \in Seq(R)  BY <1>1
      <3> HIDE DEF R
      <3>2. sent[d] \in R /\ d \in Nat  BY ONLY <2>2, <3>1, SMTT(30)
      <3> QED  BY ONLY <3>2, Zenon DEF R, a
    <2> QED  BY ONLY <2>1, <2>2, Zenon
  <1> HIDE DEF d, a
  <1>9. n.eth \in Address(h, restarts)  BY ONLY <1>2, Zenon DEF NicOK
  <1>10. \A g \in Hosts \ {h} : got'[g] = got[g]  BY ONLY <1>1, <1>3, SMTT(30)
  <1>11. got'[h] = got[h] \o u  BY ONLY <1>1, <1>3, h \in Hosts, SMTT(30)
  <1>12. ASSUME u = <<>>, restarts = 0 => \A x \in L(h) : x \in Load(w) \/ sent[x].to # h
         PROVE  Taken(h, w, {})
    <2>1. got'[h] = got[h]  BY ONLY <1>1, <1>11, <1>12, SMTT(30)
    <2> QED  BY ONLY <1>2, <1>5, <1>7, <1>10, <1>12, <2>1, Zenon DEF Taken
  <1>13. CASE ~for_me(n, f) /\ u = <<>>
    <2>1. ASSUME restarts = 0, f.type = "IPv4", a = h  PROVE FALSE
      <3>1. f.dst \in {h} \X (0 .. 0) /\ n.eth \in {h} \X (0 .. 0)
        BY ONLY <1>8, <1>9, <2>1, Zenon DEF Address
      <3>2. f.dst = n.eth  BY ONLY <3>1, SMTT(30)
      <3> QED  BY ONLY <3>2, <1>13, Zenon DEF for_me
    <2>2. restarts = 0 => \A x \in L(h) : x \in Load(w) \/ sent[x].to # h
      BY ONLY <1>5, <2>1, Zenon DEF a
    <2>3. Taken(h, w, {})  BY ONLY <1>12, <1>13, <2>2, Zenon
    <2> QED  BY ONLY <2>3, Zenon DEF w
  <1>14. CASE for_me(n, f) /\ f \in Ipv4s /\ u = <<d>>
    <2>1. f.type = "IPv4"  BY <1>14 DEF Ipv4s
    <2>2. f.dst # ETHERNET_BROADCAST
      <3>1. f.dst \in {a} \X (0 .. restarts) /\ a \in Hosts  BY ONLY <1>8, <2>1, Zenon DEF Address
      <3>2. f.dst \in Hosts \X (0 .. MaxRestarts)
        BY ONLY <1>1, <1>2, <3>1, LanAssumption, SMTT(30)
      <3> QED  BY ONLY <3>2, LanAssumption, Zenon
    <2>3. f.dst = n.eth  BY ONLY <1>14, <2>2, Zenon DEF for_me
    <2>4. a = h
      <3>1. n.eth \in {a} \X (0 .. restarts) /\ n.eth \in {h} \X (0 .. restarts)
        BY ONLY <1>8, <1>9, <2>1, <2>3, Zenon DEF Address
      <3> QED  BY ONLY <3>1, SMTT(30)
    <2>5. d \in L(h) /\ d \notin Load(w) /\ sent[d].to = h  BY ONLY <1>5, <2>1, <2>4, Zenon DEF a
    <2>6. d \notin Members(got[h])  BY ONLY <1>2, <1>7, <2>5, Zenon
    <2>7. Members(got'[h]) = Members(got[h]) \cup {d} /\ Injective(got'[h])
      <3> DEFINE s == got[h]
                 t == got'[h]
      <3>1. s \in Seq(Nat) /\ Injective(s) /\ d \in Nat /\ d \notin Members(s) /\ t = s \o <<d>>
        BY ONLY <1>1, <1>2, <1>8, <1>11, <1>14, <2>1, <2>6, Zenon
      <3> HIDE DEF s, t
      <3>2. Members(t) = Members(s) \cup {d}  BY ONLY <3>1, MembersAppend, Zenon
      <3>3. Injective(t)  BY ONLY <3>1, MembersAppend, Zenon
      <3> QED  BY ONLY <3>2, <3>3, Zenon DEF s, t
    <2>8. Members(got'[h]) = G(h) \cup {d}  BY ONLY <2>7, <1>7, Zenon
    <2>9. {d} \subseteq L(h) /\ {d} \cap Load(w) = {} /\ \A x \in {d} : sent[x].to = h
      BY ONLY <2>5, Zenon
    <2>10. \A x \in L(h) : x \in Load(w) \/ x \in {d}  BY ONLY <1>5, Zenon
    <2>11. Taken(h, w, {d})
      BY ONLY <1>5, <1>10, <2>7, <2>8, <2>9, <2>10, Zenon DEF Taken
    <2> QED  BY ONLY <2>11, Zenon DEF w
  <1>15. CASE f \in Arps /\ u = <<>>
    <2>1. f.type # "IPv4"
      <3>1. f.type = "ARP"  BY <1>15 DEF Arps
      <3> QED  BY <3>1
    <2>2. \A x \in L(h) : x \in Load(w)  BY ONLY <1>5, <2>1, Zenon
    <2>3. Taken(h, w, {})  BY ONLY <1>12, <1>15, <2>2, Zenon
    <2> QED  BY ONLY <2>3, Zenon DEF w
  <1> QED  BY ONLY <1>3, <1>13, <1>14, <1>15, Zenon DEF Receives, u, d

\* A call that handles what h holds, and the frames it sends.
LEMMA PlaceSend ==
    ASSUME PlaceInv, LanType', NEW h \in Hosts, NEW m \in Nics, NEW new, Handled(h, m, new),
           Extended(sent, sent', new), NEW w, Delivered(h, m, w), NEW up, Taken(h, w, up),
           restarts' = restarts, losses' = losses,
           \A d \in new : sent'[d].from = h /\ sent'[d].to # h
    PROVE  PlaceInv'
  <1> DEFINE S == 1 .. Len(sent)
             F == Load(m.frames_out)
             Q == Waits(m.pending)
             W == Load(w)
  <1>1. /\ nic'[h].eth = m.eth /\ nic'[h].ip = m.ip /\ nic'[h].mapping = m.mapping
        /\ nic'[h].pending = m.pending
        /\ \A g \in Hosts \ {h} : nic'[g] = nic[g]
        /\ wire'[h] = w /\ \A g \in Hosts \ {h} : wire'[g] = wire[g] \o m.frames_out
    BY ONLY Delivered(h, m, w), Zenon DEF Delivered
  <1>2. /\ NicOK(h, m, restarts) /\ PendingOK(h, m.pending, sent')
        /\ WireOK(m.frames_out, sent', restarts)
        /\ Distinct(m.pending) /\ Once(m.frames_out)
        /\ Q \cap F = {} /\ Q \cup F = P(h) \cup new
    BY ONLY Handled(h, m, new), Zenon DEF Handled
  <1>3. /\ \A k \in 1 .. Len(w) : \E j \in 1 .. Len(wire[h]) : w[k] = wire[h][j]
        /\ W \subseteq L(h) /\ Once(w) /\ up \subseteq L(h) /\ up \cap W = {}
        /\ \A d \in up : sent[d].to = h
        /\ Members(got'[h]) = G(h) \cup up /\ Injective(got'[h])
        /\ \A g \in Hosts \ {h} : got'[g] = got[g]
        /\ restarts = 0 => \A d \in L(h) : d \in W \/ d \in up \/ sent[d].to # h
    BY ONLY Taken(h, w, up), Zenon DEF Taken
  <1>4. /\ 1 .. Len(sent') = S \cup new /\ new \cap S = {} /\ \A d \in S : sent'[d] = sent[d]
    BY ONLY Extended(sent, sent', new), Zenon DEF Extended
  <1>5. \A g \in Hosts : /\ \A d \in P(g) : d \in S /\ sent[d].from = g
                         /\ \A d \in L(g) : d \in S
                         /\ \A d \in G(g) : d \in S /\ sent[d].to = g
    BY ONLY PlaceInv, PlaceRange, Zenon
  <1>6. LanType /\ Proper /\ Apart /\ Kept  BY Zenon DEF PlaceInv
  <1>7. /\ m.frames_out \in Seq(Frames) /\ wire \in [Hosts -> Seq(Frames)] /\ restarts \in Nat
        /\ Later(restarts, restarts)
    <2>1. m.frames_out \in Seq(Frames)  BY NicFields
    <2>2. wire \in [Hosts -> Seq(Frames)] /\ restarts \in Nat  BY <1>6 DEF LanType
    <2>3. Later(restarts, restarts)  BY <2>2 DEF Later
    <2> QED  BY <2>1, <2>2, <2>3
  <1> HIDE DEF S, F, Q, W
  <1>8. P(h)' = Q /\ \A g \in Hosts \ {h} : P(g)' = P(g)  BY ONLY <1>1, Zenon DEF P, Q
  <1>9. \A g \in Hosts \ {h} : Joined(wire'[g], wire[g], m.frames_out)
    <2> TAKE g \in Hosts \ {h}
    <2> DEFINE v == wire[g]
               fs == m.frames_out
               x == wire'[g]
    <2>1. v \in Seq(Frames)  BY <1>7
    <2>2. fs \in Seq(Frames) /\ x = v \o fs  BY ONLY <1>1, <1>7, Zenon
    <2> HIDE DEF v, fs, x
    <2>3. Joined(x, v, fs)  BY ONLY <2>1, <2>2, JoinLoad, Zenon
    <2> QED  BY ONLY <2>3, Zenon DEF x, v, fs
  <1>10. L(h)' = W /\ \A g \in Hosts \ {h} : L(g)' = L(g) \cup F
    <2>1. L(h)' = W  BY ONLY <1>1, Zenon DEF L, W
    <2>2. \A g \in Hosts \ {h} : L(g)' = L(g) \cup F  BY ONLY <1>9, Zenon DEF L, F, Joined
    <2> QED  BY <2>1, <2>2
  <1>11. G(h)' = G(h) \cup up /\ \A g \in Hosts \ {h} : G(g)' = G(g)  BY ONLY <1>3, Zenon DEF G
  <1>12. \A g \in Hosts : /\ NicOK(g, nic[g], restarts) /\ PendingOK(g, nic[g].pending, sent)
                          /\ WireOK(wire[g], sent, restarts)
    BY ONLY <1>6, Zenon DEF Proper
  <1>13. \A g \in Hosts :
             /\ Distinct(nic[g].pending) /\ Once(wire[g]) /\ Injective(got[g])
             /\ \A i \in Hosts : P(g) \cap L(i) = {} /\ P(g) \cap G(i) = {}
             /\ \A d \in L(g) : sent[d].to = g => d \notin G(g)
    BY ONLY <1>6, Zenon DEF Apart
  <1>14. \A g \in Hosts : /\ F \cap L(g) = {} /\ F \cap G(g) = {}
                          /\ Q \cap L(g) = {} /\ Q \cap G(g) = {}
    BY ONLY h \in Hosts, <1>2, <1>4, <1>5, <1>13, Zenon
  <1>15. \A g \in Hosts \ {h} : P(g) \cap F = {}
    BY ONLY h \in Hosts, <1>2, <1>4, <1>5, Zenon
  <1>16. Proper'
    <2>1. restarts' <= MaxRestarts  BY <1>6, Zenon DEF Proper
    <2>2. ASSUME NEW g \in Hosts
          PROVE  /\ NicOK(g, nic'[g], restarts') /\ PendingOK(g, nic'[g].pending, sent')
                 /\ WireOK(wire'[g], sent', restarts')
                 /\ \A d \in G(g)' : d \in 1 .. Len(sent') /\ sent'[d].to = g
      <3>1. \A d \in G(g)' : d \in S /\ sent[d].to = g
        <4>1. CASE g = h
          <5>1. \A d \in G(h)' : d \in G(h) \/ d \in up  BY ONLY <1>11, Zenon
          <5>2. \A d \in up : d \in S /\ sent[d].to = h  BY ONLY h \in Hosts, <1>3, <1>5, Zenon
          <5> QED  BY ONLY h \in Hosts, <4>1, <5>1, <5>2, <1>5, Zenon
        <4>2. CASE g # h
          <5>1. G(g)' = G(g)  BY ONLY <2>2, <4>2, <1>11, Zenon
          <5> QED  BY ONLY <2>2, <5>1, <1>5, Zenon
        <4> QED  BY <4>1, <4>2
      <3>2. \A d \in G(g)' : d \in 1 .. Len(sent') /\ sent'[d].to = g  BY ONLY <3>1, <1>4, Zenon
      <3>3. WireOK(wire[g], sent', restarts)
        BY ONLY Extended(sent, sent', new), <2>2, <1>7, <1>12, WireStays, Zenon
      <3>4. CASE g = h
        <4>1. NicOK(h, nic'[h], restarts')  BY ONLY restarts' = restarts, <1>1, <1>2, Zenon DEF NicOK
        <4>2. PendingOK(h, nic'[h].pending, sent')  BY ONLY <1>1, <1>2, Zenon
        <4>3. WireOK(wire'[h], sent', restarts')
          BY ONLY restarts' = restarts, <1>1, <1>3, <3>3, <3>4, Zenon DEF WireOK
        <4> QED  BY ONLY <3>2, <3>4, <4>1, <4>2, <4>3, Zenon
      <3>5. CASE g # h
        <4>1. nic'[g] = nic[g] /\ Joined(wire'[g], wire[g], m.frames_out)
          BY ONLY <2>2, <3>5, <1>1, <1>9, Zenon
        <4>2. NicOK(g, nic'[g], restarts')  BY ONLY restarts' = restarts, <2>2, <1>12, <4>1, Zenon
        <4>3. PendingOK(g, nic[g].pending, sent')
          BY ONLY Extended(sent, sent', new), <2>2, <1>12, PendingStays, Zenon
        <4>4. \A k \in 1 .. Len(wire'[g]) : FrameOK(wire'[g][k], sent', restarts)
          BY ONLY <1>2, <3>3, <4>1, Zenon DEF Joined, WireOK
        <4>5. WireOK(wire'[g], sent', restarts')  BY ONLY restarts' = restarts, <4>4, Zenon DEF WireOK
        <4> QED  BY ONLY <3>2, <4>1, <4>2, <4>3, <4>5, Zenon
      <3> QED  BY <3>4, <3>5
    <2> QED  BY ONLY <2>1, <2>2, Zenon DEF Proper
  <1>17. Apart'
    <2>1. ASSUME NEW g \in Hosts
          PROVE  /\ Distinct(nic'[g].pending) /\ Once(wire'[g]) /\ Injective(got'[g])
                 /\ \A i \in Hosts : P(g)' \cap L(i)' = {} /\ P(g)' \cap G(i)' = {}
                 /\ \A d \in L(g)' : sent'[d].to = g => d \notin G(g)'
      <3>1. Distinct(nic'[g].pending)  BY ONLY <2>1, <1>1, <1>2, <1>13, ZenonT(30)
      <3>2. Once(wire'[g])
        <4>1. CASE g = h  BY ONLY <4>1, <1>1, <1>3, Zenon
        <4>2. CASE g # h
          <5>1. Load(wire[g]) \cap Load(m.frames_out) = {}  BY ONLY <2>1, <1>14, Zenon DEF L, F
          <5> QED  BY ONLY <2>1, <4>2, <5>1, <1>2, <1>9, <1>13, Zenon DEF Joined
        <4> QED  BY <4>1, <4>2
      <3>3. Injective(got'[g])  BY ONLY <2>1, <1>3, <1>13, Zenon
      <3>4. ASSUME NEW i \in Hosts  PROVE P(g)' \cap L(i)' = {}
        <4>1. P(g)' \cap L(i) = {} /\ P(g)' \cap F = {}
          BY ONLY <2>1, <3>4, <1>2, <1>8, <1>13, <1>14, <1>15, Zenon
        <4>2. L(i)' \subseteq L(i) \cup F  BY ONLY <3>4, <1>3, <1>10, Zenon
        <4> QED  BY ONLY <4>1, <4>2, Zenon
      <3>5. ASSUME NEW i \in Hosts  PROVE P(g)' \cap G(i)' = {}
        <4>1. P(g)' \cap G(i) = {} /\ P(g)' \cap L(h) = {}
          BY ONLY <2>1, <3>5, h \in Hosts, <1>8, <1>13, <1>14, Zenon
        <4>2. G(i)' \subseteq G(i) \cup L(h)  BY ONLY <3>5, <1>3, <1>11, Zenon
        <4> QED  BY ONLY <4>1, <4>2, Zenon
      <3>6. ASSUME NEW d \in L(g)', sent'[d].to = g  PROVE d \notin G(g)'
        <4>1. CASE g = h
          <5>1. d \in W /\ d \in L(h) /\ d \in S  BY ONLY <3>6, <4>1, h \in Hosts, <1>3, <1>5, <1>10, Zenon
          <5>2. sent[d].to = h  BY ONLY <5>1, <3>6, <4>1, <1>4, Zenon
          <5>3. d \notin G(h) /\ d \notin up  BY ONLY <5>1, <5>2, h \in Hosts, <1>3, <1>13, Zenon
          <5> QED  BY ONLY <5>3, <4>1, <1>11, Zenon
        <4>2. CASE g # h
          <5>1. G(g)' = G(g) /\ (d \in L(g) \/ d \in F)  BY ONLY <2>1, <3>6, <4>2, <1>10, <1>11, Zenon
          <5>2. CASE d \in F  BY ONLY <2>1, <5>1, <5>2, <1>14, Zenon
          <5>3. CASE d \in L(g)
            <6>1. d \in S  BY ONLY <2>1, <5>3, <1>5, Zenon
            <6>2. sent[d].to = g  BY ONLY <6>1, <3>6, <1>4, Zenon
            <6>3. d \notin G(g)  BY ONLY <2>1, <5>3, <6>2, <1>13, Zenon
            <6> QED  BY ONLY <6>3, <5>1, Zenon
          <5> QED  BY <5>1, <5>2, <5>3
        <4> QED  BY <4>1, <4>2
      <3> QED  BY ONLY <3>1, <3>2, <3>3, <3>4, <3>5, <3>6, Zenon
    <2> QED  BY ONLY <2>1, Zenon DEF Apart
  <1>18. Kept'
    <2>1. ASSUME losses = 0, restarts = 0, NEW d \in 1 .. Len(sent'), NEW a \in Hosts, NEW b \in Hosts,
                 sent'[d].from = a, sent'[d].to = b
          PROVE  a # b /\ (d \in P(a)' \/ d \in L(b)' \/ d \in G(b)')
      <3>1. CASE d \in new
        <4>1. a = h /\ b # h  BY <2>1, <3>1
        <4>2. d \in Q \/ d \in F  BY ONLY <3>1, <1>2, Zenon
        <4> QED  BY ONLY <2>1, <4>1, <4>2, <1>8, <1>10, Zenon
      <3>2. CASE d \in S
        <4>1. sent[d].from = a /\ sent[d].to = b  BY ONLY <2>1, <3>2, <1>4, Zenon
        <4>2. a # b /\ (d \in P(a) \/ d \in L(b) \/ d \in G(b))
          BY ONLY <2>1, <1>6, <3>2, <4>1, Zenon DEF Kept, S
        <4>3. d \in L(h) => d \in W \/ d \in up \/ b # h  BY ONLY <2>1, <1>3, <4>1, Zenon
        <4>4. CASE d \in P(a)
          <5>1. CASE a = h  BY ONLY <2>1, <4>2, <4>4, <5>1, <1>2, <1>8, <1>10, Zenon
          <5>2. CASE a # h  BY ONLY <2>1, <4>2, <4>4, <5>2, <1>8, ZenonT(30)
          <5> QED  BY <5>1, <5>2
        <4>5. CASE d \in L(b)  BY ONLY <2>1, <4>2, <4>3, <4>5, <1>10, <1>11, Zenon
        <4>6. CASE d \in G(b)  BY ONLY <2>1, <4>2, <4>6, <1>11, Zenon
        <4> QED  BY <4>2, <4>4, <4>5, <4>6
      <3> QED  BY ONLY <2>1, <1>4, <3>1, <3>2, Zenon
    <2> QED  BY ONLY <2>1, restarts' = restarts, losses' = losses, Zenon DEF Kept
  <1> QED  BY ONLY LanType', <1>16, <1>17, <1>18, Zenon DEF PlaceInv

\* No datagram enters a place, or none leaves one.
LEMMA ApartStays ==
    ASSUME Apart, sent' = sent,
           \A g \in Hosts : P(g)' \subseteq P(g) /\ L(g)' \subseteq L(g) /\ G(g)' \subseteq G(g),
           \A g \in Hosts : Distinct(nic'[g].pending) /\ Once(wire'[g]) /\ Injective(got'[g])
    PROVE  Apart'
  <1>1. ASSUME NEW g \in Hosts, NEW i \in Hosts  PROVE P(g)' \cap L(i)' = {} /\ P(g)' \cap G(i)' = {}
    <2>1. P(g)' \subseteq P(g) /\ L(i)' \subseteq L(i) /\ G(i)' \subseteq G(i)  BY <1>1
    <2>2. P(g) \cap L(i) = {} /\ P(g) \cap G(i) = {}  BY ONLY Apart, <1>1, Zenon DEF Apart
    <2> QED  BY ONLY <2>1, <2>2, Zenon
  <1>2. ASSUME NEW g \in Hosts, NEW d \in L(g)', sent'[d].to = g  PROVE d \notin G(g)'
    <2>1. L(g)' \subseteq L(g) /\ G(g)' \subseteq G(g)  BY <1>2
    <2>2. d \in L(g) /\ sent[d].to = g  BY ONLY sent' = sent, <1>2, <2>1, Zenon
    <2>3. d \notin G(g)  BY ONLY Apart, <1>2, <2>2, Zenon DEF Apart
    <2> QED  BY ONLY <2>1, <2>3, Zenon
  <1> QED  BY <1>1, <1>2, Zenon DEF Apart

LEMMA KeptStays ==
    ASSUME Kept, sent' = sent, losses' = losses, restarts' = restarts,
           \A g \in Hosts : P(g)' = P(g) /\ L(g)' = L(g) /\ G(g)' = G(g)
    PROVE  Kept'
  <1>1. ASSUME losses = 0, restarts = 0, NEW d \in 1 .. Len(sent), NEW a \in Hosts, NEW b \in Hosts,
               sent[d].from = a, sent[d].to = b
        PROVE  a # b /\ (d \in P(a)' \/ d \in L(b)' \/ d \in G(b)')
    <2>1. a # b /\ (d \in P(a) \/ d \in L(b) \/ d \in G(b))  BY ONLY Kept, <1>1, Zenon DEF Kept
    <2>2. P(a)' = P(a) /\ L(b)' = L(b) /\ G(b)' = G(b)  BY <1>1
    <2> QED  BY ONLY <2>1, <2>2, Zenon
  <1> QED  BY ONLY <1>1, sent' = sent, losses' = losses, restarts' = restarts, Zenon DEF Kept

LEMMA PlaceInit == Init => PlaceInv
  <1> SUFFICES ASSUME Init  PROVE PlaceInv  OBVIOUS
  <1>1. LanType  BY LanInit
  <1>2. /\ Len(sent) = 0 /\ restarts = 0 /\ restarts <= MaxRestarts
        /\ \A h \in Hosts : wire[h] = <<>> /\ got[h] = <<>>
    BY LanAssumption DEF Init
  <1>3. ASSUME NEW h \in Hosts  PROVE Fresh(nic[h], <<h, 0>>, h)
    <2> DEFINE e == <<h, 0>>
    <2>1. e \in Eths  BY LanAssumption DEF Eths
    <2>2. nic[h] = NewNetworkInterface(e, h)  BY DEF Init
    <2> HIDE DEF e
    <2>3. Fresh(nic[h], e, h)  BY ONLY h \in Hosts, <2>1, <2>2, NewNic, Zenon
    <2> QED  BY <2>3 DEF e
  <1>4. ASSUME NEW h \in Hosts
        PROVE  /\ NicOK(h, nic[h], restarts) /\ PendingOK(h, nic[h].pending, sent)
               /\ WireOK(wire[h], sent, restarts) /\ G(h) = {} /\ P(h) = {} /\ L(h) = {}
               /\ Distinct(nic[h].pending) /\ Once(wire[h]) /\ Injective(got[h])
    <2>1. nic[h].eth = <<h, 0>> /\ nic[h].ip = h /\ nic[h].pending = <<>> /\ DOMAIN nic[h].mapping = {}
      BY ONLY h \in Hosts, <1>3, Zenon DEF Fresh
    <2>2. <<h, 0>> \in Address(h, restarts)  BY <1>2 DEF Address
    <2>3. NicOK(h, nic[h], restarts)  BY ONLY <2>1, <2>2, Zenon DEF NicOK
    <2>4. \A s : s = <<>> => 1 .. Len(s) = {}  OBVIOUS
    <2>5. /\ 1 .. Len(nic[h].pending) = {} /\ 1 .. Len(wire[h]) = {} /\ 1 .. Len(got[h]) = {}
      BY ONLY <1>2, <1>4, <2>1, <2>4, Zenon
    <2>6. PendingOK(h, nic[h].pending, sent) /\ P(h) = {} /\ Distinct(nic[h].pending)
      BY ONLY <2>5, Zenon DEF PendingOK, P, Waits, Distinct
    <2>7. WireOK(wire[h], sent, restarts) /\ L(h) = {} /\ Once(wire[h])
      BY ONLY <2>5, LoadNone, Zenon DEF WireOK, L
    <2>8. G(h) = {} /\ Injective(got[h])  BY ONLY <2>5, Zenon DEF G, Members, Injective
    <2> QED  BY ONLY <2>3, <2>6, <2>7, <2>8, Zenon
  <1>5. Proper  BY ONLY <1>2, <1>4, Zenon DEF Proper
  <1>6. Apart  BY ONLY <1>4, Zenon DEF Apart
  <1>7. Kept
    <2>1. 1 .. Len(sent) = {}  BY ONLY <1>2, SMTT(30)
    <2> QED  BY ONLY <2>1, Zenon DEF Kept
  <1> QED  BY ONLY <1>1, <1>5, <1>6, <1>7, Zenon DEF PlaceInv

\* Time passes.
LEMMA PlaceTick ==
    ASSUME PlaceInv, LanType', NEW h \in Hosts, Ticks(h)
    PROVE  PlaceInv'
  <1>1. /\ Grows(nic'[h], nic[h]) /\ \A g \in Hosts \ {h} : nic'[g] = nic[g]
        /\ wire' = wire /\ got' = got /\ sent' = sent /\ losses' = losses /\ restarts' = restarts
    BY ONLY Ticks(h), Zenon DEF Ticks
  <1>2. LanType /\ Proper /\ Apart /\ Kept  BY Zenon DEF PlaceInv
  <1>3. \A g \in Hosts : nic'[g].pending = nic[g].pending  BY ONLY <1>1, Zenon DEF Grows
  <1>4. \A g \in Hosts : NicOK(g, nic[g], restarts)  BY ONLY <1>2, Zenon DEF Proper
  <1>5. NicOK(h, nic'[h], restarts)
    BY ONLY h \in Hosts, <1>1, <1>4, Zenon DEF Grows, NicOK
  <1>6. \A g \in Hosts : NicOK(g, nic'[g], restarts)  BY ONLY <1>1, <1>4, <1>5, Zenon
  <1>7. \A g \in Hosts : P(g)' = P(g) /\ L(g)' = L(g) /\ G(g)' = G(g)
    BY ONLY <1>1, <1>3, Zenon DEF P, L, G
  <1>8. Proper'  BY ONLY <1>1, <1>2, <1>3, <1>6, <1>7, Zenon DEF Proper
  <1>9. \A g \in Hosts : Distinct(nic'[g].pending) /\ Once(wire'[g]) /\ Injective(got'[g])
    BY ONLY <1>1, <1>2, <1>3, Zenon DEF Apart
  <1>10. \A g \in Hosts : P(g)' \subseteq P(g) /\ L(g)' \subseteq L(g) /\ G(g)' \subseteq G(g)
    BY ONLY <1>7, Zenon
  <1>11. Apart'  BY ONLY <1>1, <1>2, <1>9, <1>10, ApartStays, Zenon
  <1>12. Kept'  BY ONLY <1>1, <1>2, <1>7, KeptStays, Zenon
  <1> QED  BY ONLY LanType', <1>8, <1>11, <1>12, Zenon DEF PlaceInv

\* A frame is lost.
LEMMA PlaceLose ==
    ASSUME PlaceInv, LanType', NEW h \in Hosts, Loses(h)
    PROVE  PlaceInv'
  <1>1. /\ wire[h] # <<>> /\ wire'[h] = Tail(wire[h]) /\ \A g \in Hosts \ {h} : wire'[g] = wire[g]
        /\ losses' = losses + 1 /\ nic' = nic /\ got' = got /\ sent' = sent /\ restarts' = restarts
    BY ONLY Loses(h), Zenon DEF Loses
  <1>2. LanType /\ Proper /\ Apart  BY Zenon DEF PlaceInv
  <1>3. wire[h] \in Seq(Frames) /\ losses' # 0  BY <1>1, <1>2 DEF LanType
  <1>4. TailOf(wire'[h], wire[h])  BY ONLY <1>1, <1>3, TailLoad, Zenon
  <1>5. \A g \in Hosts : P(g)' = P(g) /\ L(g)' \subseteq L(g) /\ G(g)' = G(g)
    <2>1. L(h)' \subseteq L(h)  BY ONLY <1>4, Zenon DEF L, TailOf
    <2>2. \A g \in Hosts \ {h} : L(g)' = L(g)  BY ONLY <1>1, Zenon DEF L
    <2>3. \A g \in Hosts : P(g)' = P(g) /\ G(g)' = G(g)  BY ONLY <1>1, Zenon DEF P, G
    <2> QED  BY ONLY <2>1, <2>2, <2>3, Zenon
  <1>6. \A g \in Hosts : WireOK(wire[g], sent, restarts) /\ Once(wire[g])
    BY ONLY <1>2, Zenon DEF Proper, Apart
  <1>7. \A g \in Hosts : WireOK(wire'[g], sent, restarts) /\ Once(wire'[g])
    <2>1. WireOK(wire'[h], sent, restarts)  BY ONLY h \in Hosts, <1>4, <1>6, Zenon DEF TailOf, WireOK
    <2>2. Once(wire'[h])  BY ONLY h \in Hosts, <1>4, <1>6, Zenon DEF TailOf
    <2> QED  BY ONLY <2>1, <2>2, <1>1, <1>6, Zenon
  <1>8. Proper'  BY ONLY <1>1, <1>2, <1>5, <1>7, Zenon DEF Proper
  <1>9. Apart'
    <2>1. \A g \in Hosts : Distinct(nic'[g].pending) /\ Once(wire'[g]) /\ Injective(got'[g])
      BY ONLY <1>1, <1>2, <1>7, Zenon DEF Apart
    <2>2. \A g \in Hosts : P(g)' \subseteq P(g) /\ L(g)' \subseteq L(g) /\ G(g)' \subseteq G(g)
      BY ONLY <1>5, Zenon
    <2> QED  BY ONLY <1>1, <1>2, <2>1, <2>2, ApartStays, Zenon
  <1>10. Kept'  BY ONLY <1>3, Zenon DEF Kept
  <1> QED  BY ONLY LanType', <1>8, <1>9, <1>10, Zenon DEF PlaceInv

\* A program starts again.
LEMMA PlaceRestart ==
    ASSUME PlaceInv, LanType', NEW h \in Hosts, Restarts(h)
    PROVE  PlaceInv'
  <1>1. /\ restarts < MaxRestarts /\ restarts' = restarts + 1
        /\ Fresh(nic'[h], <<h, restarts + 1>>, h) /\ \A g \in Hosts \ {h} : nic'[g] = nic[g]
        /\ wire' = wire /\ got' = got /\ sent' = sent /\ losses' = losses
    BY ONLY Restarts(h), Zenon DEF Restarts
  <1>2. LanType /\ Proper /\ Apart  BY Zenon DEF PlaceInv
  <1>3. Later(restarts, restarts') /\ restarts' # 0 /\ restarts' <= MaxRestarts
    BY <1>1, <1>2, LanAssumption DEF LanType, Later
  <1>4. /\ nic'[h].eth = <<h, restarts + 1>> /\ nic'[h].ip = h /\ nic'[h].pending = <<>>
        /\ DOMAIN nic'[h].mapping = {}
    BY ONLY <1>1, Zenon DEF Fresh
  <1>5. <<h, restarts + 1>> \in Address(h, restarts')  BY <1>1, <1>2 DEF Address, LanType
  <1>6. NicOK(h, nic'[h], restarts')  BY ONLY <1>4, <1>5, Zenon DEF NicOK
  <1>7. 1 .. Len(nic'[h].pending) = {}
    <2>1. \A s : s = <<>> => 1 .. Len(s) = {}  OBVIOUS
    <2> QED  BY ONLY <1>4, <2>1, Zenon
  <1>8. PendingOK(h, nic'[h].pending, sent) /\ P(h)' = {} /\ Distinct(nic'[h].pending)
    BY ONLY <1>7, Zenon DEF PendingOK, P, Waits, Distinct
  <1>9. \A g \in Hosts : L(g)' = L(g) /\ G(g)' = G(g) /\ P(g)' \subseteq P(g)
    <2>1. \A g \in Hosts : L(g)' = L(g) /\ G(g)' = G(g)  BY ONLY <1>1, Zenon DEF L, G
    <2>2. \A g \in Hosts \ {h} : P(g)' = P(g)  BY ONLY <1>1, Zenon DEF P
    <2> QED  BY ONLY <1>8, <2>1, <2>2, Zenon
  <1>10. Proper'
    <2>1. \A g \in Hosts : /\ NicOK(g, nic[g], restarts) /\ PendingOK(g, nic[g].pending, sent)
                           /\ WireOK(wire[g], sent, restarts)
                           /\ \A d \in G(g) : d \in 1 .. Len(sent) /\ sent[d].to = g
      BY ONLY <1>2, Zenon DEF Proper
    <2>2. Extended(sent, sent, {})  BY ExtendedNone, Zenon
    <2>3. \A g \in Hosts : WireOK(wire'[g], sent', restarts')
      BY ONLY <1>1, <1>3, <2>1, <2>2, WireStays, Zenon
    <2>4. \A g \in Hosts : NicOK(g, nic[g], restarts')  BY ONLY <1>3, <2>1, NicStays, Zenon
    <2>5. \A g \in Hosts : NicOK(g, nic'[g], restarts')  BY ONLY <1>1, <1>6, <2>4, Zenon
    <2>6. \A g \in Hosts : PendingOK(g, nic'[g].pending, sent')  BY ONLY <1>1, <1>8, <2>1, Zenon
    <2>7. \A g \in Hosts : \A d \in G(g)' : d \in 1 .. Len(sent') /\ sent'[d].to = g
      BY ONLY <1>1, <1>9, <2>1, Zenon
    <2> QED  BY ONLY <1>3, <2>3, <2>5, <2>6, <2>7, Zenon DEF Proper
  <1>11. Apart'
    <2>1. \A g \in Hosts : Distinct(nic[g].pending) /\ Once(wire[g]) /\ Injective(got[g])
      BY ONLY <1>2, Zenon DEF Apart
    <2>2. \A g \in Hosts : Distinct(nic'[g].pending) /\ Once(wire'[g]) /\ Injective(got'[g])
      BY ONLY <1>1, <1>8, <2>1, Zenon
    <2>3. \A g \in Hosts : P(g)' \subseteq P(g) /\ L(g)' \subseteq L(g) /\ G(g)' \subseteq G(g)
      BY ONLY <1>9, Zenon
    <2> QED  BY ONLY <1>1, <1>2, <2>2, <2>3, ApartStays, Zenon
  <1>12. Kept'  BY ONLY <1>3, Zenon DEF Kept
  <1> QED  BY ONLY LanType', <1>10, <1>11, <1>12, Zenon DEF PlaceInv

LEMMA PlaceStep == PlaceInv /\ [Next]_vars => PlaceInv'
  <1> SUFFICES ASSUME PlaceInv, [Next]_vars  PROVE PlaceInv'  OBVIOUS
  <1>1. LanType  BY Zenon DEF PlaceInv
  <1>2. LanType'  BY ONLY <1>1, [Next]_vars, LanTypeStep, Zenon
  <1>3. ASSUME NEW h \in Hosts, NEW to \in Hosts, Write(h, to)  PROVE PlaceInv'
    <2> DEFINE d == Len(sent) + 1
               new == {d}
    <2>1. PICK n : Writes(h, to, n)  BY ONLY <1>1, <1>3, WriteIs, Zenon
    <2>2. Extended(sent, sent', new) /\ Handled(h, n, new)  BY ONLY PlaceInv, <1>3, <2>1, HandledWrite, Zenon
    <2>3. /\ n \in Nics /\ Delivered(h, n, wire[h]) /\ h # to /\ got' = got
          /\ sent' = Append(sent, [from |-> h, to |-> to]) /\ losses' = losses /\ restarts' = restarts
      BY ONLY <2>1, Zenon DEF Writes, Sends
    <2>4. Taken(h, wire[h], {})  BY ONLY PlaceInv, <1>3, <2>3, TakenNothing, ZenonT(30)
    <2>5. sent'[d] = [from |-> h, to |-> to]  BY <1>1, <2>3 DEF LanType
    <2> HIDE DEF d
    <2>6. \A i \in new : sent'[i].from = h /\ sent'[i].to # h
      <3> DEFINE e == [from |-> h, to |-> to]
      <3>1. e.from = h /\ e.to = to  OBVIOUS
      <3> HIDE DEF e
      <3>2. sent'[d] = e  BY ONLY <2>5, Zenon DEF e
      <3>3. sent'[d].from = h /\ sent'[d].to # h  BY ONLY <2>3, <3>1, <3>2, Zenon
      <3> QED  BY ONLY <3>3, Zenon
    <2> HIDE DEF new
    <2> QED  BY ONLY PlaceInv, <1>2, <1>3, <2>2, <2>3, <2>4, <2>6, PlaceSend, Zenon
  <1>4. ASSUME NEW h \in Hosts, Read(h)  PROVE PlaceInv'
    <2>1. PICK r : Reads(h, r)  BY ONLY <1>1, <1>4, ReadIs, Zenon
    <2>2. /\ r.nic \in Nics /\ Delivered(h, r.nic, Tail(wire[h])) /\ sent' = sent
          /\ losses' = losses /\ restarts' = restarts
      BY ONLY <2>1, Zenon DEF Reads, Received
    <2>3. Handled(h, r.nic, {})  BY ONLY PlaceInv, <1>4, <2>1, HandledRead, Zenon
    <2>4. PICK up : Taken(h, Tail(wire[h]), up)  BY ONLY PlaceInv, <1>4, <2>1, TakenRead, Zenon
    <2>5. Extended(sent, sent', {})  BY ONLY <2>2, ExtendedNone, Zenon
    <2>6. \A i \in {} : sent'[i].from = h /\ sent'[i].to # h  OBVIOUS
    <2> DEFINE none == {}
    <2>7. Handled(h, r.nic, none) /\ Extended(sent, sent', none)  BY ONLY <2>3, <2>5, Zenon
    <2>8. \A i \in none : sent'[i].from = h /\ sent'[i].to # h  BY ONLY <2>6, Zenon
    <2> HIDE DEF none
    <2> QED  BY ONLY PlaceInv, <1>2, <1>4, <2>2, <2>4, <2>7, <2>8, PlaceSend, Zenon
  <1>5. ASSUME NEW h \in Hosts, Tick(h)  PROVE PlaceInv'
    <2>1. Ticks(h)  BY ONLY <1>1, <1>5, TickIs, Zenon
    <2> QED  BY ONLY PlaceInv, <1>2, <1>5, <2>1, PlaceTick, Zenon
  <1>6. ASSUME NEW h \in Hosts, Lose(h)  PROVE PlaceInv'
    <2>1. Loses(h)  BY ONLY <1>1, <1>6, LoseIs, Zenon
    <2> QED  BY ONLY PlaceInv, <1>2, <1>6, <2>1, PlaceLose, Zenon
  <1>7. ASSUME NEW h \in Hosts, Restart(h)  PROVE PlaceInv'
    <2>1. Restarts(h)  BY ONLY <1>1, <1>7, RestartIs, Zenon
    <2> QED  BY ONLY PlaceInv, <1>2, <1>7, <2>1, PlaceRestart, Zenon
  <1>8. CASE UNCHANGED vars
    <2>1. /\ nic' = nic /\ wire' = wire /\ got' = got /\ sent' = sent
          /\ losses' = losses /\ restarts' = restarts
      BY <1>8 DEF vars
    <2>2. \A h \in Hosts : P(h)' = P(h) /\ L(h)' = L(h) /\ G(h)' = G(h)  BY ONLY <2>1, Zenon DEF P, L, G
    <2>3. Proper /\ Apart /\ Kept  BY Zenon DEF PlaceInv
    <2>4. Proper'  BY ONLY <2>1, <2>2, <2>3, Zenon DEF Proper
    <2>5. Apart'  BY ONLY <2>1, <2>2, <2>3, Zenon DEF Apart
    <2>6. Kept'  BY ONLY <2>1, <2>2, <2>3, KeptStays, Zenon
    <2> QED  BY ONLY <1>2, <2>4, <2>5, <2>6, ZenonT(30) DEF PlaceInv
  <1> QED  BY ONLY [Next]_vars, <1>3, <1>4, <1>5, <1>6, <1>7, <1>8, Zenon DEF Next

-----------------------------------------------------------------------------
\* What the places of one datagram are.

Held(d, h) == {k \in 1 .. Len(nic[h].pending) : nic[h].pending[k].dgram = d}
Coming(d, h) == {k \in 1 .. Len(wire[h]) : /\ wire[h][k].type = "IPv4"
                                           /\ wire[h][k].dgram = d
                                           /\ wire[h][k].dst = nic[h].eth}
Arrived(d, h) == {k \in 1 .. Len(got[h]) : got[h][k] = d}

\* x says that d is at h, in the place k of its list.
At(d, x, h, k) ==
    \/ x = <<<<"held", h>>, k>> /\ k \in Held(d, h)
    \/ x = <<<<"coming", h>>, k>> /\ k \in Coming(d, h)
    \/ x = <<<<"arrived", h>>, k>> /\ k \in Arrived(d, h)

LEMMA InPlaces ==
    ASSUME NEW d, NEW x
    PROVE  x \in Places(d) <=> \E h \in Hosts : \E k : At(d, x, h, k)
  <1> DEFINE A(h) == {<<"held", h>>} \X Held(d, h)
             B(h) == {<<"coming", h>>} \X Coming(d, h)
             C(h) == {<<"arrived", h>>} \X Arrived(d, h)
             U(h) == A(h) \cup B(h) \cup C(h)
  <1>1. Places(d) = UNION {U(h) : h \in Hosts}  BY Zenon DEF Places, Held, Coming, Arrived
  <1>2. \A h \in Hosts : x \in U(h) <=> \E k : At(d, x, h, k)  BY DEF At
  <1> HIDE DEF U
  <1>3. x \in UNION {U(h) : h \in Hosts} <=> \E h \in Hosts : x \in U(h)  OBVIOUS
  <1> QED  BY ONLY <1>1, <1>2, <1>3, Zenon

\* The places of a datagram that a sent to b: held by a, coming to b, arrived at b.
Located(d, a, b, h) ==
    /\ \A k \in Held(d, h) : h = a /\ d \in P(a)
    /\ \A k \in Coming(d, h) : h = b /\ d \in L(b)
    /\ \A k \in Arrived(d, h) : h = b /\ d \in G(b)
    /\ \A i, k \in Held(d, h) : i = k
    /\ \A i, k \in Coming(d, h) : i = k
    /\ \A i, k \in Arrived(d, h) : i = k

LEMMA Locate ==
    ASSUME PlaceInv, NEW d \in 1 .. Len(sent), NEW a, NEW b, sent[d].from = a, sent[d].to = b,
           NEW h \in Hosts
    PROVE  Located(d, a, b, h)
  <1>1. /\ NicOK(h, nic[h], restarts) /\ PendingOK(h, nic[h].pending, sent)
        /\ WireOK(wire[h], sent, restarts)
        /\ \A e \in G(h) : sent[e].to = h
        /\ Distinct(nic[h].pending) /\ Once(wire[h]) /\ Injective(got[h])
    BY Zenon DEF PlaceInv, Proper, Apart
  <1>2. \A k \in Held(d, h) : h = a /\ d \in P(a)
    <2> TAKE k \in Held(d, h)
    <2>1. k \in 1 .. Len(nic[h].pending) /\ nic[h].pending[k].dgram = d  BY Zenon DEF Held
    <2>2. sent[d].from = h  BY ONLY <1>1, <2>1, Zenon DEF PendingOK, EntryOK
    <2>3. d \in P(h)  BY ONLY <2>1, Zenon DEF P, Waits
    <2> QED  BY <2>2, <2>3
  <1>3. \A k \in Coming(d, h) : k \in Loads(wire[h]) /\ wire[h][k].dgram = d
    BY Zenon DEF Coming, Loads
  <1>4. \A k \in Coming(d, h) : h = b /\ d \in L(b)
    <2> TAKE k \in Coming(d, h)
    <2> DEFINE f == wire[h][k]
    <2>1. k \in 1 .. Len(wire[h]) /\ f.type = "IPv4" /\ f.dgram = d /\ f.dst = nic[h].eth
      BY Zenon DEF Coming
    <2>2. f.dst \in Address(b, restarts)
      <3>1. FrameOK(f, sent, restarts)  BY ONLY <1>1, <2>1, Zenon DEF WireOK
      <3> QED  BY ONLY sent[d].to = b, <3>1, <2>1, Zenon DEF FrameOK
    <2>3. f.dst \in Address(h, restarts)  BY ONLY <1>1, <2>1, Zenon DEF NicOK
    <2> DEFINE e == f.dst
    <2> HIDE DEF e
    <2>4. e \in Address(b, restarts) /\ e \in Address(h, restarts) => h = b  BY ONLY SMTT(30) DEF Address
    <2>5. h = b  BY ONLY <2>2, <2>3, <2>4, Zenon DEF e
    <2>6. d \in L(h)  BY ONLY <2>1, ZenonT(30) DEF L, Load, Loads
    <2> QED  BY <2>5, <2>6
  <1>5. \A k \in Arrived(d, h) : h = b /\ d \in G(b)
    <2> TAKE k \in Arrived(d, h)
    <2>1. k \in 1 .. Len(got[h]) /\ got[h][k] = d  BY Zenon DEF Arrived
    <2>2. d \in G(h)  BY ONLY <2>1, Zenon DEF G, Members
    <2> QED  BY <1>1, <2>2
  <1>6. \A i, k \in Held(d, h) : i = k  BY <1>1, Zenon DEF Held, Distinct
  <1>7. \A i, k \in Coming(d, h) : i = k  BY ONLY <1>1, <1>3, Zenon DEF Once
  <1>8. \A i, k \in Arrived(d, h) : i = k  BY ONLY <1>1, Zenon DEF Arrived, Injective
  <1> QED  BY ONLY <1>2, <1>4, <1>5, <1>6, <1>7, <1>8, Zenon DEF Located

LEMMA OnePlace ==
    ASSUME PlaceInv, NEW d \in 1 .. Len(sent), NEW x \in Places(d), NEW y \in Places(d)
    PROVE  x = y
  <1> DEFINE a == sent[d].from
             b == sent[d].to
  <1>1. a \in Hosts /\ b \in Hosts
    <2> DEFINE R == [from : Hosts, to : Hosts]
    <2>1. sent \in Seq(R)  BY ONLY PlaceInv, Zenon DEF PlaceInv, LanType, R
    <2> HIDE DEF R
    <2>2. sent[d] \in R  BY <2>1
    <2> QED  BY ONLY <2>2, Zenon DEF R
  <1>2. \A h \in Hosts : Located(d, a, b, h)  BY Locate, Zenon
  <1>3. PICK h \in Hosts : \E k : At(d, x, h, k)  BY InPlaces, Zenon
  <1>4. PICK g \in Hosts : \E k : At(d, y, g, k)  BY InPlaces, Zenon
  <1>5. PICK k : At(d, x, h, k)  BY <1>3
  <1>6. PICK i : At(d, y, g, i)  BY <1>4
  <1>7. Located(d, a, b, h) /\ Located(d, a, b, g)  BY ONLY <1>2, <1>3, <1>4, Zenon
  <1>8. ~(d \in P(a) /\ d \in L(b)) /\ ~(d \in P(a) /\ d \in G(b)) /\ ~(d \in L(b) /\ d \in G(b))
    <2>1. P(a) \cap L(b) = {} /\ P(a) \cap G(b) = {} /\ (d \in L(b) => d \notin G(b))
      BY <1>1, Zenon DEF PlaceInv, Apart
    <2> QED  BY ONLY <2>1, Zenon
  <1> HIDE DEF a, b
  <1>9. CASE x = <<<<"held", h>>, k>> /\ k \in Held(d, h)
    <2>1. h = a /\ d \in P(a)  BY ONLY <1>7, <1>9, Zenon DEF Located
    <2>2. ~(i \in Coming(d, g)) /\ ~(i \in Arrived(d, g))  BY ONLY <1>7, <1>8, <2>1, Zenon DEF Located
    <2>3. y = <<<<"held", g>>, i>> /\ i \in Held(d, g)  BY ONLY <1>6, <2>2, Zenon DEF At
    <2>4. g = h  BY ONLY <1>7, <2>1, <2>3, Zenon DEF Located
    <2>5. i = k  BY ONLY <1>7, <1>9, <2>3, <2>4, Zenon DEF Located
    <2> QED  BY ONLY <1>9, <2>3, <2>4, <2>5, Zenon
  <1>10. CASE x = <<<<"coming", h>>, k>> /\ k \in Coming(d, h)
    <2>1. h = b /\ d \in L(b)  BY ONLY <1>7, <1>10, Zenon DEF Located
    <2>2. ~(i \in Held(d, g)) /\ ~(i \in Arrived(d, g))  BY ONLY <1>7, <1>8, <2>1, Zenon DEF Located
    <2>3. y = <<<<"coming", g>>, i>> /\ i \in Coming(d, g)  BY ONLY <1>6, <2>2, Zenon DEF At
    <2>4. g = h  BY ONLY <1>7, <2>1, <2>3, Zenon DEF Located
    <2>5. i = k  BY ONLY <1>7, <1>10, <2>3, <2>4, Zenon DEF Located
    <2> QED  BY ONLY <1>10, <2>3, <2>4, <2>5, Zenon
  <1>11. CASE x = <<<<"arrived", h>>, k>> /\ k \in Arrived(d, h)
    <2>1. h = b /\ d \in G(b)  BY ONLY <1>7, <1>11, Zenon DEF Located
    <2>2. ~(i \in Held(d, g)) /\ ~(i \in Coming(d, g))  BY ONLY <1>7, <1>8, <2>1, Zenon DEF Located
    <2>3. y = <<<<"arrived", g>>, i>> /\ i \in Arrived(d, g)  BY ONLY <1>6, <2>2, Zenon DEF At
    <2>4. g = h  BY ONLY <1>7, <2>1, <2>3, Zenon DEF Located
    <2>5. i = k  BY ONLY <1>7, <1>11, <2>3, <2>4, Zenon DEF Located
    <2> QED  BY ONLY <1>11, <2>3, <2>4, <2>5, Zenon
  <1> QED  BY ONLY <1>5, <1>9, <1>10, <1>11, Zenon DEF At

LEMMA SomePlace ==
    ASSUME PlaceInv, NEW d \in 1 .. Len(sent), losses = 0, restarts = 0
    PROVE  \E x : x \in Places(d)
  <1> DEFINE a == sent[d].from
             b == sent[d].to
  <1>1. a \in Hosts /\ b \in Hosts
    <2> DEFINE R == [from : Hosts, to : Hosts]
    <2>1. sent \in Seq(R)  BY ONLY PlaceInv, Zenon DEF PlaceInv, LanType, R
    <2> HIDE DEF R
    <2>2. sent[d] \in R  BY <2>1
    <2> QED  BY ONLY <2>2, Zenon DEF R
  <1>2. d \in P(a) \/ d \in L(b) \/ d \in G(b)  BY <1>1, Zenon DEF PlaceInv, Kept
  <1>3. NicOK(b, nic[b], restarts) /\ WireOK(wire[b], sent, restarts)
    BY <1>1, Zenon DEF PlaceInv, Proper
  <1>4. CASE d \in P(a)
    <2>1. PICK k : k \in Held(d, a)  BY ONLY <1>4, Zenon DEF P, Waits, Held
    <2>2. At(d, <<<<"held", a>>, k>>, a, k)  BY ONLY <2>1, Zenon DEF At
    <2> QED  BY ONLY <1>1, <2>2, InPlaces, Zenon
  <1>5. CASE d \in L(b)
    <2>1. PICK k \in Loads(wire[b]) : wire[b][k].dgram = d  BY ONLY <1>5, Zenon DEF L, Load
    <2> DEFINE f == wire[b][k]
    <2>2. k \in 1 .. Len(wire[b]) /\ f.type = "IPv4" /\ f.dgram = d  BY ONLY <2>1, Zenon DEF Loads
    <2>3. f.dst \in Address(b, restarts)
      <3>1. FrameOK(f, sent, restarts)  BY ONLY <1>3, <2>2, Zenon DEF WireOK
      <3> QED  BY ONLY <3>1, <2>2, Zenon DEF FrameOK
    <2>4. nic[b].eth \in Address(b, restarts)  BY ONLY <1>3, Zenon DEF NicOK
    <2>5. \A c, e : c \in Address(b, restarts) /\ e \in Address(b, restarts) => c = e
      <3> HIDE DEF b
      <3> QED  BY ONLY restarts = 0, SMTT(30) DEF Address
    <2>6. k \in Coming(d, b)  BY ONLY <2>2, <2>3, <2>4, <2>5, Zenon DEF Coming
    <2>7. At(d, <<<<"coming", b>>, k>>, b, k)  BY ONLY <2>6, Zenon DEF At
    <2> QED  BY ONLY <1>1, <2>7, InPlaces, Zenon
  <1>6. CASE d \in G(b)
    <2>1. PICK k : k \in Arrived(d, b)  BY ONLY <1>6, Zenon DEF G, Members, Arrived
    <2>2. At(d, <<<<"arrived", b>>, k>>, b, k)  BY ONLY <2>1, ZenonT(30) DEF At
    <2> QED  BY ONLY <1>1, <2>2, InPlaces, Zenon
  <1> QED  BY ONLY <1>2, <1>4, <1>5, <1>6, Zenon

-----------------------------------------------------------------------------
\* From here on with what is known of finite sets.
INSTANCE FiniteSetTheorems

LEMMA RequestsNone ==
    ASSUME NEW frames, NEW ip, \A k \in 1 .. Len(frames) : ~IsRequest(frames[k], ip)
    PROVE  Requests(frames, ip) = 0
  <1>1. {k \in 1 .. Len(frames) : IsRequest(frames[k], ip)} = {}  BY Zenon
  <1> QED  BY ONLY <1>1, FS_EmptySet, Zenon DEF Requests

LEMMA RequestsOne ==
    ASSUME NEW f, NEW frames, frames = <<f>>, NEW ip, IsRequest(f, ip)
    PROVE  Requests(frames, ip) = 1
  <1>1. Len(frames) = 1 /\ frames[1] = f /\ 1 .. 1 = {1}  OBVIOUS
  <1>2. {k \in 1 .. Len(frames) : IsRequest(frames[k], ip)} = {1}  BY ONLY <1>1, IsRequest(f, ip), Zenon
  <1>3. Cardinality({1}) = 1  BY FS_Singleton, Zenon
  <1> QED  BY ONLY <1>2, <1>3, Zenon DEF Requests

LEMMA RequestsNat ==
    ASSUME NEW frames, Len(frames) \in Nat, NEW ip
    PROVE  Requests(frames, ip) \in Nat
  <1> DEFINE S == {k \in 1 .. Len(frames) : IsRequest(frames[k], ip)}
  <1>1. IsFiniteSet(1 .. Len(frames))  BY FS_Interval
  <1>2. S \subseteq 1 .. Len(frames)  OBVIOUS
  <1> HIDE DEF S
  <1>3. IsFiniteSet(S)  BY ONLY <1>1, <1>2, FS_Subset, Zenon
  <1>4. Cardinality(S) \in Nat  BY ONLY <1>3, FS_CardinalityType, Zenon
  <1> QED  BY ONLY <1>4, Zenon DEF S, Requests

LEMMA CountsRequests == RequestsCounted
  <1> SUFFICES ASSUME NEW frames, NEW ip
               PROVE  /\ Len(frames) \in Nat => Requests(frames, ip) \in Nat
                      /\ (\A k \in 1 .. Len(frames) : ~IsRequest(frames[k], ip)) =>
                             Requests(frames, ip) = 0
                      /\ \A f : frames = <<f>> /\ IsRequest(f, ip) => Requests(frames, ip) = 1
    BY Zenon DEF RequestsCounted
  <1>1. Len(frames) \in Nat => Requests(frames, ip) \in Nat  BY ONLY RequestsNat, Zenon
  <1>2. (\A k \in 1 .. Len(frames) : ~IsRequest(frames[k], ip)) => Requests(frames, ip) = 0
    BY ONLY RequestsNone, Zenon
  <1>3. \A f : frames = <<f>> /\ IsRequest(f, ip) => Requests(frames, ip) = 1
    BY ONLY RequestsOne, Zenon
  <1> QED  BY ONLY <1>1, <1>2, <1>3, Zenon

(***************************************************************************)
(* network_interface.cc:46, 98-109: whatever frames are lost and whichever *)
(* programs restart, a datagram is in one place at most; without losses    *)
(* and restarts it is in exactly one.                                      *)
(***************************************************************************)
THEOREM NoneDoubledOrDroppedAlways == Spec => []NoneDoubledOrDropped
  <1>1. PlaceInv => NoneDoubledOrDropped
    <2> SUFFICES ASSUME PlaceInv, NEW d \in 1 .. Len(sent)
                 PROVE  /\ Cardinality(Places(d)) <= 1
                        /\ losses = 0 /\ restarts = 0 => Cardinality(Places(d)) = 1
      BY Zenon DEF NoneDoubledOrDropped
    <2> DEFINE S == Places(d)
    <2>1. \A x, y \in S : x = y  BY OnePlace, Zenon
    <2>2. losses = 0 /\ restarts = 0 => \E x : x \in S  BY SomePlace, Zenon
    <2> HIDE DEF S
    <2>3. CASE S = {}
      <3>1. Cardinality(S) = 0  BY <2>3, FS_EmptySet
      <3> QED  BY <2>2, <2>3, <3>1 DEF S
    <2>4. CASE S # {}
      <3>1. PICK x : x \in S  BY <2>4
      <3>2. S = {x}  BY <2>1, <3>1
      <3>3. Cardinality({x}) = 1  BY FS_Singleton, Zenon
      <3>4. Cardinality(S) = 1  BY ONLY <3>2, <3>3, Zenon
      <3> QED  BY <3>4 DEF S
    <2> QED  BY <2>3, <2>4
  <1> QED  BY <1>1, PlaceInit, PlaceStep, PTL DEF Spec

(***************************************************************************)
(* network_interface.cc:48-51, 158-165: whatever is sent, received, lost   *)
(* or restarted, a host asks for an address at most once in any period of  *)
(* ARP_REQ_BLOCKING_TIME.                                                  *)
(***************************************************************************)
THEOREM NoFloodAlways == Spec => []NoFlood
  <1>1. FloodInv => NoFlood
    <2> SUFFICES ASSUME FloodInv, NEW h \in Hosts, NEW ip \in Hosts, NEW age \in Ages
                 PROVE  /\ asks[h][ip][age] <= 1
                        /\ asks[h][ip][age] = 1 =>
                               \A other \in Ages \ {age} : asks[h][ip][other] = 0
      BY Zenon DEF NoFlood
    <2> DEFINE p == nic[h].blocking
               a == asks[h][ip]
    <2>1. \A k \in Ages : a[k] = IF ip \in DOMAIN p /\ p[ip] = k THEN 1 ELSE 0
      BY Zenon DEF FloodInv, Counted
    <2> HIDE DEF p, a
    <2>2. a[age] <= 1 /\ (a[age] = 1 => \A other \in Ages \ {age} : a[other] = 0)
      BY ONLY <2>1, age \in Ages, SMTT(30)
    <2> QED  BY ONLY <2>2, Zenon DEF a
  <1> QED  BY <1>1, CountsRequests, FloodInit, FloodStep, PTL DEF Spec

=============================================================================
