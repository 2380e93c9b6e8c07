------------------------- MODULE ReassemblerProofs --------------------------
(***************************************************************************)
(* What push_substring does to a StreamReassembler, for every list, stream *)
(* length and capacity.  The merge loop works on sorted lists of nodes     *)
(* with holes between them, and every iteration keeps the bytes that have  *)
(* been got.  The lemmas are about objects, not about the state of one     *)
(* specification: ReassemblyProofs and ReceivingProofs both rest on them.  *)
(***************************************************************************)
EXTENDS PeerStream, PrimitiveProofs

\* A leaf is for SMT unless it names another prover.
USE SMTT(30)

\* Differences of indices need no reduction to the width of size_t.
LEMMA SmallSize ==
    ASSUME NEW i \in Nat, NEW j \in Nat, i <= j, j <= StreamLen + 1
    PROVE  SizeT(j - i) = j - i
  BY PeerStreamAssumption, SizeModAssumption DEF SizeT

-----------------------------------------------------------------------------
\* Lists of nodes.

Nodes == [s : Seq(Nat), beg : Nat, end : Nat]

\* The bytes i .. j-1 are bytes of the stream; behind the number of its end
\* mark a segment without data may come.
OfStream(i, j) == j <= StreamLen \/ (i = StreamLen + 1 /\ j = StreamLen + 1)

\* A node between the indices c and w holds the bytes it stands for; there
\* may be none.
NodeOK(nd, c, w) ==
    /\ nd \in Nodes
    /\ c < nd.beg /\ nd.beg <= nd.end + 1 /\ nd.end < w
    /\ OfStream(nd.beg, nd.end + 1)
    /\ nd.s = Bytes(nd.beg, nd.end + 1)

\* There is a hole between a and b.
Apart(a, b) == a.end + 1 < b.beg

\* A sorted list of such nodes with holes between them.
ListOK(list, c, w) ==
    /\ list \in Seq(Nodes)
    /\ \A k \in 1 .. Len(list) : NodeOK(list[k], c, w)
    /\ \A k, l \in 1 .. Len(list) : k < l => Apart(list[k], list[l])

\* All of the nodes of a are in front of all of b.
InFrontOf(a, b) == \A k \in 1 .. Len(a), l \in 1 .. Len(b) : Apart(a[k], b[l])

\* The stream indices of one node.
Span(nd) == nd.beg .. nd.end

LEMMA NodeNats ==
    ASSUME NEW nd, NEW c, NEW w, NodeOK(nd, c, w)
    PROVE  nd.beg \in Nat /\ nd.end \in Nat /\ nd.beg <= nd.end + 1
  BY DEF NodeOK, Nodes

LEMMA HeldMember ==
    ASSUME NEW list, NEW x
    PROVE  x \in Held(list) <=> \E k \in 1 .. Len(list) : x \in Span(list[k])
  BY DEF Held, Span

LEMMA HeldEmpty == Held(<<>>) = {}
  BY DEF Held, Span

\* The nodes behind the first one.
LEMMA TailList ==
    ASSUME NEW c \in Nat, NEW w \in Nat, NEW list, ListOK(list, c, w), list # <<>>
    PROVE  /\ NodeOK(Head(list), c, w)
           /\ ListOK(Tail(list), c, w)
           /\ \A k \in 1 .. Len(Tail(list)) : Apart(Head(list), Tail(list)[k])
           /\ Held(list) = Span(Head(list)) \cup Held(Tail(list))
  <1> DEFINE t == Tail(list)
             h == Head(list)
  <1>1. list \in Seq(Nodes) /\ Len(list) \in Nat /\ Len(list) >= 1  BY DEF ListOK
  <1>2. /\ h = list[1] /\ t \in Seq(Nodes) /\ Len(t) = Len(list) - 1
        /\ \A k \in 1 .. Len(t) : t[k] = list[k + 1]
    BY <1>1
  <1> HIDE DEF t, h
  <1>3. \A k \in 1 .. Len(t) : k + 1 \in 1 .. Len(list)  BY <1>1, <1>2
  <1>4. NodeOK(h, c, w)  BY <1>1, <1>2 DEF ListOK
  <1>5. \A k \in 1 .. Len(t) : NodeOK(t[k], c, w)  BY <1>2, <1>3 DEF ListOK
  <1>6. ASSUME NEW k \in 1 .. Len(t), NEW l \in 1 .. Len(t), k < l
        PROVE  Apart(t[k], t[l])
    <2>1. k + 1 \in 1 .. Len(list) /\ l + 1 \in 1 .. Len(list) /\ k + 1 < l + 1
      BY <1>1, <1>2, <1>6
    <2>2. Apart(list[k + 1], list[l + 1])  BY <2>1 DEF ListOK
    <2> QED  BY <2>2, <1>2
  <1>7. ASSUME NEW k \in 1 .. Len(t)  PROVE Apart(h, t[k])
    <2>1. 1 \in 1 .. Len(list) /\ k + 1 \in 1 .. Len(list) /\ 1 < k + 1
      BY <1>1, <1>2
    <2>2. Apart(list[1], list[k + 1])  BY <2>1 DEF ListOK
    <2> QED  BY <2>2, <1>2
  <1>8. ASSUME NEW x  PROVE x \in Held(list) <=> x \in Span(h) \cup Held(t)
    <2>1. ASSUME NEW k \in 1 .. Len(list), x \in Span(list[k])
          PROVE  x \in Span(h) \cup Held(t)
      <3>1. CASE k = 1  BY <2>1, <3>1, <1>2
      <3>2. CASE k # 1
        <4>1. k - 1 \in 1 .. Len(t) /\ t[k - 1] = list[k]  BY <3>2, <1>1, <1>2
        <4> QED  BY <4>1, <2>1, HeldMember
      <3> QED  BY <3>1, <3>2
    <2>2. x \in Span(h) => x \in Held(list)  BY <1>1, <1>2, HeldMember
    <2>3. ASSUME NEW k \in 1 .. Len(t), x \in Span(t[k])
          PROVE  x \in Held(list)
      BY <2>3, <1>2, <1>3, HeldMember
    <2> QED  BY <2>1, <2>2, <2>3, HeldMember
  <1> QED  BY <1>2, <1>4, <1>5, <1>6, <1>7, <1>8 DEF ListOK, t, h

\* t is the list with nd behind it.
Longer(t, list, nd) ==
    /\ t \in Seq(Nodes) /\ Len(t) = Len(list) + 1
    /\ \A k \in 1 .. Len(list) : t[k] = list[k]
    /\ t[Len(list) + 1] = nd

\* nd fits behind the nodes of the list.
FitsBehind(nd, list, c, w) ==
    /\ c \in Nat /\ w \in Nat /\ ListOK(list, c, w) /\ NodeOK(nd, c, w)
    /\ \A k \in 1 .. Len(list) : Apart(list[k], nd)

\* One node more at the end.
LEMMA AppendList ==
    ASSUME NEW c, NEW w, NEW list, NEW nd, FitsBehind(nd, list, c, w),
           NEW t, Longer(t, list, nd)
    PROVE  ListOK(t, c, w) /\ Held(t) = Held(list) \cup Span(nd)
  <1>7. /\ ListOK(list, c, w) /\ NodeOK(nd, c, w)
        /\ \A k \in 1 .. Len(list) : Apart(list[k], nd)
    BY Zenon DEF FitsBehind
  <1>1. list \in Seq(Nodes) /\ Len(list) \in Nat /\ nd \in Nodes  BY <1>7 DEF ListOK, NodeOK
  <1>2. /\ t \in Seq(Nodes) /\ Len(t) = Len(list) + 1
        /\ \A k \in 1 .. Len(list) : t[k] = list[k]
        /\ t[Len(list) + 1] = nd
    BY Zenon DEF Longer
  <1>3. \A k \in 1 .. Len(t) : k \in 1 .. Len(list) \/ k = Len(list) + 1  BY <1>1, <1>2
  <1>4. \A k \in 1 .. Len(t) : NodeOK(t[k], c, w)  BY <1>2, <1>3, <1>7 DEF ListOK
  <1>5. ASSUME NEW k \in 1 .. Len(t), NEW l \in 1 .. Len(t), k < l
        PROVE  Apart(t[k], t[l])
    <2>1. k \in 1 .. Len(list)  BY <1>1, <1>2, <1>5
    <2>2. CASE l \in 1 .. Len(list)  BY <2>1, <2>2, <1>2, <1>5, <1>7 DEF ListOK
    <2>3. CASE l = Len(list) + 1  BY <2>1, <2>3, <1>2, <1>7
    <2> QED  BY <2>2, <2>3, <1>3
  <1>6. ASSUME NEW x  PROVE x \in Held(t) <=> x \in Held(list) \cup Span(nd)
    <2>1. x \in Held(t) <=> \E k \in 1 .. Len(t) : x \in Span(t[k])
      BY HeldMember
    <2>2. x \in Held(list) <=> \E k \in 1 .. Len(list) : x \in Span(list[k])
      BY HeldMember
    <2>3. \A k \in 1 .. Len(list) : k \in 1 .. Len(t)  BY <1>1, <1>2
    <2>4. Len(list) + 1 \in 1 .. Len(t)  BY <1>1, <1>2
    <2> QED  BY <2>1, <2>2, <2>3, <2>4, <1>2, <1>3
  <1> QED  BY <1>2, <1>4, <1>5, <1>6 DEF ListOK

\* One list behind another.
LEMMA ConcatList ==
    ASSUME NEW c \in Nat, NEW w \in Nat, NEW a, ListOK(a, c, w), NEW b, ListOK(b, c, w),
           InFrontOf(a, b)
    PROVE  /\ ListOK(a \o b, c, w)
           /\ Held(a \o b) = Held(a) \cup Held(b)
  <1> DEFINE t == a \o b
  <1>1. a \in Seq(Nodes) /\ b \in Seq(Nodes) /\ Len(a) \in Nat /\ Len(b) \in Nat  BY DEF ListOK
  <1>2. /\ t \in Seq(Nodes) /\ Len(t) = Len(a) + Len(b)
        /\ \A k \in 1 .. Len(a) + Len(b) : t[k] = IF k <= Len(a) THEN a[k] ELSE b[k - Len(a)]
    BY <1>1, ConcatProperties
  <1> HIDE DEF t
  <1>3. ASSUME NEW k \in 1 .. Len(t)
        PROVE  \/ k \in 1 .. Len(a) /\ t[k] = a[k]
               \/ k - Len(a) \in 1 .. Len(b) /\ t[k] = b[k - Len(a)]
    BY <1>1, <1>2
  <1>4. \A k \in 1 .. Len(a) : k \in 1 .. Len(t) /\ t[k] = a[k]  BY <1>1, <1>2
  <1>5. ASSUME NEW k \in 1 .. Len(b)
        PROVE  Len(a) + k \in 1 .. Len(t) /\ t[Len(a) + k] = b[k]
    BY <1>1, <1>2
  <1>6. \A k \in 1 .. Len(t) : NodeOK(t[k], c, w)  BY <1>3 DEF ListOK
  <1>7. ASSUME NEW k \in 1 .. Len(t), NEW l \in 1 .. Len(t), k < l
        PROVE  Apart(t[k], t[l])
    <2>1. CASE l \in 1 .. Len(a)
      <3>1. k \in 1 .. Len(a)  BY <2>1, <1>1, <1>7
      <3> QED  BY <2>1, <3>1, <1>4, <1>7 DEF ListOK
    <2>2. CASE k \in 1 .. Len(a) /\ ~(l \in 1 .. Len(a))
      BY <2>2, <1>3, <1>4 DEF InFrontOf
    <2>3. CASE ~(k \in 1 .. Len(a)) /\ ~(l \in 1 .. Len(a))
      <3>1. k - Len(a) \in 1 .. Len(b) /\ t[k] = b[k - Len(a)]  BY <2>3, <1>3
      <3>2. l - Len(a) \in 1 .. Len(b) /\ t[l] = b[l - Len(a)]  BY <2>3, <1>3
      <3>3. k - Len(a) < l - Len(a)  BY <1>1, <1>2, <1>7
      <3> QED  BY <3>1, <3>2, <3>3, Zenon DEF ListOK
    <2> QED  BY <2>1, <2>2, <2>3
  <1>8. ASSUME NEW x  PROVE x \in Held(t) <=> x \in Held(a) \cup Held(b)
    <2>1. x \in Held(t) => x \in Held(a) \cup Held(b)  BY <1>3, HeldMember
    <2>2. x \in Held(a) => x \in Held(t)  BY <1>4, HeldMember
    <2>3. x \in Held(b) => x \in Held(t)  BY <1>5, HeldMember
    <2> QED  BY <2>1, <2>2, <2>3
  <1> QED  BY <1>2, <1>6, <1>7, <1>8 DEF ListOK, t

\* a .. b are places in the list.
Places(a, b, list) == a \in 1 .. Len(list) + 1 /\ b \in 0 .. Len(list) /\ a <= b + 1

\* A run of nodes of a list.
LEMMA SubList ==
    ASSUME NEW c, NEW w, NEW list, ListOK(list, c, w), NEW a, NEW b, Places(a, b, list)
    PROVE  /\ ListOK(SubSeq(list, a, b), c, w)
           /\ Len(SubSeq(list, a, b)) = b - a + 1
           /\ \A k \in 1 .. b - a + 1 : SubSeq(list, a, b)[k] = list[a + k - 1]
  <1> DEFINE t == SubSeq(list, a, b)
  <1>1. /\ list \in Seq(Nodes) /\ Len(list) \in Nat
        /\ a \in 1 .. Len(list) + 1 /\ b \in 0 .. Len(list) /\ a <= b + 1
    BY DEF ListOK, Places
  <1>2. \A k \in a .. b : list[k] \in Nodes  BY <1>1
  <1>3. /\ t \in Seq(Nodes) /\ Len(t) = b - a + 1
        /\ \A k \in 1 .. b - a + 1 : t[k] = list[a + k - 1]
    BY <1>1, <1>2, SubSeqProperties
  <1> HIDE DEF t
  <1>4. \A k \in 1 .. Len(t) : a + k - 1 \in 1 .. Len(list)  BY <1>1, <1>3
  <1>5. \A k \in 1 .. Len(t) : NodeOK(t[k], c, w)  BY <1>3, <1>4 DEF ListOK
  <1>6. ASSUME NEW k \in 1 .. Len(t), NEW l \in 1 .. Len(t), k < l
        PROVE  Apart(t[k], t[l])
    <2>1. /\ a + k - 1 \in 1 .. Len(list) /\ a + l - 1 \in 1 .. Len(list)
          /\ a + k - 1 < a + l - 1
      BY ONLY <1>1, <1>3, <1>4, <1>6, SMTT(30)
    <2>2. Apart(list[a + k - 1], list[a + l - 1])  BY <2>1 DEF ListOK
    <2> QED  BY <2>2, <1>3
  <1> QED  BY <1>3, <1>5, <1>6 DEF ListOK, t

\* One node more at the place where it belongs.
LEMMA InsertList ==
    ASSUME NEW c \in Nat, NEW w \in Nat, NEW list, ListOK(list, c, w),
           NEW nd, NodeOK(nd, c, w), NEW at \in 1 .. Len(list) + 1,
           \A k \in 1 .. Len(list) : k < at => Apart(list[k], nd),
           \A k \in 1 .. Len(list) : k >= at => Apart(nd, list[k])
    PROVE  /\ ListOK(Inserted(list, at, nd), c, w)
           /\ Held(Inserted(list, at, nd)) = Held(list) \cup Span(nd)
  <1> DEFINE a == SubSeq(list, 1, at - 1)
             b == SubSeq(list, at, Len(list))
             d == Append(a, nd)
  <1>1. list \in Seq(Nodes) /\ Len(list) \in Nat /\ nd \in Nodes  BY DEF ListOK, NodeOK
  <1>2. /\ ListOK(a, c, w) /\ Len(a) = at - 1
        /\ \A k \in 1 .. at - 1 : a[k] = list[k]
    <2>1. Places(1, at - 1, list)  BY <1>1 DEF Places
    <2>2. /\ ListOK(a, c, w) /\ Len(a) = at - 1 - 1 + 1
          /\ \A k \in 1 .. at - 1 - 1 + 1 : a[k] = list[1 + k - 1]
      BY <2>1, SubList
    <2> QED  BY <2>2
  <1>3. /\ ListOK(b, c, w) /\ Len(b) = Len(list) - at + 1
        /\ \A k \in 1 .. Len(list) - at + 1 : b[k] = list[at + k - 1]
    <2>1. Places(at, Len(list), list) /\ ListOK(list, c, w)  BY <1>1 DEF Places
    <2> QED  BY ONLY <2>1, SubList, SMTT(30)
  <1>4. a \o <<nd>> = d  BY <1>1, <1>2 DEF ListOK
  <1> HIDE DEF a, b
  <1>5. \A k \in 1 .. Len(a) : Apart(a[k], nd)  BY <1>1, <1>2
  <1>6. /\ d \in Seq(Nodes) /\ Len(d) = Len(a) + 1
        /\ \A k \in 1 .. Len(a) : d[k] = a[k]
        /\ d[Len(a) + 1] = nd
    BY <1>1, <1>2 DEF ListOK
  <1> HIDE DEF d
  <1>7. ListOK(d, c, w) /\ Held(d) = Held(a) \cup Span(nd)
    BY <1>2, <1>5, <1>6, AppendList DEF FitsBehind, Longer
  <1>8. ASSUME NEW k \in 1 .. Len(d), NEW l \in 1 .. Len(b)  PROVE Apart(d[k], b[l])
    <2>1. at + l - 1 \in 1 .. Len(list) /\ at + l - 1 >= at /\ b[l] = list[at + l - 1]
      BY <1>1, <1>3
    <2>2. CASE k \in 1 .. Len(a)
      <3>1. k \in 1 .. Len(list) /\ d[k] = list[k] /\ k < at + l - 1
        BY <2>1, <2>2, <1>1, <1>2, <1>6
      <3> QED  BY <3>1, <2>1 DEF ListOK
    <2>3. CASE k = Len(a) + 1  BY <2>1, <2>3, <1>6
    <2> QED  BY <2>2, <2>3, <1>2, <1>6
  <1>9. ListOK(d \o b, c, w) /\ Held(d \o b) = Held(d) \cup Held(b)
    BY <1>3, <1>7, <1>8, ConcatList DEF InFrontOf
  <1>10. ASSUME NEW x  PROVE x \in Held(list) <=> x \in Held(a) \cup Held(b)
    <2>1. ASSUME NEW k \in 1 .. Len(list), x \in Span(list[k])
          PROVE  x \in Held(a) \cup Held(b)
      <3>1. CASE k < at
        <4>1. k \in 1 .. Len(a) /\ a[k] = list[k]  BY <3>1, <1>1, <1>2
        <4> QED  BY <4>1, <2>1, HeldMember
      <3>2. CASE k >= at
        <4>1. k - at + 1 \in 1 .. Len(b) /\ b[k - at + 1] = list[k]  BY <3>2, <1>1, <1>3
        <4> QED  BY <4>1, <2>1, HeldMember
      <3> QED  BY <3>1, <3>2, <1>1
    <2>2. ASSUME NEW k \in 1 .. Len(a)  PROVE k \in 1 .. Len(list) /\ a[k] = list[k]
      BY <1>1, <1>2
    <2>3. ASSUME NEW k \in 1 .. Len(b)
          PROVE  at + k - 1 \in 1 .. Len(list) /\ b[k] = list[at + k - 1]
      BY <1>1, <1>3
    <2>4. x \in Held(a) => x \in Held(list)  BY <2>2, HeldMember
    <2>5. x \in Held(b) => x \in Held(list)  BY <2>3, HeldMember
    <2> QED  BY <2>1, <2>4, <2>5, HeldMember
  <1>11. Inserted(list, at, nd) = d \o b  BY <1>4, Zenon DEF Inserted, a, b
  <1> QED  BY <1>7, <1>9, <1>10, <1>11

-----------------------------------------------------------------------------
\* The merge loop.  The data are the bytes left .. e-1 of the stream.

\* The nodes the loop has passed lie in front of a hole before the data or
\* behind a hole after them.
Parted(kept, left, e) ==
    \E p \in 0 .. Len(kept) :
        /\ \A k \in 1 .. Len(kept) : k <= p => kept[k].end + 1 < left
        /\ \A k \in 1 .. Len(kept) : k > p => e < kept[k].beg

Merging(data, left, e, kept, rest, c, w) ==
    /\ left \in Nat /\ e \in Nat /\ c <= left /\ left <= e /\ e <= w /\ OfStream(left, e)
    /\ data = Bytes(left, e)
    /\ ListOK(kept, c, w) /\ ListOK(rest, c, w) /\ InFrontOf(kept, rest)
    /\ Parted(kept, left, e)

Got(left, e, kept, rest) == (left .. e - 1) \cup Held(kept) \cup Held(rest)

\* The loop is at the node it, in front of the nodes u.
IsNext(it, u, rest) == rest # <<>> /\ it = Head(rest) /\ u = Tail(rest)

AtNode(it, u, kept, rest, c, w) ==
    /\ c \in Nat /\ w \in Nat
    /\ ListOK(kept, c, w) /\ ListOK(rest, c, w) /\ InFrontOf(kept, rest)
    /\ IsNext(it, u, rest)

\* What the next node is to the nodes around it.
LEMMA NextNode ==
    ASSUME NEW c, NEW w, NEW kept, NEW rest, NEW it, NEW u, AtNode(it, u, kept, rest, c, w)
    PROVE  /\ NodeOK(it, c, w)
           /\ \A k \in 1 .. Len(kept) : NodeOK(kept[k], c, w) /\ Apart(kept[k], it)
           /\ ListOK(u, c, w)
           /\ InFrontOf(kept, u)
           /\ \A k \in 1 .. Len(u) : Apart(it, u[k])
           /\ Held(rest) = Span(it) \cup Held(u)
  <1> USE DEF AtNode
  <1>1. /\ NodeOK(it, c, w) /\ ListOK(u, c, w)
        /\ \A k \in 1 .. Len(u) : Apart(it, u[k])
        /\ Held(rest) = Span(it) \cup Held(u)
    BY TailList DEF IsNext
  <1>2. rest \in Seq(Nodes) /\ Len(rest) \in Nat /\ Len(rest) >= 1  BY DEF ListOK, IsNext
  <1>3. /\ it = rest[1] /\ 1 \in 1 .. Len(rest)
        /\ \A k \in 1 .. Len(u) : u[k] = rest[k + 1] /\ k + 1 \in 1 .. Len(rest)
    BY <1>2 DEF IsNext
  <1>4. \A k \in 1 .. Len(kept) : NodeOK(kept[k], c, w)  BY DEF ListOK
  <1>5. \A k \in 1 .. Len(kept) : Apart(kept[k], it)  BY <1>3 DEF InFrontOf
  <1>6. InFrontOf(kept, u)  BY <1>3 DEF InFrontOf
  <1> QED  BY <1>1, <1>4, <1>5, <1>6

\* A node that does not touch the data is passed over.
LEMMA KeepNode ==
    ASSUME NEW c \in Nat, NEW w \in Nat, NEW data, NEW left, NEW e, NEW kept, NEW rest,
           Merging(data, left, e, kept, rest, c, w),
           NEW it, NEW u, IsNext(it, u, rest), it.end + 1 < left \/ e < it.beg
    PROVE  /\ Merging(data, left, e, Append(kept, it), u, c, w)
           /\ Got(left, e, Append(kept, it), u) = Got(left, e, kept, rest)
  <1> DEFINE t == Append(kept, it)
  <1>1. /\ ListOK(kept, c, w) /\ ListOK(rest, c, w) /\ InFrontOf(kept, rest)
        /\ left \in Nat /\ e \in Nat /\ Parted(kept, left, e)
    BY DEF Merging
  <1>2. /\ NodeOK(it, c, w) /\ ListOK(u, c, w) /\ InFrontOf(kept, u)
        /\ \A k \in 1 .. Len(kept) : NodeOK(kept[k], c, w) /\ Apart(kept[k], it)
        /\ \A k \in 1 .. Len(u) : Apart(it, u[k])
        /\ Held(rest) = Span(it) \cup Held(u)
    <2>1. AtNode(it, u, kept, rest, c, w)  BY <1>1 DEF AtNode
    <2> QED  BY ONLY <2>1, NextNode, SMTT(30)
  <1>3. kept \in Seq(Nodes) /\ Len(kept) \in Nat /\ it \in Nodes  BY <1>1, <1>2 DEF ListOK, NodeOK
  <1>4. /\ t \in Seq(Nodes) /\ Len(t) = Len(kept) + 1
        /\ \A k \in 1 .. Len(kept) : t[k] = kept[k]
        /\ t[Len(kept) + 1] = it
    BY <1>3
  <1> HIDE DEF t
  <1>5. ListOK(t, c, w) /\ Held(t) = Held(kept) \cup Span(it)
    <2>1. \A k \in 1 .. Len(kept) : Apart(kept[k], it)  BY <1>2
    <2>2. ListOK(kept, c, w) /\ NodeOK(it, c, w) /\ c \in Nat /\ w \in Nat  BY <1>1, <1>2
    <2>3. FitsBehind(it, kept, c, w)  BY <2>1, <2>2, Zenon DEF FitsBehind
    <2>4. Longer(t, kept, it)  BY <1>4, Zenon DEF Longer
    <2> QED  BY ONLY <2>3, <2>4, AppendList, SMTT(30)
  <1>6. \A k \in 1 .. Len(t) : k \in 1 .. Len(kept) \/ k = Len(kept) + 1  BY <1>3, <1>4
  <1>7. InFrontOf(t, u)  BY <1>2, <1>4, <1>6 DEF InFrontOf
  <1>8. Parted(t, left, e)
    <2>1. CASE it.end + 1 < left
      <3>1. ASSUME NEW k \in 1 .. Len(t)  PROVE t[k].end + 1 < left
        <4>1. CASE k \in 1 .. Len(kept)
          <5>1. t[k] = kept[k] /\ Apart(kept[k], it)  BY <4>1, <1>2, <1>4
          <5>2. kept[k].end \in Nat /\ it.beg \in Nat /\ it.end \in Nat /\ it.beg <= it.end + 1
            BY <4>1, <1>2, NodeNats
          <5> QED  BY <5>1, <5>2, <2>1, <1>1 DEF Apart
        <4>2. CASE k = Len(kept) + 1  BY <4>2, <2>1, <1>4
        <4> QED  BY <4>1, <4>2, <1>6
      <3>2. Len(t) \in 0 .. Len(t) /\ \A k \in 1 .. Len(t) : ~(k > Len(t))  BY <1>3, <1>4
      <3> QED  BY <3>1, <3>2 DEF Parted
    <2>2. CASE e < it.beg
      <3>1. PICK p \in 0 .. Len(kept) :
                 /\ \A k \in 1 .. Len(kept) : k <= p => kept[k].end + 1 < left
                 /\ \A k \in 1 .. Len(kept) : k > p => e < kept[k].beg
        BY <1>1 DEF Parted
      <3>2. p \in 0 .. Len(t)  BY <1>3, <1>4
      <3>3. ASSUME NEW k \in 1 .. Len(t)
            PROVE  (k <= p => t[k].end + 1 < left) /\ (k > p => e < t[k].beg)
        <4>1. CASE k \in 1 .. Len(kept)  BY <4>1, <3>1, <1>4
        <4>2. CASE k = Len(kept) + 1  BY <4>2, <3>1, <2>2, <1>3, <1>4
        <4> QED  BY <4>1, <4>2, <1>6
      <3> QED  BY <3>2, <3>3 DEF Parted
    <2> QED  BY <2>1, <2>2
  <1>9. Merging(data, left, e, t, u, c, w)  BY <1>2, <1>5, <1>7, <1>8 DEF Merging
  <1>10. Got(left, e, t, u) = Got(left, e, kept, rest)  BY <1>2, <1>5 DEF Got
  <1> QED  BY <1>9, <1>10 DEF t

\* The kept nodes are all in front of one that follows them.
LEMMA PartedBehind ==
    ASSUME NEW c \in Nat, NEW w \in Nat, NEW kept, ListOK(kept, c, w), NEW left \in Nat,
           NEW e, \A k \in 1 .. Len(kept) : kept[k].end + 1 < left
    PROVE  Parted(kept, left, e)
  <1>1. Len(kept) \in Nat  BY DEF ListOK
  <1>2. Len(kept) \in 0 .. Len(kept) /\ \A k \in 1 .. Len(kept) : ~(k > Len(kept))  BY <1>1
  <1> QED  BY <1>2 DEF Parted

\* A node within the data is dropped.
LEMMA DropNode ==
    ASSUME NEW c \in Nat, NEW w \in Nat, NEW data, NEW left, NEW e, NEW kept, NEW rest,
           Merging(data, left, e, kept, rest, c, w),
           NEW it, NEW u, IsNext(it, u, rest), left <= it.beg, it.end <= e - 1
    PROVE  /\ Merging(data, left, e, kept, u, c, w)
           /\ Got(left, e, kept, u) = Got(left, e, kept, rest)
  <1>1. /\ ListOK(kept, c, w) /\ ListOK(rest, c, w) /\ InFrontOf(kept, rest)
        /\ left \in Nat /\ e \in Nat
    BY DEF Merging
  <1>2. /\ NodeOK(it, c, w) /\ ListOK(u, c, w) /\ InFrontOf(kept, u)
        /\ Held(rest) = Span(it) \cup Held(u)
    <2>1. AtNode(it, u, kept, rest, c, w)  BY <1>1 DEF AtNode
    <2> QED  BY ONLY <2>1, NextNode, SMTT(30)
  <1>3. Span(it) \subseteq left .. e - 1  BY <1>1, <1>2 DEF Span, NodeOK, Nodes
  <1>4. Merging(data, left, e, kept, u, c, w)  BY <1>2 DEF Merging
  <1>5. Got(left, e, kept, u) = Got(left, e, kept, rest)  BY <1>2, <1>3 DEF Got
  <1> QED  BY <1>4, <1>5

\* A node that reaches into the data from the left gives them its first bytes.
LEMMA JoinLeft ==
    ASSUME NEW c \in Nat, NEW w \in Nat, NEW data, NEW left, NEW e, NEW kept, NEW rest,
           Merging(data, left, e, kept, rest, c, w),
           NEW it, NEW u, IsNext(it, u, rest),
           it.beg < left, left <= it.end + 1, it.end + 1 <= e
    PROVE  /\ Merging(Substr(it.s, 0, left - it.beg) \o data, it.beg, e, kept, u, c, w)
           /\ Got(it.beg, e, kept, u) = Got(left, e, kept, rest)
  <1> DEFINE joined == Substr(it.s, 0, left - it.beg) \o data
  <1>1. /\ ListOK(kept, c, w) /\ ListOK(rest, c, w) /\ InFrontOf(kept, rest)
        /\ left \in Nat /\ e \in Nat /\ left <= e /\ e <= w /\ OfStream(left, e)
        /\ data = Bytes(left, e)
    BY DEF Merging
  <1>2. /\ NodeOK(it, c, w) /\ ListOK(u, c, w) /\ InFrontOf(kept, u)
        /\ \A k \in 1 .. Len(kept) : NodeOK(kept[k], c, w) /\ Apart(kept[k], it)
        /\ Held(rest) = Span(it) \cup Held(u)
    <2>1. AtNode(it, u, kept, rest, c, w)  BY <1>1 DEF AtNode
    <2> QED  BY ONLY <2>1, NextNode, SMTT(30)
  <1>3. /\ it.beg \in Nat /\ it.end \in Nat /\ c < it.beg /\ it.s = Bytes(it.beg, it.end + 1)
        /\ OfStream(it.beg, it.end + 1)
    BY <1>2 DEF NodeOK, Nodes
  <1>9. OfStream(it.beg, e)  BY <1>1, <1>3, PeerStreamAssumption DEF OfStream
  <1>4. joined = Bytes(it.beg, e)
    <2>1. Substr(Bytes(it.beg, it.end + 1), 0, left - it.beg) = Bytes(it.beg, it.beg + (left - it.beg))
      <3>1. it.end + 1 \in Nat /\ it.beg <= it.end + 1 /\ left - it.beg \in Nat
            /\ left - it.beg <= (it.end + 1) - it.beg
        BY <1>1, <1>3
      <3> QED  BY <3>1, <1>3, BytesPrefix
    <2>2. it.beg + (left - it.beg) = left  BY <1>1, <1>3
    <2>3. Bytes(it.beg, left) \o Bytes(left, e) = Bytes(it.beg, e)
      <3>1. /\ it.beg \in Nat /\ left \in Nat /\ e \in Nat
            /\ it.beg <= left /\ left <= e
        BY <1>1, <1>3
      <3> QED  BY ONLY <3>1, BytesConcat, ZenonT(30)
    <2> QED  BY <2>1, <2>2, <2>3, <1>1, <1>3, Zenon
  <1> HIDE DEF joined
  <1>5. Parted(kept, it.beg, e)
    <2>1. \A k \in 1 .. Len(kept) : kept[k].end + 1 < it.beg  BY <1>2 DEF Apart
    <2> QED  BY <2>1, <1>1, <1>3, PartedBehind
  <1>6. Merging(joined, it.beg, e, kept, u, c, w)
    BY <1>1, <1>2, <1>3, <1>4, <1>5, <1>9 DEF Merging
  <1>7. it.beg .. e - 1 = (left .. e - 1) \cup Span(it)  BY <1>1, <1>3 DEF Span
  <1>8. Got(it.beg, e, kept, u) = Got(left, e, kept, rest)  BY <1>2, <1>7 DEF Got
  <1> QED  BY <1>6, <1>8 DEF joined

\* A node that reaches out of the data to the right gives them its last bytes.
LEMMA JoinRight ==
    ASSUME NEW c \in Nat, NEW w \in Nat, NEW data, NEW left, NEW e, NEW kept, NEW rest,
           Merging(data, left, e, kept, rest, c, w),
           NEW it, NEW u, IsNext(it, u, rest),
           left < it.beg, it.beg <= e, e < it.end + 1
    PROVE  /\ Merging(data \o Substr(it.s, e - it.beg, Len(it.s)), left, it.end + 1,
                      kept, u, c, w)
           /\ Got(left, it.end + 1, kept, u) = Got(left, e, kept, rest)
  <1> DEFINE joined == data \o Substr(it.s, e - it.beg, Len(it.s))
  <1>1. /\ ListOK(kept, c, w) /\ ListOK(rest, c, w) /\ InFrontOf(kept, rest)
        /\ left \in Nat /\ e \in Nat /\ c <= left /\ left <= e
        /\ data = Bytes(left, e) /\ Parted(kept, left, e)
    BY DEF Merging
  <1>2. /\ NodeOK(it, c, w) /\ ListOK(u, c, w) /\ InFrontOf(kept, u)
        /\ \A k \in 1 .. Len(kept) : NodeOK(kept[k], c, w) /\ Apart(kept[k], it)
        /\ Held(rest) = Span(it) \cup Held(u)
    <2>1. AtNode(it, u, kept, rest, c, w)  BY <1>1 DEF AtNode
    <2> QED  BY ONLY <2>1, NextNode, SMTT(30)
  <1>3. /\ it.beg \in Nat /\ it.end \in Nat /\ it.s = Bytes(it.beg, it.end + 1)
        /\ it.end < w /\ OfStream(it.beg, it.end + 1)
    BY <1>2 DEF NodeOK, Nodes
  <1>4. joined = Bytes(left, it.end + 1)
    <2> DEFINE n == e - it.beg
               z == it.end + 1
    <2>1. n \in Nat /\ z \in Nat /\ it.beg <= z /\ n <= z - it.beg /\ it.beg + n = e /\ e <= z
      BY <1>1, <1>3
    <2>6. it.s = Bytes(it.beg, z)  BY <1>3
    <2> HIDE DEF n, z
    <2>2. Len(it.s) = z - it.beg
      <3>1. it.beg \in Nat /\ z \in Nat /\ it.beg <= z  BY <1>3, <2>1
      <3>2. Len(Bytes(it.beg, z)) = z - it.beg  BY ONLY <3>1, BytesType, ZenonT(30)
      <3> QED  BY <3>2, <2>6
    <2>3. z - it.beg \in Nat /\ n + (z - it.beg) >= z - it.beg  BY <2>1, <1>3
    <2>4. Substr(Bytes(it.beg, z), n, z - it.beg) = Bytes(it.beg + n, z)
      BY <2>1, <2>3, <1>3, BytesSuffix
    <2>5. Bytes(left, e) \o Bytes(e, z) = Bytes(left, z)  BY <2>1, <1>1, BytesConcat, Zenon
    <2> QED  BY <2>1, <2>2, <2>4, <2>5, <1>1, <1>3, Zenon DEF n, z
  <1> HIDE DEF joined
  <1>5. Parted(kept, left, it.end + 1)
    <2>1. PICK p \in 0 .. Len(kept) :
               /\ \A k \in 1 .. Len(kept) : k <= p => kept[k].end + 1 < left
               /\ \A k \in 1 .. Len(kept) : k > p => e < kept[k].beg
      BY <1>1, Zenon DEF Parted
    <2>2. Len(kept) \in Nat  BY <1>1 DEF ListOK
    <2>3. ASSUME NEW k \in 1 .. Len(kept)  PROVE kept[k].end + 1 < left
      <3>1. kept[k].end + 1 < it.beg  BY <1>2 DEF Apart
      <3>2. kept[k].beg \in Nat /\ kept[k].end \in Nat /\ kept[k].beg <= kept[k].end + 1
        BY <1>2, NodeNats
      <3>3. ~(e < kept[k].beg)  BY <3>1, <3>2, <1>1, <1>3
      <3> QED  BY <3>3, <2>1, <2>2
    <2>4. c \in Nat /\ w \in Nat /\ ListOK(kept, c, w) /\ left \in Nat  BY <1>1
    <2>5. \A k \in 1 .. Len(kept) : kept[k].end + 1 < left  BY <2>3
    <2> QED  BY ONLY <2>4, <2>5, PartedBehind, ZenonT(60)
  <1>6. /\ it.end + 1 \in Nat /\ left <= it.end + 1 /\ it.end + 1 <= w
        /\ OfStream(left, it.end + 1)
    BY <1>1, <1>3, PeerStreamAssumption DEF OfStream
  <1>7. Merging(joined, left, it.end + 1, kept, u, c, w)
    BY <1>1, <1>2, <1>4, <1>5, <1>6 DEF Merging
  <1>8. left .. (it.end + 1) - 1 = (left .. e - 1) \cup Span(it)  BY <1>1, <1>3 DEF Span
  <1>9. Got(left, it.end + 1, kept, u) = Got(left, e, kept, rest)  BY <1>2, <1>8 DEF Got
  <1> QED  BY <1>7, <1>9 DEF joined

Activations ==
    [data : Seq(Nat), left : Nat, right : Nat, set_eof : BOOLEAN, kept : Seq(Nodes),
     rest : Seq(Nodes), jump : {"none", "out", "return", "throw", "idle"}]

MergeOK(a, e, c, w) ==
    /\ a \in Activations
    /\ a.right = SizeT(e - 1)
    /\ Merging(a.data, a.left, e, a.kept, a.rest, c, w)

\* The activation a with other contents.
LEMMA MergeFields ==
    ASSUME NEW c \in Nat, NEW w \in Nat, NEW a \in Activations, NEW data, NEW left, NEW e,
           NEW kept, NEW rest, Merging(data, left, e, kept, rest, c, w),
           NEW right \in Nat, right = SizeT(e - 1),
           NEW n, n = [data |-> data, left |-> left, right |-> right, set_eof |-> a.set_eof,
                       kept |-> kept, rest |-> rest, jump |-> a.jump]
    PROVE  MergeOK(n, e, c, w)
  <1>1. left \in Nat /\ e \in Nat /\ left <= e /\ data = Bytes(left, e)
        /\ kept \in Seq(Nodes) /\ rest \in Seq(Nodes)
    BY DEF Merging, ListOK
  <1>2. data \in Seq(Nat)  BY <1>1, BytesType
  <1>3. n \in Activations  BY <1>1, <1>2 DEF Activations
  <1>4. /\ n.data = data /\ n.left = left /\ n.right = right /\ n.kept = kept
        /\ n.rest = rest
    BY Zenon
  <1> QED  BY <1>3, <1>4 DEF MergeOK

\* What one iteration makes of a: the data go on, or the loop is left.
Merged(n, a, e, c, w) ==
    /\ n \in Activations
    /\ n.set_eof = a.set_eof
    /\ \/ /\ n.jump = "none"
          /\ \E f : /\ MergeOK(n, f, c, w)
                    /\ Got(n.left, f, n.kept, n.rest) = Got(a.left, e, a.kept, a.rest)
       \/ /\ n.jump = "out" /\ n.kept = a.kept /\ n.rest = a.rest
          /\ Got(a.left, e, a.kept, a.rest) = Held(a.kept) \cup Held(a.rest)

\* One iteration keeps what has been got, never throws, and leaves the loop
\* only when a node holds all of the data.
LEMMA MergeStep ==
    ASSUME NEW c \in Nat, NEW w \in Nat, NEW a, NEW e, MergeOK(a, e, c, w),
           a.jump = "none", a.rest # <<>>,
           NEW n, n = merge_node(a)
    PROVE  Merged(n, a, e, c, w)
  <1> SUFFICES /\ n \in Activations
               /\ n.set_eof = a.set_eof
               /\ \/ /\ n.jump = "none"
                     /\ \E f : /\ MergeOK(n, f, c, w)
                              /\ Got(n.left, f, n.kept, n.rest) = Got(a.left, e, a.kept, a.rest)
                  \/ /\ n.jump = "out" /\ n.kept = a.kept /\ n.rest = a.rest
                     /\ Got(a.left, e, a.kept, a.rest) = Held(a.kept) \cup Held(a.rest)
    BY Zenon DEF Merged
  <1> DEFINE it == Head(a.rest)
             u == Tail(a.rest)
  <1>1. IsNext(it, u, a.rest) /\ c \in Nat /\ w \in Nat  BY DEF IsNext
  <1> HIDE DEF it, u
  <1>2. /\ a \in Activations /\ a.right = SizeT(e - 1)
        /\ Merging(a.data, a.left, e, a.kept, a.rest, c, w)
    BY DEF MergeOK
  <1>3. /\ ListOK(a.kept, c, w) /\ ListOK(a.rest, c, w) /\ InFrontOf(a.kept, a.rest)
        /\ a.left \in Nat /\ e \in Nat /\ a.left <= e /\ c <= a.left
        /\ OfStream(a.left, e)
    BY <1>2 DEF Merging
  <1>15. e <= StreamLen + 1  BY <1>3, PeerStreamAssumption DEF OfStream
  <1>4. NodeOK(it, c, w) /\ Held(a.rest) = Span(it) \cup Held(u)
    <2>1. AtNode(it, u, a.kept, a.rest, c, w)  BY <1>1, <1>3 DEF AtNode
    <2> QED  BY ONLY <2>1, NextNode, SMTT(30)
  <1>5. /\ it.beg \in Nat /\ it.end \in Nat /\ c < it.beg /\ it.beg <= it.end + 1
        /\ it.end <= StreamLen /\ it.s = Bytes(it.beg, it.end + 1)
    BY <1>4, PeerStreamAssumption DEF NodeOK, Nodes, OfStream
  <1>6. SizeT(it.end + 1) = it.end + 1 /\ SizeT(a.right + 1) = e /\ a.right \in Nat
        /\ (e >= 1 => a.right = e - 1)
    <2>1. /\ StreamLen \in Nat /\ SizeMod \in Nat /\ StreamLen + 2 < SizeMod
      BY PeerStreamAssumption, SizeModAssumption
    <2>2. SizeT(it.end + 1) = it.end + 1  BY ONLY <2>1, <1>5, SMTT(30) DEF SizeT
    <2>3. CASE e = 0
      <3>1. a.right = SizeMod - 1  BY ONLY <2>1, <2>3, <1>2, SMTT(30) DEF SizeT
      <3>2. SizeT(a.right + 1) = 0  BY ONLY <3>1, <2>1, SMTT(30) DEF SizeT
      <3> QED  BY ONLY <2>1, <2>2, <2>3, <3>1, <3>2, SMTT(30)
    <2>4. CASE e >= 1
      <3>1. a.right = e - 1  BY ONLY <2>1, <2>4, <1>2, <1>3, <1>15, SMTT(30) DEF SizeT
      <3>2. SizeT(a.right + 1) = e  BY ONLY <3>1, <2>1, <2>4, <1>3, <1>15, SMTT(30) DEF SizeT
      <3> QED  BY ONLY <2>2, <2>4, <3>1, <3>2, <1>3, SMTT(30)
    <2> QED  BY <2>3, <2>4, <1>3
  <1>7. irrelevant(a, it) <=> it.end + 1 < a.left \/ e < it.beg
    BY <1>3, <1>5, <1>6, Zenon DEF irrelevant
  <1>8. ~irrelevant(a, it) =>
            /\ a.left <= it.end + 1 /\ it.beg <= e /\ a.right = e - 1
            /\ covers(a, it) <=> it.beg <= a.left /\ e <= it.end + 1
            /\ covered(a, it) <=> a.left <= it.beg /\ it.end <= e - 1
            /\ overlaps_left(a, it) <=> it.end + 1 <= e - 1
            /\ overlaps_right(a, it) <=> a.left < it.beg
    BY ONLY <1>3, <1>5, <1>6, <1>7, SMTT(30) DEF covers, covered, overlaps_left, overlaps_right
  <1>9. n = IF irrelevant(a, it) THEN [[a EXCEPT !.rest = Tail(@)] EXCEPT !.kept = Append(@, it)]
            ELSE IF covers(a, it) THEN [a EXCEPT !.jump = "out"]
            ELSE IF covered(a, it) THEN [a EXCEPT !.rest = Tail(@)]
            ELSE IF overlaps_left(a, it)
            THEN [[a EXCEPT !.rest = Tail(@)] EXCEPT !.data = left_part(a, it) \o @, !.left = it.beg]
            ELSE IF overlaps_right(a, it)
            THEN [[a EXCEPT !.rest = Tail(@)] EXCEPT !.data = @ \o right_part(a, it), !.right = it.end]
            ELSE [a EXCEPT !.jump = "throw"]
    BY DEF merge_node, it
  <1>10. CASE irrelevant(a, it)
    <2> DEFINE t == Append(a.kept, it)
    <2>1. n = [data |-> a.data, left |-> a.left, right |-> a.right, set_eof |-> a.set_eof,
               kept |-> t, rest |-> u, jump |-> a.jump]
      BY <1>2, <1>9, <1>10, Zenon DEF Activations, u
    <2>2. /\ Merging(a.data, a.left, e, t, u, c, w)
          /\ Got(a.left, e, t, u) = Got(a.left, e, a.kept, a.rest)
      <3>1. it.end + 1 < a.left \/ e < it.beg  BY <1>7, <1>10
      <3> QED  BY ONLY <3>1, <1>2, <1>1, KeepNode, SMTT(30)
    <2> HIDE DEF t
    <2>3. MergeOK(n, e, c, w)  BY <2>1, <2>2, <1>2, <1>6, MergeFields, Zenon
    <2>4. /\ n.left = a.left /\ n.kept = t /\ n.rest = u
          /\ n.jump = "none" /\ n.set_eof = a.set_eof
      BY <2>1
    <2> QED  BY <2>2, <2>3, <2>4 DEF MergeOK
  <1>11. CASE ~irrelevant(a, it) /\ covers(a, it)
    <2>1. n = [data |-> a.data, left |-> a.left, right |-> a.right, set_eof |-> a.set_eof,
               kept |-> a.kept, rest |-> a.rest, jump |-> "out"]
      BY <1>2, <1>9, <1>11, Zenon DEF Activations
    <2>2. n.jump = "out" /\ n.kept = a.kept /\ n.rest = a.rest /\ n.set_eof = a.set_eof
      BY <2>1
    <2>5. n \in Activations
      <3>1. /\ a.data \in Seq(Nat) /\ a.left \in Nat /\ a.right \in Nat
            /\ a.set_eof \in BOOLEAN /\ a.kept \in Seq(Nodes) /\ a.rest \in Seq(Nodes)
        BY <1>2 DEF Activations
      <3> QED  BY <3>1, <2>1 DEF Activations
    <2>3. a.left .. e - 1 \subseteq Span(it)  BY <1>3, <1>5, <1>8, <1>11 DEF Span
    <2>4. Got(a.left, e, a.kept, a.rest) = Held(a.kept) \cup Held(a.rest)
      BY <2>3, <1>4 DEF Got
    <2> QED  BY <2>2, <2>4, <2>5
  <1>12. CASE ~irrelevant(a, it) /\ ~covers(a, it) /\ covered(a, it)
    <2>1. n = [data |-> a.data, left |-> a.left, right |-> a.right, set_eof |-> a.set_eof,
               kept |-> a.kept, rest |-> u, jump |-> a.jump]
      BY <1>2, <1>9, <1>12, Zenon DEF Activations, u
    <2>2. /\ Merging(a.data, a.left, e, a.kept, u, c, w)
          /\ Got(a.left, e, a.kept, u) = Got(a.left, e, a.kept, a.rest)
      <3>1. a.left <= it.beg /\ it.end <= e - 1  BY <1>8, <1>12
      <3> QED  BY ONLY <3>1, <1>2, <1>1, DropNode, SMTT(30)
    <2>3. MergeOK(n, e, c, w)  BY <2>1, <2>2, <1>2, <1>6, MergeFields, Zenon
    <2>4. /\ n.left = a.left /\ n.kept = a.kept /\ n.rest = u
          /\ n.jump = "none" /\ n.set_eof = a.set_eof
      BY <2>1
    <2> QED  BY <2>2, <2>3, <2>4 DEF MergeOK
  <1>13. CASE ~irrelevant(a, it) /\ ~covers(a, it) /\ ~covered(a, it) /\ it.beg <= a.left
    <2>1. it.beg < a.left /\ a.left <= it.end + 1 /\ it.end + 1 <= e /\ overlaps_left(a, it)
      BY <1>3, <1>5, <1>8, <1>13
    <2> DEFINE joined == Substr(it.s, 0, a.left - it.beg) \o a.data
    <2>2. left_part(a, it) \o a.data = joined
      <3>1. SizeT(a.left - it.beg) = a.left - it.beg
        <4>1. a.left \in Nat /\ it.beg \in Nat /\ it.beg <= a.left
              /\ a.left <= StreamLen + 1
          BY <2>1, <1>3, <1>5, <1>15, PeerStreamAssumption
        <4> QED  BY ONLY <4>1, SmallSize, SMTT(30)
      <3> QED  BY <3>1, Zenon DEF left_part
    <2>3. /\ Merging(joined, it.beg, e, a.kept, u, c, w)
          /\ Got(it.beg, e, a.kept, u) = Got(a.left, e, a.kept, a.rest)
      BY ONLY <2>1, <1>2, <1>1, JoinLeft, SMTT(30)
    <2> HIDE DEF joined
    <2>4. n = [data |-> joined, left |-> it.beg, right |-> a.right, set_eof |-> a.set_eof,
               kept |-> a.kept, rest |-> u, jump |-> a.jump]
      BY <2>1, <2>2, <1>2, <1>9, <1>13, Zenon DEF Activations, u
    <2>5. MergeOK(n, e, c, w)  BY <2>3, <2>4, <1>2, <1>6, MergeFields, Zenon
    <2>6. /\ n.left = it.beg /\ n.kept = a.kept /\ n.rest = u
          /\ n.jump = "none" /\ n.set_eof = a.set_eof
      BY <2>4
    <2> QED  BY <2>3, <2>5, <2>6, Zenon DEF MergeOK
  <1>14. CASE ~irrelevant(a, it) /\ ~covers(a, it) /\ ~covered(a, it) /\ a.left < it.beg
    <2>1. a.left < it.beg /\ it.beg <= e /\ e < it.end + 1 /\ ~overlaps_left(a, it)
          /\ overlaps_right(a, it)
      BY <1>3, <1>5, <1>8, <1>14
    <2> DEFINE joined == a.data \o Substr(it.s, e - it.beg, Len(it.s))
    <2>2. a.data \o right_part(a, it) = joined
      <3>1. SizeT(a.right + 1 - it.beg) = e - it.beg
        <4>1. e \in Nat /\ it.beg \in Nat /\ it.beg <= e /\ e <= StreamLen + 1
          BY <2>1, <1>3, <1>5, <1>15, Zenon
        <4>2. a.right + 1 - it.beg = e - it.beg  BY <1>3, <1>5, <1>8, <1>14
        <4> QED  BY ONLY <4>1, <4>2, SmallSize, ZenonT(30)
      <3> QED  BY <3>1, Zenon DEF right_part
    <2>3. /\ Merging(joined, a.left, it.end + 1, a.kept, u, c, w)
          /\ Got(a.left, it.end + 1, a.kept, u) = Got(a.left, e, a.kept, a.rest)
      BY ONLY <2>1, <1>2, <1>1, JoinRight, SMTT(30)
    <2> HIDE DEF joined
    <2>4. n = [data |-> joined, left |-> a.left, right |-> it.end, set_eof |-> a.set_eof,
               kept |-> a.kept, rest |-> u, jump |-> a.jump]
      BY <2>1, <2>2, <1>2, <1>9, <1>14, Zenon DEF Activations, u
    <2>5. it.end = SizeT((it.end + 1) - 1)
      BY ONLY <1>5, PeerStreamAssumption, SizeModAssumption, SMTT(30) DEF SizeT
    <2>6. MergeOK(n, it.end + 1, c, w)  BY <2>3, <2>4, <2>5, <1>2, <1>5, MergeFields, Zenon
    <2>7. /\ n.left = a.left /\ n.kept = a.kept /\ n.rest = u
          /\ n.jump = "none" /\ n.set_eof = a.set_eof
      BY <2>4
    <2> QED  BY <2>3, <2>6, <2>7, Zenon DEF MergeOK
  <1> QED  BY <1>3, <1>5, <1>10, <1>11, <1>12, <1>13, <1>14

-----------------------------------------------------------------------------
\* The first index that does not fit.
Window(x) == x.output.bytes_read + Capacity

\* Once the end is known the last byte of the stream is there.
Complete(got, c) == StreamLen - 1 \in got \/ c = StreamLen

Objects ==
    [output : StreamType(Nat), cur_index : Nat, eof : BOOLEAN, list : Seq(Nodes),
     thrown : BOOLEAN]

\* The object x between two calls, but for what it knows of the end.
BaseOK(x) ==
    /\ x \in Objects
    /\ ~x.thrown
    /\ StreamOK(x.output, Nat)
    /\ x.output.capacity = Capacity
    /\ x.output.str = Bytes(x.output.bytes_read, x.output.bytes_written)
    /\ x.output.bytes_written = x.cur_index
    /\ x.cur_index <= StreamLen
    /\ ListOK(x.list, x.cur_index, Window(x))
    /\ x.output.input_is_end => x.eof /\ x.cur_index = StreamLen

ObjectOK(x) ==
    /\ BaseOK(x)
    /\ x.eof => Complete(Held(x.list), x.cur_index)
    /\ x.eof /\ x.cur_index = StreamLen => x.output.input_is_end

\* Of the bytes i .. j-1, those that fit into x.
Fit(i, j, x) == {k \in i .. j - 1 : x.cur_index <= k /\ k < Window(x)}

\* The end mark of a piece that ends in front of j is accepted by x.
Accepts(x, j, eof) == eof /\ x.cur_index < Window(x) /\ j <= Window(x)

\* The step from x to y takes in the bytes i .. j-1, as the promise demands.
Arrives(x, y, i, j, eof) ==
    LET all == Held(x.list) \cup Fit(i, j, x)
    IN  /\ y.cur_index \in x.cur_index .. StreamLen
        /\ x.cur_index .. y.cur_index - 1 \subseteq all
        /\ y.cur_index \notin all
        /\ Held(y.list) = {k \in all : k > y.cur_index}
        /\ y.eof = (x.eof \/ Accepts(x, j, eof))
        /\ y.output.bytes_read = x.output.bytes_read

\* The bytes of a list lie beyond c.
LEMMA HeldBeyond ==
    ASSUME NEW c \in Nat, NEW w \in Nat, NEW list, ListOK(list, c, w), NEW k \in Held(list)
    PROVE  k \in Nat /\ c < k
  <1>1. PICK l \in 1 .. Len(list) : k \in Span(list[l])  BY HeldMember
  <1>2. NodeOK(list[l], c, w)  BY DEF ListOK
  <1>3. list[l].beg \in Nat /\ list[l].end \in Nat /\ c < list[l].beg
    BY <1>2 DEF NodeOK, Nodes
  <1> QED  BY <1>1, <1>3 DEF Span

\* A list of empty nodes stands for no bytes.
LEMMA EmptyHeld ==
    ASSUME NEW c \in Nat, NEW w \in Nat, NEW list, ListOK(list, c, w),
           Reassembler_empty(list)
    PROVE  Held(list) = {}
  <1> SUFFICES ASSUME NEW l \in 1 .. Len(list), NEW k \in Span(list[l])  PROVE FALSE
    BY HeldMember
  <1> DEFINE nd == list[l]
             z == nd.end + 1
  <1>1. NodeOK(nd, c, w) /\ nd.s = <<>>  BY DEF ListOK, Reassembler_empty
  <1>2. /\ nd.beg \in Nat /\ z \in Nat /\ nd.end \in Nat /\ nd.beg <= z
        /\ nd.s = Bytes(nd.beg, z)
    BY <1>1 DEF NodeOK, Nodes
  <1>3. k \in nd.beg .. nd.end  BY DEF Span
  <1>4. z - nd.beg >= 1  BY <1>2, <1>3
  <1> HIDE DEF nd, z
  <1>5. Len(Bytes(nd.beg, z)) = z - nd.beg  BY <1>2, BytesType, Zenon
  <1> QED  BY <1>1, <1>2, <1>4, <1>5

\* Behind the last byte of the stream there are only empty nodes.
LEMMA EmptyPastEnd ==
    ASSUME NEW w \in Nat, NEW list, ListOK(list, StreamLen, w)
    PROVE  Reassembler_empty(list)
  <1> SUFFICES ASSUME NEW l \in 1 .. Len(list)  PROVE list[l].s = <<>>
    BY DEF Reassembler_empty
  <1> DEFINE nd == list[l]
             z == nd.end + 1
  <1>1. NodeOK(nd, StreamLen, w)  BY DEF ListOK
  <1>2. /\ nd.beg \in Nat /\ z \in Nat /\ nd.beg <= z /\ StreamLen < nd.beg
        /\ OfStream(nd.beg, z) /\ nd.s = Bytes(nd.beg, z)
    BY <1>1 DEF NodeOK, Nodes
  <1> HIDE DEF nd, z
  <1>3. z = nd.beg  BY <1>2, PeerStreamAssumption DEF OfStream
  <1>4. Bytes(z, z) \in Seq(Nat) /\ Len(Bytes(z, z)) = z - z
    <2>1. z \in Nat /\ z <= z  BY <1>2
    <2> QED  BY ONLY <2>1, BytesType, Zenon
  <1>5. Bytes(z, z) = <<>>  BY <1>2, <1>4
  <1> QED  BY <1>2, <1>3, <1>5 DEF nd

\* The code at `out:`.
LEMMA PushOut ==
    ASSUME NEW x, BaseOK(x), NEW set_eof \in BOOLEAN,
           x.eof \/ set_eof => Complete(Held(x.list), x.cur_index),
           NEW y, y = push_out(x, set_eof)
    PROVE  /\ ObjectOK(y)
           /\ y.cur_index = x.cur_index /\ y.list = x.list
           /\ y.output.bytes_read = x.output.bytes_read
           /\ y.eof = (x.eof \/ set_eof)
  <1> DEFINE eof == x.eof \/ set_eof
             ended == ByteStream_end_input(x.output)
             out == IF eof /\ Reassembler_empty(x.list) THEN ended ELSE x.output
  <1>1. /\ x \in Objects /\ StreamOK(x.output, Nat) /\ x.cur_index \in Nat
        /\ ListOK(x.list, x.cur_index, Window(x)) /\ Window(x) \in Nat
    BY PeerStreamAssumption DEF BaseOK, Objects, Window, StreamType
  <1>2. y = [output |-> out, cur_index |-> x.cur_index, eof |-> eof, list |-> x.list,
             thrown |-> x.thrown]
    BY <1>1, Zenon DEF push_out, Objects
  <1>3. /\ StreamOK(ended, Nat)
        /\ ended.bytes_written = x.output.bytes_written
        /\ ended.bytes_read = x.output.bytes_read
        /\ ended.str = x.output.str
    BY <1>1, EndInputOK
  <1>4. ended.capacity = x.output.capacity /\ ended.input_is_end = TRUE
    BY <1>1 DEF ByteStream_end_input, StreamOK, StreamType
  <1>5. eof /\ Reassembler_empty(x.list) => x.cur_index = StreamLen
    BY <1>1, EmptyHeld DEF Complete
  <1>12. eof /\ x.cur_index = StreamLen => out.input_is_end
    <2>1. x.cur_index = StreamLen => Reassembler_empty(x.list)  BY <1>1, EmptyPastEnd
    <2> QED  BY <2>1, <1>4
  <1> HIDE DEF ended
  <1>6. /\ StreamOK(out, Nat)
        /\ out.bytes_written = x.output.bytes_written
        /\ out.bytes_read = x.output.bytes_read
        /\ out.str = x.output.str
        /\ out.capacity = x.output.capacity
        /\ \/ out.input_is_end = x.output.input_is_end
           \/ out.input_is_end = TRUE /\ eof /\ x.cur_index = StreamLen
    BY <1>1, <1>3, <1>4, <1>5
  <1> HIDE DEF out
  <1>7. /\ y.output = out /\ y.cur_index = x.cur_index /\ y.eof = eof /\ y.list = x.list
        /\ y.thrown = x.thrown
    BY <1>2
  <1>8. y \in Objects
    <2>1. out \in StreamType(Nat)  BY <1>6 DEF StreamOK
    <2>2. /\ x.cur_index \in Nat /\ x.eof \in BOOLEAN /\ x.list \in Seq(Nodes)
          /\ x.thrown \in BOOLEAN
      BY <1>1 DEF Objects
    <2> HIDE DEF eof
    <2>3. eof \in BOOLEAN  BY <2>2 DEF eof
    <2> QED  BY ONLY <2>1, <2>2, <2>3, <1>2, SMTT(30) DEF Objects
  <1>9. Window(y) = Window(x)  BY <1>6, <1>7 DEF Window
  <1>10. BaseOK(y)
    <2>1. x.output.input_is_end => x.eof /\ x.cur_index = StreamLen  BY Zenon DEF BaseOK
    <2>2. y.output.input_is_end => y.eof /\ y.cur_index = StreamLen
      BY ONLY <2>1, <1>6, <1>7, Zenon
    <2> QED  BY <2>2, <1>6, <1>7, <1>8, <1>9, Zenon DEF BaseOK
  <1>11. y.eof => Complete(Held(y.list), y.cur_index)  BY <1>7
  <1>13. y.eof /\ y.cur_index = StreamLen => y.output.input_is_end  BY <1>7, <1>12
  <1> QED  BY <1>6, <1>7, <1>10, <1>11, <1>13 DEF ObjectOK

\* The window as the code computes it.
LEMMA FirstUnavailable ==
    ASSUME NEW x, BaseOK(x)
    PROVE  /\ Reassembler_first_unavailable(x) = Window(x)
           /\ Window(x) \in Nat /\ Window(x) <= StreamLen + Capacity
           /\ x.cur_index \in Nat /\ x.cur_index <= Window(x)
           /\ x.output.bytes_read \in Nat /\ x.output.bytes_read <= x.cur_index
           /\ x.output.cur_cap = x.cur_index - x.output.bytes_read
           /\ x.output.cur_cap \in Nat
  <1>1. /\ StreamOK(x.output, Nat) /\ x.output.capacity = Capacity
        /\ x.output.bytes_written = x.cur_index /\ x.cur_index <= StreamLen
    BY DEF BaseOK
  <1>2. /\ x.output.cur_cap \in Nat /\ x.output.bytes_read \in Nat
        /\ x.output.bytes_written \in Nat
        /\ x.output.bytes_written = x.output.bytes_read + x.output.cur_cap
        /\ x.output.cur_cap <= Capacity
    BY <1>1 DEF StreamOK, StreamType
  <1>3. ByteStream_remaining_capacity(x.output) = Capacity - x.output.cur_cap
    BY <1>1, RemainingCapacity
  <1>4. x.cur_index + (Capacity - x.output.cur_cap) = Window(x)
    BY <1>1, <1>2, PeerStreamAssumption DEF Window
  <1>5. /\ Window(x) \in Nat /\ Window(x) <= StreamLen + Capacity
        /\ x.cur_index <= Window(x)
    BY <1>1, <1>2, PeerStreamAssumption DEF Window
  <1>6. SizeT(Window(x)) = Window(x)
    BY <1>5, PeerStreamAssumption, SizeModAssumption DEF SizeT
  <1> QED
    BY <1>1, <1>2, <1>3, <1>4, <1>5, <1>6 DEF Reassembler_first_unavailable

\* The call a on x, with the bytes i .. j-1, is on its way.
Leaving(a, x, i, j, eof) ==
    /\ a \in Activations
    /\ a.jump = "out"
    /\ ListOK(a.kept, x.cur_index, Window(x)) /\ ListOK(a.rest, x.cur_index, Window(x))
    /\ InFrontOf(a.kept, a.rest)
    /\ Held(a.kept) \cup Held(a.rest) = Held(x.list) \cup Fit(i, j, x)
    /\ a.set_eof = Accepts(x, j, eof)
    /\ a.set_eof => Complete(Held(a.kept) \cup Held(a.rest), x.cur_index)

Underway(a, x, i, j, eof, e) ==
    /\ a.jump = "none"
    /\ MergeOK(a, e, x.cur_index, Window(x))
    /\ Got(a.left, e, a.kept, a.rest) = Held(x.list) \cup Fit(i, j, x)
    /\ a.set_eof = Accepts(x, j, eof)
    /\ a.set_eof => Complete(Got(a.left, e, a.kept, a.rest), x.cur_index)

InCall(a, x, i, j, eof) ==
    \/ a.jump = "return" /\ Window(x) = x.cur_index
    \/ Leaving(a, x, i, j, eof)
    \/ \E e : Underway(a, x, i, j, eof, e)

LEMMA ActivationType ==
    ASSUME NEW data \in Seq(Nat), NEW left \in Nat, NEW right \in Nat,
           NEW set_eof \in BOOLEAN, NEW list \in Seq(Nodes), NEW jump \in {"none", "out"}
    PROVE  [data |-> data, left |-> left, right |-> right, set_eof |-> set_eof,
            kept |-> <<>>, rest |-> list, jump |-> jump] \in Activations
  <1>1. <<>> \in Seq(Nodes)  OBVIOUS
  <1>2. jump \in {"none", "out", "return", "throw", "idle"}  OBVIOUS
  <1> QED  BY <1>1, <1>2 DEF Activations

LEMMA EmptyList ==
    ASSUME NEW c \in Nat, NEW w \in Nat, NEW list
    PROVE  /\ ListOK(<<>>, c, w) /\ InFrontOf(<<>>, list)
           /\ \A left, e : Parted(<<>>, left, e)
  BY DEF ListOK, InFrontOf, Parted

\* A new reassembler.
LEMMA NewObjectOK == ObjectOK(NewStreamReassembler(Capacity))
  <1> DEFINE b == NewByteStream(Capacity)
             r == NewStreamReassembler(Capacity)
  <1>1. r = [output |-> b, cur_index |-> 0, eof |-> FALSE, list |-> <<>>, thrown |-> FALSE]
    BY DEF NewStreamReassembler
  <1>2. StreamOK(b, Nat)
    BY NewStreamOK, PeerStreamAssumption, SizeModAssumption
  <1>4. /\ b.capacity = Capacity /\ b.str = <<>> /\ b.bytes_read = 0
        /\ b.bytes_written = 0 /\ b.input_is_end = FALSE
    BY DEF NewByteStream
  <1> HIDE DEF b, r
  <1>3. /\ r.output = b /\ r.cur_index = 0 /\ r.eof = FALSE /\ r.list = <<>>
        /\ r.thrown = FALSE
    BY <1>1
  <1>5. r \in Objects
    <2>1. b \in StreamType(Nat) /\ <<>> \in Seq(Nodes)  BY <1>2 DEF StreamOK
    <2> QED  BY <2>1, <1>1 DEF Objects
  <1>6. Bytes(0, 0) = <<>>
    <2>1. Bytes(0, 0) \in Seq(Nat) /\ Len(Bytes(0, 0)) = 0 - 0  BY BytesType
    <2> QED  BY <2>1
  <1>7. Window(r) \in Nat  BY <1>3, <1>4, PeerStreamAssumption DEF Window
  <1>8. ListOK(<<>>, 0, Window(r))  BY <1>7, EmptyList
  <1>9. BaseOK(r)
    BY ONLY <1>2, <1>3, <1>4, <1>5, <1>6, <1>8, PeerStreamAssumption, SMTT(30) DEF BaseOK
  <1> QED  BY <1>3, <1>9 DEF ObjectOK, r

\* Data that are all old.
LEMMA BeginOld ==
    ASSUME NEW x, ObjectOK(x), NEW i \in 0 .. StreamLen, NEW j \in 0 .. StreamLen, i <= j,
           NEW eof \in BOOLEAN, eof => j = StreamLen, j <= x.cur_index,
           x.cur_index # Window(x),
           NEW a, a = Activation(Bytes(i, j), i, eof, x.list, "out")
    PROVE  Leaving(a, x, i, j, eof)
  <1> DEFINE c == x.cur_index
             w == Window(x)
  <1>1. BaseOK(x)  BY DEF ObjectOK
  <1>2. c \in Nat /\ w \in Nat /\ c <= w /\ c <= StreamLen /\ ListOK(x.list, c, w)
    BY <1>1, FirstUnavailable DEF BaseOK
  <1>3. Bytes(i, j) \in Seq(Nat) /\ Len(Bytes(i, j)) = j - i /\ i \in Nat /\ j \in Nat
    BY PeerStreamAssumption, BytesType
  <1>4. a = [data |-> Bytes(i, j), left |-> i, right |-> SizeT(i + (j - i) - 1),
             set_eof |-> eof, kept |-> <<>>, rest |-> x.list, jump |-> "out"]
    BY <1>3 DEF Activation
  <1>5. SizeT(i + (j - i) - 1) \in Nat
    BY <1>3, PeerStreamAssumption, SizeModAssumption DEF SizeT
  <1>6. a \in Activations
    <2>1. x.list \in Seq(Nodes)  BY <1>2 DEF ListOK
    <2> QED  BY <2>1, <1>3, <1>4, <1>5, ActivationType, ZenonT(60)
  <1>7. a.kept = <<>> /\ a.rest = x.list /\ a.set_eof = eof /\ a.jump = "out"  BY <1>4
  <1>8. ListOK(<<>>, c, w) /\ InFrontOf(<<>>, x.list)  BY <1>2, EmptyList
  <1>9. Fit(i, j, x) = {}  BY <1>2, <1>3 DEF Fit
  <1>13. eof = Accepts(x, j, eof)  BY <1>2, <1>3 DEF Accepts
  <1>10. eof => c = StreamLen  BY <1>2, <1>3, PeerStreamAssumption
  <1>11. Held(a.kept) \cup Held(a.rest) = Held(x.list) \cup Fit(i, j, x)
    BY <1>7, <1>9, HeldEmpty
  <1>12. a.set_eof => Complete(Held(a.kept) \cup Held(a.rest), x.cur_index)
    BY <1>7, <1>10, Zenon DEF Complete
  <1> QED  BY <1>2, <1>6, <1>7, <1>8, <1>11, <1>12, <1>13 DEF Leaving

\* Data of which some may be new.
LEMMA BeginNew ==
    ASSUME NEW x, ObjectOK(x), NEW i \in Nat, NEW j \in Nat, i <= j, OfStream(i, j),
           NEW set_eof \in BOOLEAN, NEW left \in Nat, NEW e \in Nat,
           left = MaxOf(i, x.cur_index), e = MinOf(j, Window(x)), left <= e,
           set_eof => e = StreamLen /\ (left = e => x.cur_index = StreamLen),
           NEW eof, set_eof = Accepts(x, j, eof),
           NEW a, a = Activation(Bytes(left, e), left, set_eof, x.list, "none")
    PROVE  Underway(a, x, i, j, eof, e)
  <1> DEFINE c == x.cur_index
             w == Window(x)
  <1>1. BaseOK(x)  BY Zenon DEF ObjectOK
  <1>2. c \in Nat /\ w \in Nat /\ c <= StreamLen /\ ListOK(x.list, c, w)
    BY <1>1, FirstUnavailable DEF BaseOK
  <1>3. Bytes(left, e) \in Seq(Nat) /\ Len(Bytes(left, e)) = e - left
    BY BytesType, Zenon
  <1>4. left + (e - left) - 1 = e - 1  OBVIOUS
  <1>5. a = [data |-> Bytes(left, e), left |-> left, right |-> SizeT(e - 1),
             set_eof |-> set_eof, kept |-> <<>>, rest |-> x.list, jump |-> "none"]
    BY <1>3, <1>4, ZenonT(30) DEF Activation
  <1>6. e <= w /\ OfStream(left, e) /\ e <= StreamLen + 1 /\ c <= left
    BY <1>2, PeerStreamAssumption DEF MinOf, MaxOf, OfStream
  <1>7. SizeT(e - 1) \in Nat
    BY <1>6, PeerStreamAssumption, SizeModAssumption DEF SizeT
  <1>8. a \in Activations
    <2>1. x.list \in Seq(Nodes)  BY <1>2 DEF ListOK
    <2>2. left \in Nat /\ set_eof \in BOOLEAN /\ "none" \in {"none", "out"}  OBVIOUS
    <2> QED  BY ONLY <2>1, <2>2, <1>3, <1>5, <1>7, ActivationType, Zenon
  <1>9. /\ a.data = Bytes(left, e) /\ a.left = left /\ a.right = SizeT(e - 1)
        /\ a.kept = <<>> /\ a.rest = x.list /\ a.set_eof = set_eof /\ a.jump = "none"
    BY ONLY <1>5, SMTT(30)
  <1>10. ListOK(<<>>, c, w) /\ InFrontOf(<<>>, x.list) /\ Parted(<<>>, left, e)
    BY <1>2, EmptyList, Zenon
  <1>11. MergeOK(a, e, c, w)
    BY <1>2, <1>6, <1>8, <1>9, <1>10 DEF MergeOK, Merging
  <1>12. left .. e - 1 = Fit(i, j, x)
    BY <1>2, PeerStreamAssumption DEF Fit, MinOf, MaxOf
  <1>13. Got(a.left, e, a.kept, a.rest) = Held(x.list) \cup Fit(i, j, x)
    BY <1>9, <1>12, HeldEmpty DEF Got
  <1>14. set_eof => StreamLen - 1 \in left .. e - 1 \/ c = StreamLen
    BY <1>2, PeerStreamAssumption
  <1>15. a.set_eof => Complete(Got(a.left, e, a.kept, a.rest), c)
    BY <1>9, <1>14, Zenon DEF Complete, Got
  <1>16. a.set_eof = Accepts(x, j, eof)  BY <1>9, Zenon
  <1> QED  BY <1>9, <1>11, <1>13, <1>15, <1>16 DEF Underway

\* What the peer sends to x: it starts in the window (or the window is closed),
\* and an end mark comes with or after the last byte.
Sent(x, i, j, eof) ==
    /\ i \in Nat /\ j \in Nat /\ i <= j /\ OfStream(i, j)
    /\ eof \in BOOLEAN /\ (eof => j = StreamLen)
    /\ i <= Window(x) \/ Window(x) = x.cur_index
    /\ eof /\ i = j => i <= x.cur_index

\* The code before the merge loop.
LEMMA BeginOK ==
    ASSUME NEW x, ObjectOK(x), NEW i, NEW j, NEW eof, Sent(x, i, j, eof),
           NEW a, a = push_begin(x, Bytes(i, j), i, eof)
    PROVE  InCall(a, x, i, j, eof)
  <1> DEFINE c == x.cur_index
             w == Window(x)
             data == Bytes(i, j)
             old == trim_old(x, data, i)
             window == trim_window(x, old.data, old.left)
  <1>1. BaseOK(x)  BY DEF ObjectOK
  <1>2. /\ c \in Nat /\ w \in Nat /\ c <= w /\ w <= StreamLen + Capacity /\ c <= StreamLen
        /\ Reassembler_first_unavailable(x) = w
    BY <1>1, FirstUnavailable DEF BaseOK
  <1>8. /\ i \in Nat /\ j \in Nat /\ i <= j /\ OfStream(i, j)
        /\ eof \in BOOLEAN /\ (eof => j = StreamLen)
        /\ (w # c => i <= w) /\ (eof /\ i = j => i <= c)
    BY Zenon DEF Sent
  <1>9. i <= StreamLen + 1 /\ j <= StreamLen + 1  BY <1>8, PeerStreamAssumption DEF OfStream
  <1>3. i \in Nat /\ j \in Nat /\ i <= j /\ data \in Seq(Nat) /\ Len(data) = j - i
    BY <1>8, BytesType
  <1>4. a = IF push_jump(x, old) = "none"
            THEN Activation(window.data, old.left, should_set_eof(eof, window), x.list,
                            push_jump(x, old))
            ELSE Activation(data, i, eof, x.list, push_jump(x, old))
    BY DEF push_begin
  <1> HIDE DEF window
  <1>5. CASE w = c
    <2>1. push_jump(x, old) = "return"  BY <1>2, <1>5 DEF push_jump
    <2> HIDE DEF old, data
    <2>2. a = Activation(data, i, eof, x.list, "return")  BY <2>1, <1>4, Zenon
    <2>3. a.jump = "return"  BY ONLY <2>2 DEF Activation
    <2> QED  BY <2>3, <1>5 DEF InCall
  <1>6. CASE w # c /\ i < c /\ j <= c
    <2>1. old.old = TRUE
      BY <1>2, <1>3, <1>6 DEF trim_old
    <2>2. push_jump(x, old) = "out"  BY <2>1, <1>2, <1>6 DEF push_jump
    <2>3. a = Activation(data, i, eof, x.list, "out")  BY <2>2, <1>4
    <2>6. i \in 0 .. StreamLen /\ j \in 0 .. StreamLen /\ i <= j /\ j <= x.cur_index
      BY <1>2, <1>3, <1>6, PeerStreamAssumption
    <2>4. Leaving(a, x, i, j, eof)  BY <2>3, <2>6, <1>6, <1>8, BeginOld
    <2> QED  BY <2>4 DEF InCall
  <1>7. CASE w # c /\ ~(i < c /\ j <= c)
    <2> DEFINE left == MaxOf(i, c)
               e == MinOf(j, w)
    <2>1. left \in Nat /\ e \in Nat /\ left <= j /\ left <= w /\ left <= e /\ e <= j
          /\ left <= StreamLen + 1 /\ i <= left
      BY <1>2, <1>3, <1>7, <1>8, <1>9, PeerStreamAssumption DEF MaxOf, MinOf
    <2>2. old.data = Bytes(left, j) /\ old.left = left /\ old.old = FALSE
      <3>1. CASE i >= c
        <4>1. left = i  BY <3>1, <1>2, <1>3, ZenonT(30) DEF MaxOf
        <4>2. old = [data |-> data, left |-> i, old |-> FALSE]  BY <3>1 DEF trim_old
        <4> QED  BY <4>1, <4>2
      <3>2. CASE i < c
        <4> DEFINE n == c - i
        <4>1. left = c /\ n \in Nat /\ n < j - i /\ n + (j - i) >= j - i /\ i + n = c
              /\ j - i \in Nat
          BY <3>2, <1>2, <1>3, <1>7 DEF MaxOf
        <4>2. old = [data |-> Substr(data, n, Len(data)), left |-> c, old |-> FALSE]
          BY <3>2, <4>1, <1>2, <1>3 DEF trim_old
        <4>3. Substr(Bytes(i, j), n, j - i) = Bytes(i + n, j)
          <5> HIDE DEF n
          <5>1. n <= j - i  BY <4>1, <1>3
          <5> QED  BY <5>1, <4>1, <1>3, BytesSuffix
        <4> QED  BY <4>1, <4>2, <4>3, <1>3
      <3>3. i >= c \/ i < c  BY <1>2, <1>3
      <3> QED  BY <3>1, <3>2, <3>3, Zenon
    <2>3. push_jump(x, old) = "none"  BY <2>2, <1>2, <1>7 DEF push_jump
    <2> HIDE DEF old
    <2>4. Len(Bytes(left, j)) = j - left  BY <2>1, <1>3, BytesType, Zenon
    <2>5. SizeT(left + (j - left)) = j
      BY <2>1, <1>3, <1>9, PeerStreamAssumption, SizeModAssumption DEF SizeT
    <2>6. /\ window.data = Bytes(left, e)
          /\ (j > w => window.cut = TRUE) /\ (~(j > w) => window.cut = FALSE)
      <3>1. CASE j > w
        <4> DEFINE n == w - left
        <4>1. e = w /\ n \in Nat /\ n <= j - left /\ left + n = w
          BY ONLY <3>1, <2>1, <1>2, <1>3, SMTT(30) DEF MinOf
        <4>2. SizeT(w - left) = n
          BY <4>1, <2>1, <1>2, PeerStreamAssumption, SizeModAssumption DEF SizeT
        <4>3. window = [data |-> Substr(Bytes(left, j), 0, n), cut |-> TRUE]
          BY <3>1, <4>2, <2>2, <2>4, <2>5, <1>2, Zenon DEF trim_window, window
        <4>4. Substr(Bytes(left, j), 0, n) = Bytes(left, left + n)
          <5> HIDE DEF n, left
          <5> QED  BY <4>1, <2>1, <1>3, BytesPrefix
        <4> QED  BY <3>1, <4>1, <4>3, <4>4, Zenon
      <3>2. CASE ~(j > w)
        <4>1. e = j  BY ONLY <3>2, <1>2, <1>3, SMTT(30) DEF MinOf
        <4>2. window = [data |-> Bytes(left, j), cut |-> FALSE]
          BY <3>2, <2>2, <2>4, <2>5, <1>2, Zenon DEF trim_window, window
        <4> QED  BY <3>2, <4>1, <4>2
      <3> QED  BY <3>1, <3>2, Zenon
    <2> DEFINE set_eof == should_set_eof(eof, window)
    <2>7. set_eof \in BOOLEAN /\ (set_eof <=> eof /\ ~(j > w))
      BY <2>6, <1>8 DEF should_set_eof
    <2>8. set_eof => e = StreamLen /\ (left = e => c = StreamLen)
      BY ONLY <2>7, <1>2, <1>3, <1>7, <1>8, SMTT(30) DEF MinOf, MaxOf
    <2>9. a = Activation(Bytes(left, e), left, set_eof, x.list, "none")
      BY <2>2, <2>3, <2>6, <1>4, Zenon
    <2>10. set_eof = Accepts(x, j, eof)
      <3>1. c < w /\ (j <= w <=> ~(j > w))  BY <1>2, <1>3, <1>7
      <3> QED  BY <3>1, <2>7, <1>8 DEF Accepts
    <2>11. Underway(a, x, i, j, eof, e)
      <3> HIDE DEF set_eof
      <3>1. left = MaxOf(i, x.cur_index) /\ e = MinOf(j, Window(x))  OBVIOUS
      <3> HIDE DEF left, e
      <3> QED  BY <3>1, <2>1, <2>7, <2>8, <2>9, <2>10, <1>8, BeginNew, Zenon
    <2> QED  BY <2>11, Zenon DEF InCall
  <1> QED  BY <1>5, <1>6, <1>7

\* The object with another list.
LEMMA Relist ==
    ASSUME NEW x, BaseOK(x), NEW list, ListOK(list, x.cur_index, Window(x)),
           NEW z, z = [x EXCEPT !.list = list]
    PROVE  /\ BaseOK(z)
           /\ z.cur_index = x.cur_index /\ z.list = list /\ z.output = x.output
           /\ z.eof = x.eof /\ Window(z) = Window(x)
  <1>1. x \in Objects /\ list \in Seq(Nodes)  BY DEF BaseOK, ListOK
  <1>2. /\ z.cur_index = x.cur_index /\ z.list = list /\ z.output = x.output
        /\ z.eof = x.eof /\ z.thrown = x.thrown
    BY <1>1 DEF Objects
  <1>3. z \in Objects  BY <1>1 DEF Objects
  <1>4. Window(z) = Window(x)  BY <1>2 DEF Window
  <1> QED  BY <1>2, <1>3, <1>4 DEF BaseOK

\* Nothing is assembled: what fits is held.
LEMMA ArrivesHeld ==
    ASSUME NEW x, BaseOK(x), NEW i \in Nat, NEW j \in Nat, NEW list,
           ListOK(list, x.cur_index, Window(x)),
           Held(list) = Held(x.list) \cup Fit(i, j, x),
           NEW set_eof \in BOOLEAN, x.eof => Complete(Held(x.list), x.cur_index),
           set_eof => Complete(Held(list), x.cur_index),
           NEW eof, set_eof = Accepts(x, j, eof),
           NEW y, y = push_out([x EXCEPT !.list = list], set_eof)
    PROVE  ObjectOK(y) /\ Arrives(x, y, i, j, eof)
  <1> DEFINE z == [x EXCEPT !.list = list]
  <1>1. /\ BaseOK(z)
        /\ z.cur_index = x.cur_index /\ z.list = list /\ z.output = x.output
        /\ z.eof = x.eof
    BY Relist
  <1>2. y = push_out(z, set_eof)  OBVIOUS
  <1> HIDE DEF z
  <1>3. Complete(Held(x.list), x.cur_index) => Complete(Held(list), x.cur_index)
    BY DEF Complete
  <1>4. z.eof \/ set_eof => Complete(Held(z.list), z.cur_index)  BY <1>1, <1>3
  <1>5. /\ ObjectOK(y)
        /\ y.cur_index = z.cur_index /\ y.list = z.list
        /\ y.output.bytes_read = z.output.bytes_read
        /\ y.eof = (z.eof \/ set_eof)
    BY <1>1, <1>2, <1>4, PushOut
  <1>6. x.cur_index \in Nat /\ Window(x) \in Nat /\ x.cur_index <= StreamLen
    BY FirstUnavailable DEF BaseOK
  <1>7. \A k \in Held(list) : k \in Nat /\ x.cur_index < k  BY <1>6, HeldBeyond
  <1>8. /\ x.cur_index \in x.cur_index .. StreamLen
        /\ x.cur_index .. x.cur_index - 1 = {}
        /\ x.cur_index \notin Held(list)
    BY <1>6, <1>7, PeerStreamAssumption
  <1>9. Held(list) = {k \in Held(list) : k > x.cur_index}  BY <1>6, <1>7
  <1>10. Arrives(x, y, i, j, eof)  BY <1>1, <1>5, <1>8, <1>9 DEF Arrives
  <1> QED  BY <1>5, <1>10

\* The call ends at `out:` from within the loop, or from before it.
LEMMA FinishOut ==
    ASSUME NEW x, ObjectOK(x), NEW i \in Nat, NEW j \in Nat, NEW a,
           NEW eof, Leaving(a, x, i, j, eof), NEW y, y = push_finish(x, a)
    PROVE  ObjectOK(y) /\ Arrives(x, y, i, j, eof)
  <1> DEFINE list == a.kept \o a.rest
             c == x.cur_index
             w == Window(x)
  <1>1. BaseOK(x) /\ c \in Nat /\ w \in Nat  BY FirstUnavailable DEF ObjectOK
  <1>2. /\ a.jump = "out" /\ a.set_eof \in BOOLEAN
        /\ ListOK(a.kept, c, w) /\ ListOK(a.rest, c, w) /\ InFrontOf(a.kept, a.rest)
        /\ Held(a.kept) \cup Held(a.rest) = Held(x.list) \cup Fit(i, j, x)
        /\ a.set_eof = Accepts(x, j, eof)
        /\ a.set_eof => Complete(Held(a.kept) \cup Held(a.rest), c)
    BY Zenon DEF Leaving, Activations
  <1>3. ListOK(list, c, w) /\ Held(list) = Held(a.kept) \cup Held(a.rest)
    BY <1>1, <1>2, ConcatList
  <1>4. y = push_out([x EXCEPT !.list = list], a.set_eof)  BY <1>2 DEF push_finish
  <1> HIDE DEF list
  <1>5. x.eof => Complete(Held(x.list), c)  BY DEF ObjectOK
  <1> QED  BY <1>1, <1>2, <1>3, <1>4, <1>5, ArrivesHeld, Zenon

\* The place where the data belong among the nodes.
LEMMA InsertPlace ==
    ASSUME NEW c \in Nat, NEW w \in Nat, NEW a, NEW e \in Nat, MergeOK(a, e, c, w),
           c < a.left, NEW list, list = insert_node(a.kept, a)
    PROVE  /\ ListOK(list, c, w)
           /\ Held(list) = (a.left .. e - 1) \cup Held(a.kept)
  <1> DEFINE kept == a.kept
             nd == Node(a.data, a.left, a.right)
             beyond == {i \in 1 .. Len(kept) : kept[i].beg > SizeT(a.right + 1)}
             at == IF beyond = {} THEN Len(kept) + 1 ELSE Min(beyond)
  <1>1. /\ a \in Activations /\ a.right = SizeT(e - 1)
        /\ a.left \in Nat /\ a.left <= e /\ e <= w /\ OfStream(a.left, e)
        /\ a.data = Bytes(a.left, e) /\ a.data \in Seq(Nat)
        /\ ListOK(kept, c, w) /\ Parted(kept, a.left, e)
    BY DEF MergeOK, Merging, Activations
  <1>2. a.right = e - 1 /\ SizeT(a.right + 1) = e /\ e >= 1 /\ a.right \in Nat
    BY <1>1, PeerStreamAssumption, SizeModAssumption DEF SizeT, OfStream
  <1>3. nd.s = Bytes(a.left, e) /\ nd.beg = a.left /\ nd.end = e - 1 /\ nd \in Nodes
    BY <1>1, <1>2, Zenon DEF Node, Nodes
  <1>4. NodeOK(nd, c, w)
    <2>1. (e - 1) + 1 = e  OBVIOUS
    <2> HIDE DEF nd
    <2> QED  BY <2>1, <1>1, <1>2, <1>3, PeerStreamAssumption DEF NodeOK
  <1>5. PICK p \in 0 .. Len(kept) :
             /\ \A k \in 1 .. Len(kept) : k <= p => kept[k].end + 1 < a.left
             /\ \A k \in 1 .. Len(kept) : k > p => e < kept[k].beg
    BY <1>1, Zenon DEF Parted
  <1>6. \A k \in 1 .. Len(kept) : /\ kept[k].beg \in Nat /\ kept[k].end \in Nat
                                  /\ kept[k].beg <= kept[k].end + 1
    BY <1>1, NodeNats, Zenon DEF ListOK
  <1>7. Len(kept) \in Nat  BY <1>1 DEF ListOK
  <1>8. ASSUME NEW k \in 1 .. Len(kept)  PROVE k \in beyond <=> k > p
    <2>1. ASSUME k <= p  PROVE ~(kept[k].beg > e)
      <3>1. kept[k].end + 1 < a.left /\ a.left <= e /\ a.left \in Nat  BY <2>1, <1>1, <1>5, Zenon
      <3>2. /\ kept[k].beg \in Nat /\ kept[k].end \in Nat
            /\ kept[k].beg <= kept[k].end + 1
        BY <1>6, Zenon
      <3> HIDE DEF kept
      <3> QED  BY ONLY <3>1, <3>2, SMTT(30)
    <2>2. k > p => kept[k].beg > e  BY <1>5, <1>6, Zenon
    <2> QED  BY <2>1, <2>2, <1>2, <1>7
  <1>9. at = p + 1
    <2>1. CASE beyond = {}
      <3>1. p = Len(kept)
        <4>1. p < Len(kept) => p + 1 \in 1 .. Len(kept) /\ p + 1 > p  BY <1>7
        <4> QED  BY <4>1, <2>1, <1>7, <1>8
      <3> QED  BY <3>1, <2>1
    <2>2. CASE beyond # {}
      <3>1. PICK k \in 1 .. Len(kept) : k > p  BY <2>2, <1>8
      <3>2. p + 1 \in 1 .. Len(kept) /\ p + 1 > p  BY <3>1, <1>7
      <3>3. p + 1 \in beyond  BY <3>2, <1>8
      <3>4. \A l \in beyond : p + 1 <= l /\ l \in Nat  BY <1>7, <1>8
      <3>5. Min(beyond) \in beyond /\ \A l \in beyond : Min(beyond) <= l
        <4> HIDE DEF beyond
        <4> QED  BY <3>3, <3>4 DEF Min
      <3>6. Min(beyond) = p + 1
        <4> HIDE DEF beyond
        <4> QED  BY ONLY <3>3, <3>4, <3>5, SMTT(30)
      <3> QED  BY <3>6, <2>2
    <2> QED  BY <2>1, <2>2
  <1>10. list = Inserted(kept, p + 1, nd)  BY <1>9 DEF insert_node
  <1> HIDE DEF beyond, at
  <1>11. ASSUME NEW k \in 1 .. Len(kept), k < p + 1  PROVE Apart(kept[k], nd)
    BY ONLY <1>3, <1>5, <1>7, <1>11, SMTT(30) DEF Apart
  <1>12. ASSUME NEW k \in 1 .. Len(kept), k >= p + 1  PROVE Apart(nd, kept[k])
    <2>1. e < kept[k].beg  BY <1>5, <1>7, <1>12
    <2>2. (e - 1) + 1 = e  OBVIOUS
    <2> QED  BY <2>1, <2>2, <1>3 DEF Apart
  <1> HIDE DEF nd
  <1>13. p + 1 \in 1 .. Len(kept) + 1  BY ONLY <1>7, SMTT(30)
  <1>14. ListOK(list, c, w) /\ Held(list) = Held(kept) \cup Span(nd)
    <2>1. /\ c \in Nat /\ w \in Nat
          /\ \A k \in 1 .. Len(kept) : k < p + 1 => Apart(kept[k], nd)
          /\ \A k \in 1 .. Len(kept) : k >= p + 1 => Apart(nd, kept[k])
      BY <1>11, <1>12
    <2> QED  BY ONLY <2>1, <1>1, <1>4, <1>10, <1>13, InsertList, SMTT(90)
  <1>15. Span(nd) = a.left .. e - 1  BY <1>3 DEF Span
  <1> QED  BY <1>14, <1>15, Zenon

\* The call ends with the data put into the list.
LEMMA FinishInsert ==
    ASSUME NEW x, ObjectOK(x), NEW i \in Nat, NEW j \in Nat, NEW eof, NEW e, NEW a,
           Underway(a, x, i, j, eof, e), a.rest = <<>>, a.left # x.cur_index,
           NEW y, y = push_finish(x, a)
    PROVE  ObjectOK(y) /\ Arrives(x, y, i, j, eof)
  <1> DEFINE list == insert_node(a.kept, a)
             c == x.cur_index
             w == Window(x)
  <1>1. BaseOK(x) /\ c \in Nat /\ w \in Nat /\ x \in Objects
    BY FirstUnavailable, Zenon DEF ObjectOK, BaseOK
  <1>2. /\ a.jump = "none" /\ MergeOK(a, e, c, w)
        /\ Got(a.left, e, a.kept, a.rest) = Held(x.list) \cup Fit(i, j, x)
        /\ a.set_eof => Complete(Got(a.left, e, a.kept, a.rest), c)
        /\ a.set_eof = Accepts(x, j, eof)
    BY DEF Underway
  <1>3. /\ a.set_eof \in BOOLEAN /\ a.kept \in Seq(Nodes) /\ e \in Nat
        /\ a.left \in Nat /\ c < a.left
    BY <1>1, <1>2 DEF MergeOK, Merging, Activations
  <1>4. ListOK(list, c, w) /\ Held(list) = (a.left .. e - 1) \cup Held(a.kept)
    BY ONLY <1>1, <1>2, <1>3, InsertPlace, SMTT(30)
  <1>5. Got(a.left, e, a.kept, a.rest) = Held(list)  BY <1>4, HeldEmpty DEF Got
  <1>6. a.kept \o a.rest = a.kept  BY <1>3
  <1>7. [[x EXCEPT !.list = a.kept] EXCEPT !.list = insert_node(@, a)] = [x EXCEPT !.list = list]
    BY <1>1, Zenon DEF Objects
  <1>8. y = push_out([[x EXCEPT !.list = a.kept \o a.rest] EXCEPT !.list = insert_node(@, a)],
                     a.set_eof)
    BY <1>2 DEF push_finish
  <1>9. y = push_out([x EXCEPT !.list = list], a.set_eof)  BY <1>6, <1>7, <1>8, Zenon
  <1> HIDE DEF list
  <1>10. x.eof => Complete(Held(x.list), c)  BY Zenon DEF ObjectOK
  <1>11. Held(list) = Held(x.list) \cup Fit(i, j, x)  BY <1>2, <1>5, Zenon
  <1>12. a.set_eof => Complete(Held(list), c)  BY <1>2, <1>5
  <1>13. a.set_eof = Accepts(x, j, eof)  BY <1>2
  <1> QED  BY <1>1, <1>3, <1>4, <1>9, <1>10, <1>11, <1>12, <1>13, ArrivesHeld, Zenon

\* The kept nodes when the data have joined the assembled bytes.
LEMMA KeptBehind ==
    ASSUME NEW c \in Nat, NEW w \in Nat, NEW kept, ListOK(kept, c, w), NEW e \in Nat,
           Parted(kept, c, e)
    PROVE  ListOK(kept, e, w)
  <1>1. PICK p \in 0 .. Len(kept) :
             /\ \A k \in 1 .. Len(kept) : k <= p => kept[k].end + 1 < c
             /\ \A k \in 1 .. Len(kept) : k > p => e < kept[k].beg
    BY Zenon DEF Parted
  <1>2. ASSUME NEW k \in 1 .. Len(kept)  PROVE NodeOK(kept[k], e, w)
    <2>1. NodeOK(kept[k], c, w) /\ Len(kept) \in Nat  BY DEF ListOK
    <2>2. /\ kept[k].beg \in Nat /\ kept[k].end \in Nat /\ c < kept[k].beg
          /\ kept[k].beg <= kept[k].end + 1
      BY <2>1 DEF NodeOK, Nodes
    <2>3. ~(kept[k].end + 1 < c)  BY <2>2
    <2>4. e < kept[k].beg  BY ONLY <2>1, <2>3, <1>1, SMTT(30)
    <2> QED  BY <2>1, <2>4 DEF NodeOK
  <1> QED  BY <1>2 DEF ListOK

\* The output with the data behind it.
LEMMA WriteData ==
    ASSUME NEW x, BaseOK(x), NEW e \in Nat, x.cur_index <= e, e <= Window(x), e <= StreamLen,
           NEW data, data = Bytes(x.cur_index, e)
    PROVE  LET out == ByteStream_write(x.output, data)
           IN  /\ ByteStream_accepted(x.output, data) = Len(data)
               /\ Len(data) = e - x.cur_index
               /\ StreamOK(out, Nat) /\ out.capacity = Capacity
               /\ out.bytes_read = x.output.bytes_read /\ out.bytes_written = e
               /\ out.str = Bytes(out.bytes_read, e)
               /\ out.input_is_end = x.output.input_is_end
  <1> DEFINE b == x.output
             c == x.cur_index
             out == ByteStream_write(b, data)
             n == ByteStream_accepted(b, data)
  <1>1. /\ StreamOK(b, Nat) /\ b.capacity = Capacity /\ b.bytes_written = c
        /\ b.str = Bytes(b.bytes_read, c)
    BY DEF BaseOK
  <1>2. /\ c \in Nat /\ b.bytes_read \in Nat /\ b.bytes_read <= c
        /\ b.cur_cap = c - b.bytes_read /\ b.cur_cap \in Nat
        /\ Window(x) = b.bytes_read + Capacity
    BY FirstUnavailable DEF Window
  <1>3. data \in Seq(Nat) /\ Len(data) = e - c
    <2>1. c \in Nat /\ e \in Nat /\ c <= e /\ data = Bytes(c, e)  BY <1>2
    <2> QED  BY ONLY <2>1, BytesType, ZenonT(60)
  <1>4. Len(data) <= b.capacity - b.cur_cap
    <2>1. c <= e /\ e <= b.bytes_read + Capacity /\ Capacity \in Nat
      BY <1>2, PeerStreamAssumption
    <2> HIDE DEF b, c
    <2>2. e - c <= Capacity - b.cur_cap  BY ONLY <2>1, <1>2, SMTT(30)
    <2> QED  BY <2>2, <1>1, <1>3
  <1>5. /\ n = Len(data)
        /\ StreamOK(out, Nat) /\ out.bytes_written = b.bytes_written + n
        /\ out.bytes_read = b.bytes_read /\ out.capacity = b.capacity
        /\ out.input_is_end = b.input_is_end
        /\ out.str = b.str \o Substr(data, 0, n)
    <2> HIDE DEF b
    <2>1. StreamOK(b, Nat) /\ data \in Seq(Nat)  BY <1>1, <1>3
    <2>2. /\ Len(data) <= b.capacity - b.cur_cap => n = Len(data)
          /\ StreamOK(out, Nat) /\ out.bytes_written = b.bytes_written + n
          /\ out.bytes_read = b.bytes_read
      BY ONLY <2>1, WriteOK, SMTT(30)
    <2>3. /\ out.capacity = b.capacity /\ out.input_is_end = b.input_is_end
          /\ out.str = b.str \o Substr(data, 0, n)
      BY ONLY <2>1, WriteOK, SMTT(60)
    <2> QED  BY <2>2, <2>3, <1>4
  <1> HIDE DEF out, n, b
  <1>6. Substr(data, 0, n) = data
    <2>1. e - c \in Nat /\ e - c <= e - c /\ c + (e - c) = e  BY <1>2
    <2>2. Substr(Bytes(c, e), 0, e - c) = Bytes(c, c + (e - c))  BY <2>1, <1>2, BytesPrefix
    <2> QED  BY <2>1, <2>2, <1>3, <1>5
  <1>7. Bytes(b.bytes_read, c) \o Bytes(c, e) = Bytes(b.bytes_read, e)
    BY <1>2, BytesConcat, Zenon
  <1>8. out.bytes_written = e  BY ONLY <1>1, <1>2, <1>3, <1>5, SMTT(30)
  <1> QED  BY <1>1, <1>3, <1>5, <1>6, <1>7, <1>8, Zenon DEF out, n, b

\* The call ends with the data written to the output.
LEMMA FinishWrite ==
    ASSUME NEW x, ObjectOK(x), NEW i \in Nat, NEW j \in Nat, NEW eof, NEW e, NEW a,
           Underway(a, x, i, j, eof, e), a.rest = <<>>, a.left = x.cur_index,
           NEW y, y = push_finish(x, a)
    PROVE  ObjectOK(y) /\ Arrives(x, y, i, j, eof)
  <1> DEFINE c == x.cur_index
             w == Window(x)
             out == ByteStream_write(x.output, a.data)
             z == [output |-> out, cur_index |-> e, eof |-> x.eof, list |-> a.kept,
                   thrown |-> x.thrown]
  <1>1. /\ BaseOK(x) /\ c \in Nat /\ w \in Nat /\ x \in Objects /\ c <= StreamLen
        /\ x.eof => Complete(Held(x.list), c)
    BY FirstUnavailable DEF ObjectOK, BaseOK
  <1>2. /\ a.jump = "none" /\ MergeOK(a, e, c, w)
        /\ Got(c, e, a.kept, <<>>) = Held(x.list) \cup Fit(i, j, x)
        /\ a.set_eof => Complete(Got(c, e, a.kept, <<>>), c)
        /\ a.set_eof = Accepts(x, j, eof)
    BY Zenon DEF Underway
  <1>3. /\ a.set_eof \in BOOLEAN /\ a.kept \in Seq(Nodes) /\ e \in Nat
        /\ c <= e /\ e <= w /\ OfStream(c, e) /\ a.data = Bytes(c, e)
        /\ ListOK(a.kept, c, w) /\ Parted(a.kept, c, e)
    BY <1>2, Zenon DEF MergeOK, Merging, Activations
  <1>25. e <= StreamLen
    <2>1. c # StreamLen + 1  BY ONLY <1>1, PeerStreamAssumption, SMTT(30)
    <2> QED  BY ONLY <2>1, <1>3, Zenon DEF OfStream
  <1>4. ListOK(a.kept, e, w)  BY ONLY <1>1, <1>3, KeptBehind, Zenon
  <1>5. /\ ByteStream_accepted(x.output, a.data) = Len(a.data)
        /\ Len(a.data) = e - c
        /\ StreamOK(out, Nat) /\ out.capacity = Capacity
        /\ out.bytes_read = x.output.bytes_read /\ out.bytes_written = e
        /\ out.str = Bytes(out.bytes_read, e)
        /\ out.input_is_end = x.output.input_is_end
    <2>1. /\ BaseOK(x) /\ e \in Nat /\ x.cur_index <= e /\ e <= Window(x) /\ e <= StreamLen
          /\ a.data = Bytes(x.cur_index, e)
      BY <1>1, <1>3, <1>25
    <2> QED  BY ONLY <2>1, WriteData, ZenonT(60)
  <1>6. y = push_out([[[x EXCEPT !.list = a.kept \o a.rest]
                           EXCEPT !.output = ByteStream_write(@, a.data)]
                           EXCEPT !.cur_index = @ + Len(a.data)], a.set_eof)
    BY <1>2, <1>5 DEF push_finish
  <1>7. a.kept \o a.rest = a.kept /\ c + Len(a.data) = e
    <2>1. a.kept \in Seq(Nodes) /\ a.rest = <<>>  BY <1>3, Zenon
    <2>2. a.kept \o a.rest = a.kept  BY ONLY <2>1, SMTT(30)
    <2>3. Len(a.data) = e - c /\ c \in Nat /\ e \in Nat  BY <1>1, <1>3, <1>5, Zenon
    <2>4. c + Len(a.data) = e  BY ONLY <2>3, SMTT(30)
    <2> QED  BY <2>2, <2>4
  <1> DEFINE z1 == [x EXCEPT !.list = a.kept]
             z2 == [z1 EXCEPT !.output = ByteStream_write(@, a.data)]
             z3 == [z2 EXCEPT !.cur_index = @ + Len(a.data)]
  <1>8. z3 = z
    <2>1. z1 = [output |-> x.output, cur_index |-> c, eof |-> x.eof, list |-> a.kept,
                thrown |-> x.thrown]
      BY <1>1 DEF Objects
    <2> HIDE DEF z1
    <2>2. z2 = [output |-> out, cur_index |-> c, eof |-> x.eof, list |-> a.kept,
                thrown |-> x.thrown]
      BY <2>1
    <2> HIDE DEF z2
    <2>3. z3 = [output |-> out, cur_index |-> c + Len(a.data), eof |-> x.eof,
                list |-> a.kept, thrown |-> x.thrown]
      BY <2>2
    <2> QED  BY <2>3, <1>7
  <1>9. y = push_out(z, a.set_eof)  BY <1>6, <1>7, <1>8
  <1> HIDE DEF out, z1, z2, z3
  <1>27. z = [output |-> out, cur_index |-> e, eof |-> x.eof, list |-> a.kept, thrown |-> x.thrown]
    BY ONLY TRUE, Zenon DEF z
  <1>10. /\ z.output = out /\ z.cur_index = e /\ z.eof = x.eof /\ z.list = a.kept
         /\ z.thrown = x.thrown
    <2> HIDE DEF z
    <2> QED  BY ONLY <1>27, Zenon
  <1>11. z \in Objects
    <2>1. out \in StreamType(Nat)  BY <1>5 DEF StreamOK
    <2>2. x.eof \in BOOLEAN /\ x.thrown \in BOOLEAN  BY <1>1 DEF Objects
    <2> QED  BY <2>1, <2>2, <1>3 DEF Objects
  <1> HIDE DEF z
  <1>12. Window(z) = w  BY <1>5, <1>10, Zenon DEF Window
  <1>13. x.output.input_is_end => x.eof /\ e = StreamLen
    BY <1>1, <1>3, <1>25, PeerStreamAssumption DEF BaseOK
  <1>14. BaseOK(z)
    <2>1. ~z.thrown  BY <1>1, <1>10, Zenon DEF BaseOK
    <2>2. ListOK(z.list, z.cur_index, Window(z))  BY <1>4, <1>10, <1>12, Zenon
    <2>3. z.output.input_is_end => z.eof /\ z.cur_index = StreamLen  BY <1>5, <1>10, <1>13, Zenon
    <2> QED  BY <2>1, <2>2, <2>3, <1>25, <1>5, <1>10, <1>11, Zenon DEF BaseOK
  <1>15. Got(c, e, a.kept, <<>>) = (c .. e - 1) \cup Held(a.kept)  BY HeldEmpty, Zenon DEF Got
  <1>16. Complete((c .. e - 1) \cup Held(a.kept), c) => Complete(Held(a.kept), e)
    BY ONLY <1>1, <1>3, <1>25, PeerStreamAssumption, SMTT(30) DEF Complete
  <1>17. Complete(Held(x.list), c) => Complete((c .. e - 1) \cup Held(a.kept), c)
    BY <1>2, <1>15 DEF Complete
  <1>18. z.eof \/ a.set_eof => Complete(Held(z.list), z.cur_index)
    BY <1>1, <1>2, <1>10, <1>15, <1>16, <1>17, ZenonT(60)
  <1>19. /\ ObjectOK(y)
         /\ y.cur_index = e /\ y.list = a.kept
         /\ y.output.bytes_read = x.output.bytes_read
         /\ y.eof = (x.eof \/ a.set_eof)
    <2>1. a.set_eof \in BOOLEAN  BY <1>3, Zenon
    <2>2. /\ ObjectOK(y) /\ y.cur_index = z.cur_index /\ y.list = z.list
          /\ y.output.bytes_read = z.output.bytes_read
          /\ y.eof = (z.eof \/ a.set_eof)
      BY ONLY <2>1, <1>9, <1>14, <1>18, PushOut, SMTT(60)
    <2> QED  BY ONLY <2>2, <1>5, <1>10, ZenonT(60)
  <1>26. c \in Nat /\ e \in Nat /\ c <= e /\ e <= StreamLen /\ w \in Nat  BY <1>1, <1>3, <1>25
  <1>20. \A k \in Held(a.kept) : k \in Nat /\ e < k
    BY ONLY <1>26, <1>4, HeldBeyond, ZenonT(60)
  <1> DEFINE all == (c .. e - 1) \cup Held(a.kept)
  <1>21. /\ e \in c .. StreamLen /\ c .. e - 1 \subseteq all /\ e \notin all
    BY ONLY <1>20, <1>26, PeerStreamAssumption, SMTT(30)
  <1>22. Held(a.kept) = {k \in all : k > e}  BY ONLY <1>20, <1>26, SMTT(30)
  <1>23. Held(x.list) \cup Fit(i, j, x) = all  BY <1>2, <1>15, Zenon
  <1> HIDE DEF all
  <1>24. Arrives(x, y, i, j, eof)  BY <1>2, <1>19, <1>21, <1>22, <1>23, Zenon DEF Arrives
  <1> QED  BY <1>19, <1>24, Zenon

-----------------------------------------------------------------------------
\* One iteration of the merge loop.
LEMMA MergeCall ==
    ASSUME NEW x, ObjectOK(x), NEW i, NEW j, NEW eof, NEW a, InCall(a, x, i, j, eof),
           merging(a)
    PROVE  InCall(merge_node(a), x, i, j, eof)
  <1> DEFINE c == x.cur_index
             w == Window(x)
             n == merge_node(a)
  <1>1. c \in Nat /\ w \in Nat  BY FirstUnavailable, Zenon DEF ObjectOK
  <1>2. a.jump = "none" /\ a.rest # <<>>  BY Zenon DEF merging
  <1>5. PICK e : Underway(a, x, i, j, eof, e)
    <2>1. a.jump # "return" /\ a.jump # "out"  BY <1>2
    <2> QED  BY <2>1, Zenon DEF InCall, Leaving
  <1>6. /\ MergeOK(a, e, c, w)
        /\ Got(a.left, e, a.kept, a.rest) = Held(x.list) \cup Fit(i, j, x)
        /\ a.set_eof => Complete(Got(a.left, e, a.kept, a.rest), c)
        /\ a.set_eof = Accepts(x, j, eof)
    BY <1>5, Zenon DEF Underway
  <1>7. n = merge_node(a)  OBVIOUS
  <1> HIDE DEF n
  <1>8. /\ n \in Activations
        /\ n.set_eof = a.set_eof
        /\ \/ /\ n.jump = "none"
              /\ \E f : /\ MergeOK(n, f, c, w)
                        /\ Got(n.left, f, n.kept, n.rest) = Got(a.left, e, a.kept, a.rest)
           \/ /\ n.jump = "out" /\ n.kept = a.kept /\ n.rest = a.rest
              /\ Got(a.left, e, a.kept, a.rest) = Held(a.kept) \cup Held(a.rest)
    <2>1. Merged(n, a, e, c, w)  BY ONLY <1>1, <1>2, <1>6, <1>7, MergeStep, ZenonT(30)
    <2> QED  BY ONLY <2>1, ZenonT(30) DEF Merged
  <1>9. CASE n.jump = "none"
    <2>1. PICK f : /\ MergeOK(n, f, c, w)
                   /\ Got(n.left, f, n.kept, n.rest) = Got(a.left, e, a.kept, a.rest)
      BY <1>8, <1>9, Zenon
    <2>2. Underway(n, x, i, j, eof, f)  BY <2>1, <1>6, <1>8, <1>9, Zenon DEF Underway
    <2> QED  BY <2>2, <1>7, Zenon DEF InCall
  <1>10. CASE n.jump = "out"
    <2>1. /\ n.kept = a.kept /\ n.rest = a.rest
          /\ Got(a.left, e, a.kept, a.rest) = Held(a.kept) \cup Held(a.rest)
      BY <1>8, <1>10, ZenonT(30)
    <2>2. ListOK(a.kept, c, w) /\ ListOK(a.rest, c, w) /\ InFrontOf(a.kept, a.rest)
      BY ONLY <1>6, Zenon DEF MergeOK, Merging
    <2>4. Held(a.kept) \cup Held(a.rest) = Held(x.list) \cup Fit(i, j, x)  BY <2>1, <1>6, Zenon
    <2>5. n.set_eof => Complete(Held(a.kept) \cup Held(a.rest), c)  BY <2>1, <1>6, <1>8, Zenon
    <2>6. n \in Activations /\ n.set_eof = Accepts(x, j, eof)  BY <1>6, <1>8, Zenon
    <2>3. Leaving(n, x, i, j, eof)
      BY <2>1, <2>2, <2>4, <2>5, <2>6, <1>10, Zenon DEF Leaving
    <2> QED  BY <2>3, <1>7, Zenon DEF InCall
  <1> QED  BY <1>8, <1>9, <1>10, Zenon

\* A call on a full stream takes in nothing, as nothing fits.
LEMMA NothingFits ==
    ASSUME NEW x, ObjectOK(x), Window(x) = x.cur_index, NEW i \in Nat, NEW j \in Nat, NEW eof
    PROVE  Arrives(x, x, i, j, eof)
  <1>1. /\ BaseOK(x) /\ x.cur_index \in Nat /\ Window(x) \in Nat /\ x.cur_index <= StreamLen
        /\ ListOK(x.list, x.cur_index, Window(x)) /\ x.eof \in BOOLEAN
    BY FirstUnavailable DEF ObjectOK, BaseOK, Objects
  <1>2. \A k \in Held(x.list) : k \in Nat /\ x.cur_index < k
    BY ONLY <1>1, HeldBeyond, Zenon
  <1>3. Fit(i, j, x) = {} /\ ~Accepts(x, j, eof)  BY <1>1 DEF Fit, Accepts
  <1>4. /\ x.cur_index \in x.cur_index .. StreamLen
        /\ x.cur_index .. x.cur_index - 1 = {}
        /\ x.cur_index \notin Held(x.list)
        /\ Held(x.list) = {k \in Held(x.list) : k > x.cur_index}
    BY <1>1, <1>2, PeerStreamAssumption
  <1> QED  BY <1>1, <1>3, <1>4 DEF Arrives

\* The return from the call.
LEMMA FinishCall ==
    ASSUME NEW x, ObjectOK(x), NEW i \in Nat, NEW j \in Nat, NEW eof,
           NEW a, InCall(a, x, i, j, eof), ~merging(a), NEW y, y = push_finish(x, a)
    PROVE  ObjectOK(y) /\ Arrives(x, y, i, j, eof)
  <1>1. CASE a.jump = "return" /\ Window(x) = x.cur_index
    <2>1. y = x  BY <1>1 DEF push_finish
    <2> QED  BY <2>1, <1>1, NothingFits, Zenon
  <1>2. CASE Leaving(a, x, i, j, eof)  BY <1>2, FinishOut, Zenon
  <1>3. CASE \E e : Underway(a, x, i, j, eof, e)
    <2>1. PICK e : Underway(a, x, i, j, eof, e)  BY <1>3, Zenon
    <2>2. a.rest = <<>>  BY <2>1 DEF Underway, merging
    <2>3. ObjectOK(x) /\ y = push_finish(x, a) /\ i \in Nat /\ j \in Nat  OBVIOUS
    <2>4. CASE a.left = x.cur_index
      BY ONLY <2>1, <2>2, <2>3, <2>4, FinishWrite, ZenonT(60)
    <2>5. CASE a.left # x.cur_index
      BY ONLY <2>1, <2>2, <2>3, <2>5, FinishInsert, ZenonT(60)
    <2> QED  BY <2>4, <2>5
  <1> QED  BY <1>1, <1>2, <1>3, Zenon DEF InCall

\* A wider window admits the same list.
LEMMA WiderWindow ==
    ASSUME NEW c \in Nat, NEW w \in Nat, NEW v \in Nat, w <= v, NEW list, ListOK(list, c, w)
    PROVE  ListOK(list, c, v)
  <1>1. ASSUME NEW k \in 1 .. Len(list)  PROVE NodeOK(list[k], c, v)
    <2>1. NodeOK(list[k], c, w)  BY DEF ListOK
    <2>2. list[k].end \in Nat  BY <2>1 DEF NodeOK, Nodes
    <2> QED  BY <2>1, <2>2 DEF NodeOK
  <1> QED  BY <1>1 DEF ListOK

\* The reader takes n bytes.
LEMMA ReadCall ==
    ASSUME NEW x, ObjectOK(x), NEW n \in Nat, n <= x.output.cur_cap,
           NEW y, y = [x EXCEPT !.output = ByteStream_read(@, n).stream]
    PROVE  /\ ObjectOK(y)
           /\ y.cur_index = x.cur_index /\ y.list = x.list /\ y.eof = x.eof
           /\ y.output.bytes_read = x.output.bytes_read + n
           /\ y.output.input_is_end = x.output.input_is_end
           /\ n <= x.cur_index - x.output.bytes_read
  <1> DEFINE b == x.output
             out == ByteStream_read(b, n).stream
             c == x.cur_index
  <1>1. /\ BaseOK(x) /\ x \in Objects /\ StreamOK(b, Nat) /\ b.capacity = Capacity
        /\ b.bytes_written = c /\ b.str = Bytes(b.bytes_read, c)
        /\ ListOK(x.list, c, Window(x)) /\ c <= StreamLen
    BY DEF ObjectOK, BaseOK
  <1>2. /\ c \in Nat /\ b.bytes_read \in Nat /\ b.bytes_read <= c /\ Window(x) \in Nat
        /\ b.cur_cap = c - b.bytes_read
    BY <1>1, FirstUnavailable
  <1>3. MinOf(n, b.cur_cap) = n  BY DEF MinOf
  <1>4. /\ StreamOK(out, Nat)
        /\ out.bytes_read = b.bytes_read + n
        /\ out.bytes_written = b.bytes_written
        /\ out.capacity = b.capacity
        /\ out.input_is_end = b.input_is_end
        /\ Len(out.str) = b.cur_cap - n
        /\ \A i \in 1 .. b.cur_cap - n : out.str[i] = b.str[n + i]
    <2> HIDE DEF b
    <2>1. StreamOK(b, Nat) /\ n \in Nat /\ MinOf(n, b.cur_cap) = n  BY <1>1, <1>3, Zenon
    <2>2. /\ StreamOK(out, Nat) /\ out.bytes_read = b.bytes_read + n
          /\ out.bytes_written = b.bytes_written
      BY ONLY <2>1, ReadOK, SMTT(30)
    <2>3. out.capacity = b.capacity /\ out.input_is_end = b.input_is_end
      BY ONLY <2>1, ReadOK, ZenonT(30)
    <2>4. /\ Len(out.str) = b.cur_cap - n
          /\ \A i \in 1 .. b.cur_cap - n : out.str[i] = b.str[n + i]
      BY ONLY <2>1, ReadOK, SMTT(30)
    <2> QED  BY <2>2, <2>3, <2>4
  <1>5. y = [output |-> out, cur_index |-> c, eof |-> x.eof, list |-> x.list,
             thrown |-> x.thrown]
    BY <1>1 DEF Objects
  <1> HIDE DEF out, b
  <1>6. /\ y.output = out /\ y.cur_index = c /\ y.eof = x.eof /\ y.list = x.list
        /\ y.thrown = x.thrown
    BY ONLY <1>5, SMTT(30)
  <1>7. y \in Objects
    <2>1. out \in StreamType(Nat)  BY <1>4 DEF StreamOK
    <2>2. /\ c \in Nat /\ x.eof \in BOOLEAN /\ x.list \in Seq(Nodes)
          /\ x.thrown \in BOOLEAN
      BY <1>1 DEF Objects
    <2> QED  BY ONLY <2>1, <2>2, <1>5, ZenonT(30) DEF Objects
  <1> DEFINE i == b.bytes_read + n
  <1>8. i \in Nat /\ i <= c /\ b.cur_cap - n = c - i /\ n <= c - b.bytes_read
    BY <1>2 DEF b
  <1>9. \A k \in 1 .. c - b.bytes_read : b.str[k] = b.bytes_read + k - 1
    BY <1>1, <1>2, BytesType
  <1>10. out.str = Bytes(i, c)
    <2>1. out.str \in Seq(Nat)  BY <1>4 DEF StreamOK, StreamType
    <2>2. Len(out.str) = c - i  BY <1>4, <1>8
    <2>3. ASSUME NEW k \in 1 .. c - i  PROVE out.str[k] = i + k - 1
      <3>1. n + k \in 1 .. c - b.bytes_read  BY <1>2, <1>8
      <3>2. out.str[k] = b.str[n + k]  BY <1>4, <1>8
      <3>3. b.str[n + k] = b.bytes_read + (n + k) - 1  BY <3>1, <1>9
      <3> QED  BY <3>2, <3>3, <1>2
    <2> HIDE DEF i
    <2> QED  BY <2>1, <2>2, <2>3, <1>2, <1>8, BytesUnique, Zenon
  <1>11. Window(y) \in Nat /\ Window(x) <= Window(y)
    <2>1. Window(x) = b.bytes_read + Capacity  BY DEF Window, b
    <2>2. Window(y) = (b.bytes_read + n) + Capacity  BY <1>4, <1>6 DEF Window
    <2> QED  BY <2>1, <2>2, <1>2, PeerStreamAssumption
  <1>12. ListOK(y.list, c, Window(y))  BY <1>1, <1>2, <1>6, <1>11, WiderWindow, Zenon
  <1>13. BaseOK(y)
    BY <1>1, <1>4, <1>6, <1>7, <1>10, <1>12, Zenon DEF BaseOK, b
  <1>14. /\ y.eof => Complete(Held(y.list), y.cur_index)
         /\ y.eof /\ y.cur_index = StreamLen => y.output.input_is_end
    BY <1>4, <1>6 DEF ObjectOK, b
  <1> QED  BY <1>4, <1>6, <1>8, <1>13, <1>14, Zenon DEF ObjectOK, b

-----------------------------------------------------------------------------
\* The whole call.  Its loop is a fold over the list, and after k iterations
\* the fold has a state that the lemmas above describe.

merge_iteration(m, it) == IF merging(m) THEN merge_node(m) ELSE m

\* The loop has a state after each of its iterations.
LEMMA MergeRuns ==
    ASSUME NEW base, NEW list, Len(list) \in Nat
    PROVE  \E run : /\ run[0] = base
                    /\ \A k \in 1 .. Len(list) : run[k] = merge_iteration(run[k - 1], list[k])
                    /\ run[Len(list)] = ForEach(merge_iteration, base, list)
  <1> DEFINE n == Len(list)
             Body(g, m) == [k \in 0 .. m |-> IF k = 0 THEN base ELSE merge_iteration(g[k - 1], list[k])]
             T == {m \in 0 .. n : \E g : g = Body(g, m)}
  <1>1. 0 \in T
    <2> DEFINE g == [k \in 0 .. 0 |-> base]
    <2>1. g = Body(g, 0)  OBVIOUS
    <2>2. 0 \in 0 .. n  OBVIOUS
    <2> HIDE DEF g, n
    <2> QED  BY <2>1, <2>2
  <1>2. ASSUME NEW m \in 0 .. n - 1, m \in T  PROVE m + 1 \in T
    <2>1. PICK g : g = Body(g, m)  BY <1>2
    <2> DEFINE v == merge_iteration(g[m], list[m + 1])
               h == [k \in 0 .. m + 1 |-> IF k = m + 1 THEN v ELSE g[k]]
    <2>2. ASSUME NEW k \in 0 .. m + 1
          PROVE  h[k] = IF k = 0 THEN base ELSE merge_iteration(h[k - 1], list[k])
      <3>1. CASE k = m + 1
        <4>1. m \in 0 .. m + 1 /\ m # m + 1 /\ k # 0 /\ k - 1 = m  BY <3>1
        <4>2. h[m] = g[m] /\ h[k] = v  BY <3>1, <4>1, Zenon
        <4> HIDE DEF h
        <4> QED  BY <3>1, <4>1, <4>2
      <3>2. CASE k # m + 1
        <4>1. k \in 0 .. m /\ h[k] = g[k]  BY <3>2
        <4>2. g[k] = IF k = 0 THEN base ELSE merge_iteration(g[k - 1], list[k])  BY <2>1, <4>1
        <4>3. k # 0 => k - 1 \in 0 .. m + 1 /\ k - 1 # m + 1  BY <4>1
        <4>4. k # 0 => h[k - 1] = g[k - 1]  BY <4>3
        <4> HIDE DEF h
        <4> QED  BY <4>1, <4>2, <4>4, Zenon
      <3> QED  BY <3>1, <3>2
    <2>3. h = Body(h, m + 1)
      <3>1. h = [k \in 0 .. m + 1 |-> h[k]]  OBVIOUS
      <3> HIDE DEF h
      <3> QED  BY <2>2, <3>1
    <2> HIDE DEF h
    <2> QED  BY <2>3
  <1>3. n \in T
    <2> HIDE DEF T, n
    <2>1. n \in Nat /\ n \in 0 .. n  BY DEF n
    <2>2. \A m \in 0 .. n - 1 : m \in T => m + 1 \in T  BY <1>2
    <2> QED  BY ONLY <1>1, <2>1, <2>2, Induction, ZenonT(30)
  <1> DEFINE run == CHOOSE g : g = Body(g, n)
  <1>4. run = Body(run, n)  
    <2>1. \E g : g = Body(g, n)  BY <1>3
    <2> HIDE DEF n
    <2> QED  BY <2>1, Zenon
  <1>5. run[n] = ForEach(merge_iteration, base, list)
    BY Zenon DEF ForEach
  <1> HIDE DEF run
  <1>6. run[0] = base  BY <1>4
  <1>7. ASSUME NEW k \in 1 .. n  PROVE run[k] = merge_iteration(run[k - 1], list[k])
    BY <1>4
  <1> QED  BY <1>5, <1>6, <1>7, Zenon

LEMMA CallIsFold ==
    ASSUME NEW x, NEW data, NEW i, NEW eof
    PROVE  Reassembler_push_substring(x, data, i, eof) =
               push_finish(x, ForEach(merge_iteration, push_begin(x, data, i, eof), x.list))
  BY Zenon DEF Reassembler_push_substring, ForEach, merge_iteration

\* An iteration that does not leave the loop has dealt with one node.
LEMMA MergeTail ==
    ASSUME NEW x, NEW i, NEW j, NEW eof, NEW a, InCall(a, x, i, j, eof), merging(a)
    PROVE  /\ a.rest \in Seq(Nodes) /\ a.rest # <<>>
           /\ merging(merge_node(a)) => merge_node(a).rest = Tail(a.rest)
  <1>1. a.jump = "none" /\ a.rest # <<>>  BY DEF merging
  <1>2. a \in Activations
    BY <1>1, Zenon DEF InCall, Leaving, Underway, MergeOK
  <1>3. a.rest \in Seq(Nodes)  BY <1>2 DEF Activations
  <1> DEFINE it == Head(a.rest)
  <1>4. merge_node(a).jump = "none" => merge_node(a).rest = Tail(a.rest)
    BY <1>2, Zenon DEF merge_node, Activations
  <1> QED  BY <1>1, <1>3, <1>4, Zenon DEF merging

LEMMA BeginRest ==
    ASSUME NEW x, NEW data, NEW i, NEW eof
    PROVE  push_begin(x, data, i, eof).rest = x.list
  BY DEF push_begin, Activation

LEMMA PushSubstring ==
    ASSUME NEW x, ObjectOK(x), NEW i, NEW j, NEW eof, Sent(x, i, j, eof),
           NEW y, y = Reassembler_push_substring(x, Bytes(i, j), i, eof)
    PROVE  ObjectOK(y) /\ Arrives(x, y, i, j, eof)
  <1> DEFINE base == push_begin(x, Bytes(i, j), i, eof)
             n == Len(x.list)
  <1>1. InCall(base, x, i, j, eof)  BY BeginOK, Zenon
  <1>2. base.rest = x.list  BY BeginRest, Zenon
  <1>3. x.list \in Seq(Nodes) /\ n \in Nat
    <2>1. x.list \in Seq(Nodes)  BY ONLY ObjectOK(x), Zenon DEF ObjectOK, BaseOK, ListOK
    <2> QED  BY ONLY <2>1, SMTT(30)
  <1> HIDE DEF base
  <1>4. PICK run : /\ run[0] = base
                   /\ \A k \in 1 .. Len(x.list) :
                          run[k] = merge_iteration(run[k - 1], x.list[k])
                   /\ run[Len(x.list)] = ForEach(merge_iteration, base, x.list)
    BY ONLY <1>3, MergeRuns, Zenon
  <1> DEFINE Left(k) == merging(run[k]) => Len(run[k].rest) = n - k
             T == {k \in 0 .. n : InCall(run[k], x, i, j, eof) /\ Left(k)}
  <1>5. 0 \in T
    <2>1. run[0] = base  BY ONLY <1>4, Zenon
    <2>2. 0 \in 0 .. n /\ n - 0 = n  BY ONLY <1>3, SMTT(30)
    <2>3. InCall(run[0], x, i, j, eof) /\ Left(0)  BY ONLY <2>1, <2>2, <1>1, <1>2, Zenon
    <2> QED  BY ONLY <2>2, <2>3, Zenon
  <1>6. ASSUME NEW k \in 0 .. n - 1, k \in T  PROVE k + 1 \in T
    <2>1. InCall(run[k], x, i, j, eof) /\ Left(k)  BY <1>6, Zenon
    <2>2. run[k + 1] = merge_iteration(run[k], x.list[k + 1])
      <3>1. k + 1 \in 1 .. n /\ (k + 1) - 1 = k  BY <1>3
      <3> QED  BY <3>1, <1>4
    <2>3. CASE ~merging(run[k])
      <3>1. run[k + 1] = run[k]  BY <2>2, <2>3 DEF merge_iteration
      <3>2. InCall(run[k + 1], x, i, j, eof) /\ Left(k + 1)  BY <3>1, <2>1, <2>3
      <3> QED  BY <3>2, <1>3
    <2>4. CASE merging(run[k])
      <3>1. run[k + 1] = merge_node(run[k])  BY <2>2, <2>4 DEF merge_iteration
      <3>2. InCall(run[k + 1], x, i, j, eof)
        <4>1. ObjectOK(x) /\ InCall(run[k], x, i, j, eof) /\ merging(run[k])  BY <2>1, <2>4
        <4> QED  BY ONLY <4>1, <3>1, MergeCall, SMTT(30)
      <3>3. /\ run[k].rest \in Seq(Nodes) /\ run[k].rest # <<>>
            /\ merging(run[k + 1]) => run[k + 1].rest = Tail(run[k].rest)
        BY ONLY <2>1, <2>4, <3>1, MergeTail, SMTT(30)
      <3>4. Len(run[k].rest) = n - k  BY <2>1, <2>4
      <3>5. Len(Tail(run[k].rest)) = n - (k + 1)  BY <3>3, <3>4, <1>3
      <3>6. Left(k + 1)  BY <3>3, <3>5, Zenon
      <3> QED  BY <3>2, <3>6, <1>3
    <2> QED  BY <2>3, <2>4
  <1>7. \A k \in 0 .. n : k \in T
    <2> HIDE DEF T, n
    <2>1. n \in Nat /\ 0 \in T /\ \A k \in 0 .. n - 1 : k \in T => k + 1 \in T
      BY <1>3, <1>5, <1>6 DEF n
    <2> QED  BY ONLY <2>1, Induction, SMTT(30)
  <1>8. InCall(run[n], x, i, j, eof) /\ Left(n)
    <2>1. n \in 0 .. n  BY <1>3
    <2> QED  BY <2>1, <1>7
  <1>9. ~merging(run[n])
    <2>1. SUFFICES ASSUME merging(run[n])  PROVE FALSE  OBVIOUS
    <2>2. run[n].rest \in Seq(Nodes) /\ run[n].rest # <<>>
      BY ONLY <2>1, <1>8, MergeTail, SMTT(30)
    <2>3. Len(run[n].rest) = 0  BY <2>1, <1>3, <1>8
    <2> QED  BY <2>2, <2>3
  <1>10. y = push_finish(x, run[n])  BY <1>4, CallIsFold, Zenon DEF base
  <1>11. ObjectOK(x) /\ InCall(run[n], x, i, j, eof) /\ i \in Nat /\ j \in Nat
    BY <1>8, Zenon DEF Sent
  <1> QED  BY ONLY <1>9, <1>10, <1>11, FinishCall, ZenonT(30)

-----------------------------------------------------------------------------
\* What waits in the list lies between the assembled bytes and the window.

add_node(n, it) == n + Len(it.s)

LEMMA AddRuns ==
    ASSUME NEW base, NEW list, Len(list) \in Nat
    PROVE  \E run : /\ run[0] = base
                    /\ \A k \in 1 .. Len(list) : run[k] = add_node(run[k - 1], list[k])
                    /\ run[Len(list)] = ForEach(add_node, base, list)
  <1> DEFINE n == Len(list)
             Body(g, m) == [k \in 0 .. m |-> IF k = 0 THEN base ELSE add_node(g[k - 1], list[k])]
             T == {m \in 0 .. n : \E g : g = Body(g, m)}
  <1>1. 0 \in T
    <2> DEFINE g == [k \in 0 .. 0 |-> base]
    <2>1. g = Body(g, 0)  OBVIOUS
    <2>2. 0 \in 0 .. n  OBVIOUS
    <2> HIDE DEF g, n
    <2> QED  BY <2>1, <2>2
  <1>2. ASSUME NEW m \in 0 .. n - 1, m \in T  PROVE m + 1 \in T
    <2>1. PICK g : g = Body(g, m)  BY <1>2
    <2> DEFINE v == add_node(g[m], list[m + 1])
               h == [k \in 0 .. m + 1 |-> IF k = m + 1 THEN v ELSE g[k]]
    <2>2. ASSUME NEW k \in 0 .. m + 1
          PROVE  h[k] = IF k = 0 THEN base ELSE add_node(h[k - 1], list[k])
      <3>1. CASE k = m + 1
        <4>1. m \in 0 .. m + 1 /\ m # m + 1 /\ k # 0 /\ k - 1 = m  BY <3>1
        <4>2. h[m] = g[m] /\ h[k] = v  BY <3>1, <4>1
        <4> HIDE DEF h
        <4> QED  BY <3>1, <4>1, <4>2
      <3>2. CASE k # m + 1
        <4>1. k \in 0 .. m /\ h[k] = g[k]  BY <3>2
        <4>2. g[k] = IF k = 0 THEN base ELSE add_node(g[k - 1], list[k])  BY <2>1, <4>1
        <4>3. k # 0 => k - 1 \in 0 .. m + 1 /\ k - 1 # m + 1  BY <4>1
        <4>4. k # 0 => h[k - 1] = g[k - 1]  BY <4>3
        <4> HIDE DEF h
        <4> QED  BY <4>1, <4>2, <4>4
      <3> QED  BY <3>1, <3>2
    <2>3. h = Body(h, m + 1)
      <3>1. h = [k \in 0 .. m + 1 |-> h[k]]  OBVIOUS
      <3> HIDE DEF h
      <3> QED  BY <2>2, <3>1
    <2> HIDE DEF h
    <2> QED  BY <2>3
  <1>3. n \in T
    <2> HIDE DEF T, n
    <2>1. n \in Nat /\ n \in 0 .. n  BY DEF n
    <2>2. \A m \in 0 .. n - 1 : m \in T => m + 1 \in T  BY <1>2
    <2> QED  BY ONLY <1>1, <2>1, <2>2, Induction, SMTT(30)
  <1> DEFINE run == CHOOSE g : g = Body(g, n)
  <1>4. run = Body(run, n)  
    <2>1. \E g : g = Body(g, n)  BY <1>3
    <2> HIDE DEF n
    <2> QED  BY <2>1, Zenon
  <1>5. run[n] = ForEach(add_node, base, list)
    BY Zenon DEF ForEach
  <1> HIDE DEF run
  <1>6. run[0] = base  BY <1>4
  <1>7. ASSUME NEW k \in 1 .. n  PROVE run[k] = add_node(run[k - 1], list[k])
    BY <1>4
  <1> QED  BY <1>5, <1>6, <1>7, Zenon

LEMMA WaitingIsFold ==
    ASSUME NEW x
    PROVE  Reassembler_unassembled_bytes(x) = ForEach(add_node, 0, x.list)
  BY Zenon DEF Reassembler_unassembled_bytes, ForEach, add_node

LEMMA UnassembledFits ==
    ASSUME NEW x, BaseOK(x)
    PROVE  /\ Reassembler_unassembled_bytes(x) \in Nat
           /\ Reassembler_unassembled_bytes(x) <= Window(x) - x.cur_index
  <1> DEFINE c == x.cur_index
             w == Window(x)
             list == x.list
             n == Len(list)
  <1>1. c \in Nat /\ w \in Nat /\ c <= w /\ ListOK(list, c, w)
    BY FirstUnavailable DEF BaseOK
  <1>2. list \in Seq(Nodes) /\ n \in Nat  BY <1>1 DEF ListOK
  <1>3. PICK run : /\ run[0] = 0
                   /\ \A k \in 1 .. Len(list) : run[k] = add_node(run[k - 1], list[k])
                   /\ run[Len(list)] = ForEach(add_node, 0, list)
    BY ONLY <1>2, AddRuns, Zenon
  <1> HIDE DEF c, w, list
  <1>4. ASSUME NEW k \in 1 .. n
        PROVE  /\ list[k].beg \in Nat /\ list[k].end \in Nat /\ c < list[k].beg
               /\ list[k].end < w /\ list[k].beg <= list[k].end + 1
               /\ Len(list[k].s) = list[k].end + 1 - list[k].beg
    <2> DEFINE nd == list[k]
               z == nd.end + 1
    <2>1. NodeOK(nd, c, w)  BY <1>1 DEF ListOK
    <2>2. /\ nd.beg \in Nat /\ nd.end \in Nat /\ c < nd.beg /\ nd.end < w
          /\ nd.beg <= z /\ z \in Nat /\ nd.s = Bytes(nd.beg, z)
      BY <2>1 DEF NodeOK, Nodes
    <2> HIDE DEF nd, z
    <2>3. Len(Bytes(nd.beg, z)) = z - nd.beg  BY <2>2, BytesType, Zenon
    <2> QED  BY <2>2, <2>3 DEF nd, z
  <1> DEFINE Below(k) == /\ run[k] \in Nat
                         /\ k = 0 => run[k] = 0
                         /\ k > 0 => run[k] <= list[k].end + 1 - c
             T == {k \in 0 .. n : Below(k)}
  <1>5. 0 \in T  BY <1>2, <1>3
  <1>6. ASSUME NEW k \in 0 .. n - 1, k \in T  PROVE k + 1 \in T
    <2>1. Below(k)  BY <1>6
    <2>2. k + 1 \in 1 .. n /\ (k + 1) - 1 = k  BY <1>2
    <2>3. run[k + 1] = run[k] + Len(list[k + 1].s)
      <3>1. \A l \in 1 .. n : run[l] = add_node(run[l - 1], list[l])  BY <1>3, Zenon
      <3> QED  BY ONLY <2>2, <3>1, SMTT(30) DEF add_node
    <2>4. /\ list[k + 1].beg \in Nat /\ list[k + 1].end \in Nat /\ c < list[k + 1].beg
          /\ list[k + 1].beg <= list[k + 1].end + 1
          /\ Len(list[k + 1].s) = list[k + 1].end + 1 - list[k + 1].beg
      BY <2>2, <1>4
    <2>5. run[k] <= list[k + 1].beg - c
      <3>1. CASE k = 0  BY ONLY <3>1, <2>1, <2>4, <1>1, SMTT(30)
      <3>2. CASE k # 0
        <4>1. k \in 1 .. n /\ k < k + 1 /\ k > 0  BY <3>2, <1>2
        <4>2. Apart(list[k], list[k + 1])  BY <4>1, <2>2, <1>1 DEF ListOK
        <4>3. list[k].end \in Nat  BY <4>1, <1>4
        <4> QED  BY <4>1, <4>2, <4>3, <2>1, <2>4, <1>1 DEF Apart
      <3> QED  BY <3>1, <3>2
    <2>6. Below(k + 1)  BY <2>1, <2>3, <2>4, <2>5, <1>1, SMTT(90)
    <2> QED  BY <2>6, <2>2
  <1>7. \A k \in 0 .. n : k \in T
    <2> HIDE DEF T, n
    <2>1. n \in Nat /\ 0 \in T /\ \A k \in 0 .. n - 1 : k \in T => k + 1 \in T
      BY <1>2, <1>5, <1>6
    <2> QED  BY ONLY <2>1, Induction, SMTT(30)
  <1>8. Below(n)
    <2>1. n \in 0 .. n  BY <1>2
    <2> QED  BY <2>1, <1>7
  <1>9. run[n] \in Nat /\ run[n] <= w - c
    <2>1. CASE n = 0  BY <2>1, <1>1, <1>8
    <2>2. CASE n # 0
      <3>1. n \in 1 .. n /\ n > 0  BY ONLY <2>2, <1>2, SMTT(30)
      <3> QED  BY <3>1, <1>1, <1>4, <1>8
    <2> QED  BY <2>1, <2>2
  <1>10. Reassembler_unassembled_bytes(x) = run[n]  BY <1>3, WaitingIsFold DEF list
  <1> QED  BY <1>9, <1>10, Zenon DEF w, c
=============================================================================
