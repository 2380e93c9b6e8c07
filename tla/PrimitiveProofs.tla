-------------------------- MODULE PrimitiveProofs ---------------------------
(***************************************************************************)
(* The two value types that everything else is built from, for every width *)
(* of their integers: a ByteStream, whose operations keep its fields       *)
(* consistent for every set of bytes, capacity and length, and the         *)
(* wrapping sequence numbers.  First an induction in a form that can be    *)
(* applied: what it shows is a set of numbers.                             *)
(***************************************************************************)
EXTENDS ByteStream, WrappingIntegers, SequenceTheorems, WellFoundedInduction, TLAPS

\* A set of natural numbers that is not empty has a least member.
LEMMA LeastNat ==
    ASSUME NEW T, T \subseteq Nat, T # {}
    PROVE  \E x \in T : \A y \in T : x <= y
  <1> DEFINE R == OpToRel(<, Nat)
  <1>1. IsWellFoundedOn(R, Nat)  BY NatLessThanWellFounded, Zenon
  <1>2. \A x, y \in Nat : <<x, y>> \in R <=> x < y  BY DEF OpToRel
  <1> HIDE DEF R
  <1>3. PICK x \in T : \A y \in T : ~(<<y, x>> \in R)  BY <1>1, WFMin, Zenon
  <1>4. ASSUME NEW y \in T  PROVE x <= y
    <2>1. x \in Nat /\ y \in Nat  OBVIOUS
    <2>2. ~(y < x)  BY <1>2, <1>3, <2>1, Zenon
    <2> QED  BY <2>1, <2>2
  <1> QED  BY <1>4

\* Induction up to n.
LEMMA Induction ==
    ASSUME NEW n \in Nat, NEW T, 0 \in T,
           \A k \in 0 .. n - 1 : k \in T => k + 1 \in T
    PROVE  \A k \in 0 .. n : k \in T
  <1> DEFINE U == {k \in 0 .. n : k \notin T}
  <1>1. SUFFICES ASSUME U # {}  PROVE FALSE  OBVIOUS
  <1>2. U \subseteq Nat  OBVIOUS
  <1>3. PICK x \in U : \A y \in U : x <= y
    <2> HIDE DEF U
    <2> QED  BY <1>1, <1>2, LeastNat, Zenon
  <1>4. x # 0 /\ x \in 0 .. n /\ x \notin T  OBVIOUS
  <1>5. x - 1 \in 0 .. n - 1 /\ (x - 1) + 1 = x  BY <1>4
  <1>6. x - 1 \notin T  BY <1>4, <1>5
  <1>7. x - 1 \in U  BY <1>5, <1>6
  <1> QED  BY <1>3, <1>4, <1>7

\* Quotient and remainder recompose the number.
LEMMA DivMod ==
    ASSUME NEW m \in Nat \ {0}, NEW x \in Int
    PROVE  /\ x \div m \in Int
           /\ x % m \in 0 .. m - 1
           /\ x = m * (x \div m) + (x % m)
  OBVIOUS

\* A multiple of m strictly between -m and m is zero.
LEMMA SmallMultiple ==
    ASSUME NEW m \in Nat \ {0}, NEW d \in Int, -m < m * d, m * d < m
    PROVE  d = 0
  <1>1. CASE d >= 1
    <2>1. m * d >= m  BY <1>1
    <2> QED  BY <2>1
  <1>2. CASE d <= -1
    <2>1. m * d <= -m  BY <1>2
    <2> QED  BY <2>1
  <1> QED  BY <1>1, <1>2

\* The remainder of m * k + r is r, whatever the turn k.
LEMMA ModUnique ==
    ASSUME NEW m \in Nat \ {0}, NEW k \in Int, NEW r \in 0 .. m - 1
    PROVE  (m * k + r) % m = r
  <1> DEFINE x == m * k + r
             q == x \div m
             s == x % m
  <1>1. x \in Int  OBVIOUS
  <1>2. q \in Int /\ s \in 0 .. m - 1 /\ x = m * q + s
    BY <1>1, DivMod
  <1>3. m * (k - q) = s - r
    <2>1. m * (k - q) = m * k - m * q  BY <1>2
    <2> QED  BY <2>1, <1>2
  <1>4. k - q = 0
    <2>1. -m < m * (k - q) /\ m * (k - q) < m  BY <1>3, <1>2
    <2> HIDE DEF x, q, s
    <2>2. k - q \in Int  BY <1>2
    <2> QED  BY <2>1, <2>2, SmallMultiple
  <1>5. s - r = 0
    <2> HIDE DEF x, q, s
    <2> QED  BY <1>3, <1>4
  <1> QED  BY <1>5, <1>2

\* The distance above the ISN is the remainder of the difference: the two
\* branches of unwrap's `off` compute the same thing.
LEMMA OffsetIsRemainder ==
    ASSUME NEW n0 \in RawSeqno, NEW isn0 \in RawSeqno
    PROVE  Offset(n0, isn0) = (n0 - isn0) % SeqnoMod
  <1> DEFINE d == (n0 - isn0) % SeqnoMod
             q == (n0 - isn0) \div SeqnoMod
  <1>1. SeqnoMod \in Nat \ {0}  BY SeqnoModAssumption
  <1>2. /\ n0 - isn0 \in Int
        /\ q \in Int /\ d \in 0 .. SeqnoMod - 1
        /\ n0 - isn0 = SeqnoMod * q + d
    <2>1. n0 - isn0 \in Int  BY <1>1 DEF RawSeqno
    <2> QED  BY <2>1, <1>1, DivMod, Zenon
  <1>3. (isn0 - n0 - 1) % SeqnoMod = SeqnoMod - 1 - d
    <2> DEFINE k == -q - 1
               r == SeqnoMod - 1 - d
    <2> HIDE DEF d, q
    <2>1. k \in Int /\ r \in 0 .. SeqnoMod - 1  BY <1>1, <1>2
    <2>2. SeqnoMod * k = -(SeqnoMod * q) - SeqnoMod  BY <1>1, <1>2
    <2>3. isn0 - n0 - 1 = SeqnoMod * k + r
      <3> HIDE DEF k
      <3> QED  BY <2>2, <1>1, <1>2, <2>1 DEF RawSeqno
    <2> HIDE DEF k, r
    <2>4. (SeqnoMod * k + r) % SeqnoMod = r  BY <2>1, <1>1, ModUnique
    <2> QED  BY <2>3, <2>4 DEF r
  <1> HIDE DEF q
  <1> QED  BY <1>1, <1>2, <1>3 DEF Offset

\* Wrapping stays among the raw numbers, and unwrap's offset recovers the
\* remainder of the absolute number.
LEMMA OffsetOfWrap ==
    ASSUME NEW x \in Nat, NEW isn0 \in RawSeqno
    PROVE  /\ wrap(x, isn0) \in RawSeqno
           /\ Offset(wrap(x, isn0), isn0) = x % SeqnoMod
  <1> DEFINE r == x % SeqnoMod
             y == r + isn0
             q == y \div SeqnoMod
             w == y % SeqnoMod
  <1>1. SeqnoMod \in Nat \ {0}  BY SeqnoModAssumption
  <1>2. r \in 0 .. SeqnoMod - 1  BY <1>1, DivMod
  <1>3. y \in Int  BY <1>1, <1>2 DEF RawSeqno
  <1>4. q \in Int /\ w \in 0 .. SeqnoMod - 1 /\ y = SeqnoMod * q + w
    BY <1>1, <1>3, DivMod, Zenon
  <1>5. wrap(x, isn0) = w  BY DEF wrap
  <1>6. w \in RawSeqno  BY <1>4 DEF RawSeqno
  <1>7. (w - isn0) % SeqnoMod = r
    <2> DEFINE k == -q
    <2>1. k \in Int /\ SeqnoMod * k = -(SeqnoMod * q)  BY <1>1, <1>4
    <2>2. w - isn0 = SeqnoMod * k + r
      <3>1. y = r + isn0  OBVIOUS
      <3> HIDE DEF r, y, q, w, k
      <3> QED  BY <3>1, <2>1, <1>1, <1>2, <1>4 DEF RawSeqno
    <2> HIDE DEF r, w, k
    <2> QED  BY <2>1, <2>2, <1>1, <1>2, ModUnique
  <1> HIDE DEF r, y, q, w
  <1> QED  BY <1>5, <1>6, <1>7, OffsetIsRemainder DEF r

\* A raw number is recovered from its offset.
LEMMA WrapOfOffset ==
    ASSUME NEW n0 \in RawSeqno, NEW isn0 \in RawSeqno
    PROVE  (Offset(n0, isn0) + isn0) % SeqnoMod = n0
  <1> DEFINE r == (n0 - isn0) % SeqnoMod
             q == (n0 - isn0) \div SeqnoMod
             k == -q
  <1>1. SeqnoMod \in Nat \ {0}  BY SeqnoModAssumption
  <1>2. /\ q \in Int /\ r \in 0 .. SeqnoMod - 1
        /\ n0 - isn0 = SeqnoMod * q + r
    <2>1. n0 - isn0 \in Int  BY <1>1 DEF RawSeqno
    <2> QED  BY <2>1, <1>1, DivMod, Zenon
  <1> HIDE DEF q, r
  <1>3. k \in Int /\ SeqnoMod * k = -(SeqnoMod * q)  BY <1>1, <1>2
  <1> HIDE DEF k
  <1>4. r + isn0 = SeqnoMod * k + n0  BY <1>1, <1>2, <1>3 DEF RawSeqno
  <1>5. (SeqnoMod * k + n0) % SeqnoMod = n0  BY <1>1, <1>3, ModUnique DEF RawSeqno
  <1> QED  BY <1>4, <1>5, OffsetIsRemainder DEF r

\* The absolute numbers that wrap to n are those with its offset as remainder.
LEMMA WrapsTo ==
    ASSUME NEW x \in Nat, NEW n0 \in RawSeqno, NEW isn0 \in RawSeqno
    PROVE  wrap(x, isn0) = n0 <=> x % SeqnoMod = Offset(n0, isn0)
  <1>1. wrap(x, isn0) = n0 => x % SeqnoMod = Offset(n0, isn0)
    BY OffsetOfWrap
  <1>2. x % SeqnoMod = Offset(n0, isn0) => wrap(x, isn0) = n0
    BY WrapOfOffset DEF wrap
  <1> QED  BY <1>1, <1>2

\* The number with offset r in the turn of c is an absolute number, and so is
\* the one a turn up, unless the sum overflows and falls back to r.
LEMMA TurnOf ==
    ASSUME NEW c \in AbsSeqno, NEW r \in 0 .. SeqnoMod - 1
    PROVE  LET res == (c - (c % SeqnoMod)) + r
               up  == (res + SeqnoMod) % AbsMod
           IN  /\ res \in AbsSeqno
               /\ c - res < SeqnoMod /\ res - c < SeqnoMod
               /\ res % SeqnoMod = r
               /\ res < SeqnoMod => res = r
               /\ \/ res + SeqnoMod < AbsMod /\ up = res + SeqnoMod
                  \/ res + SeqnoMod >= AbsMod /\ up = r /\ up <= res
  <1> DEFINE qc  == c \div SeqnoMod
             rc  == c % SeqnoMod
             K   == AbsMod \div SeqnoMod
             res == (c - rc) + r
             up  == (res + SeqnoMod) % AbsMod
  <1>1. SeqnoMod \in Nat \ {0} /\ AbsMod \in Nat \ {0} /\ AbsMod % SeqnoMod = 0
    BY SeqnoModAssumption, AbsModAssumption
  <1>2. c \in Nat /\ c < AbsMod  BY <1>1 DEF AbsSeqno
  <1>3. qc \in Int /\ rc \in 0 .. SeqnoMod - 1 /\ c = SeqnoMod * qc + rc
    BY <1>1, <1>2, DivMod
  <1>4. K \in Int /\ AbsMod = SeqnoMod * K
    <2>1. K \in Int /\ AbsMod = SeqnoMod * K + (AbsMod % SeqnoMod)  BY <1>1, DivMod
    <2> QED  BY <2>1, <1>1
  <1> HIDE DEF qc, rc, K
  <1>5. qc >= 0
    <2>1. CASE qc <= -1
      <3>1. SeqnoMod * qc <= -SeqnoMod  BY <2>1, <1>1, <1>3
      <3> QED  BY <3>1, <1>1, <1>2, <1>3
    <2> QED  BY <2>1, <1>3
  <1>6. qc <= K - 1
    <2>1. CASE qc >= K
      <3>1. SeqnoMod * qc >= SeqnoMod * K  BY <2>1, <1>1, <1>3, <1>4
      <3> QED  BY <3>1, <1>1, <1>2, <1>3, <1>4
    <2> QED  BY <2>1, <1>3, <1>4
  <1>7. SeqnoMod * qc >= 0 /\ SeqnoMod * qc \in Int  BY <1>5, <1>1, <1>3
  <1>8. SeqnoMod * qc <= AbsMod - SeqnoMod
    <2>1. SeqnoMod * qc <= SeqnoMod * (K - 1)  BY <1>6, <1>1, <1>3, <1>4
    <2>2. SeqnoMod * (K - 1) = SeqnoMod * K - SeqnoMod  BY <1>1, <1>4
    <2> QED  BY <2>1, <2>2, <1>1, <1>4, <1>7
  <1>9. res = SeqnoMod * qc + r  BY <1>1, <1>2, <1>3, <1>7
  <1>10. res % SeqnoMod = r  BY <1>9, <1>1, <1>3, ModUnique
  <1>12. res \in Nat /\ res < AbsMod  BY <1>9, <1>7, <1>8, <1>1
  <1>13. res < SeqnoMod => res = r
    <2> SUFFICES ASSUME res < SeqnoMod PROVE res = r  OBVIOUS
    <2>1. SeqnoMod * qc < SeqnoMod  BY <1>9, <1>7, <1>1
    <2>2. qc = 0  BY <2>1, <1>7, <1>1, <1>3, SmallMultiple
    <2> QED  BY <2>2, <1>9, <1>1
  <1>14. CASE res + SeqnoMod < AbsMod
    <2>1. up = res + SeqnoMod  BY <1>14, <1>12, <1>1
    <2> QED  BY <2>1, <1>14, <1>3, <1>2, <1>1, <1>10, <1>12, <1>13 DEF AbsSeqno, qc, rc
  <1>15. CASE res + SeqnoMod >= AbsMod
    <2>1. qc = K - 1
      <3>1. CASE qc <= K - 2
        <4>1. SeqnoMod * qc <= SeqnoMod * (K - 2)  BY <3>1, <1>1, <1>3, <1>4
        <4>2. SeqnoMod * (K - 2) = SeqnoMod * K - 2 * SeqnoMod  BY <1>1, <1>4
        <4> QED  BY <4>1, <4>2, <1>15, <1>9, <1>7, <1>1, <1>4
      <3> QED  BY <3>1, <1>6, <1>3, <1>4
    <2>2. SeqnoMod * qc = AbsMod - SeqnoMod
      <3>1. SeqnoMod * (K - 1) = SeqnoMod * K - SeqnoMod  BY <1>1, <1>4
      <3> QED  BY <3>1, <2>1, <1>4
    <2>3. res + SeqnoMod = AbsMod * 1 + r  BY <2>2, <1>9, <1>1
    <2>4. r \in 0 .. AbsMod - 1  BY <1>8, <1>7, <1>1
    <2>5. up = r  BY <2>3, <2>4, <1>1, ModUnique
    <2>6. r <= res  BY <1>9, <1>7
    <2> QED  BY <2>5, <2>6, <1>15, <1>3, <1>2, <1>1, <1>10, <1>12, <1>13 DEF AbsSeqno, qc, rc
  <1> QED  BY <1>12, <1>1, <1>14, <1>15

\* Numbers with the same remainder are whole turns apart.
LEMMA SameRemainder ==
    ASSUME NEW x \in Nat, NEW y \in Nat, x % SeqnoMod = y % SeqnoMod
    PROVE  x = y \/ x >= y + SeqnoMod \/ x <= y - SeqnoMod
  <1> DEFINE qx == x \div SeqnoMod
             qy == y \div SeqnoMod
             d  == qx - qy
  <1>1. SeqnoMod \in Nat \ {0}  BY SeqnoModAssumption
  <1>2. /\ qx \in Int /\ x = SeqnoMod * qx + (x % SeqnoMod) /\ x % SeqnoMod \in Int
        /\ qy \in Int /\ y = SeqnoMod * qy + (y % SeqnoMod)
    BY <1>1, DivMod
  <1> HIDE DEF qx, qy
  <1>3. d \in Int /\ SeqnoMod * d = SeqnoMod * qx - SeqnoMod * qy  BY <1>1, <1>2
  <1>4. x = y + SeqnoMod * d  BY <1>1, <1>2, <1>3
  <1> HIDE DEF d
  <1>5. CASE d = 0   BY <1>5, <1>4, <1>1
  <1>6. CASE d >= 1
    <2>1. SeqnoMod * d >= SeqnoMod  BY <1>6, <1>3, <1>1
    <2> QED  BY <2>1, <1>4, <1>3, <1>1
  <1>7. CASE d <= -1
    <2>1. SeqnoMod * d <= -SeqnoMod  BY <1>7, <1>3, <1>1
    <2> QED  BY <2>1, <1>4, <1>3, <1>1
  <1> QED  BY <1>3, <1>5, <1>6, <1>7

(***************************************************************************)
(* wrapping_integers.hh:30 "the absolute sequence number that wraps to `n` *)
(* and is closest to `checkpoint`": unwrap returns that number for every   *)
(* width of the raw and the absolute numbers, every initial number and     *)
(* every checkpoint, the first and the last turn included.                 *)
(***************************************************************************)
THEOREM UnwrapReturnsClosest ==
    ASSUME NEW n0 \in RawSeqno, NEW isn0 \in RawSeqno, NEW c \in AbsSeqno
    PROVE  IsClosest(unwrap(n0, isn0, c), n0, isn0, c)
  <1> DEFINE r   == Offset(n0, isn0)
             res == (c - (c % SeqnoMod)) + r
             up  == (res + SeqnoMod) % AbsMod
             u   == unwrap(n0, isn0, c)
  <1>1. SeqnoMod \in Nat \ {0} /\ AbsMod \in Nat \ {0}
    BY SeqnoModAssumption, AbsModAssumption
  <1>2. HalfSeq \in Nat /\ SeqnoMod = 2 * HalfSeq
    BY SeqnoModAssumption DEF HalfSeq
  <1>3. c \in Nat  BY <1>1 DEF AbsSeqno
  <1>4. r \in 0 .. SeqnoMod - 1
    <2>1. n0 - isn0 \in Int  BY <1>1 DEF RawSeqno
    <2> QED  BY <2>1, <1>1, DivMod, OffsetIsRemainder
  <1>5. u = IF res <= c
            THEN IF c - res <= HalfSeq
                 THEN res
                 ELSE IF res > up THEN res ELSE up
            ELSE IF res - c <= HalfSeq \/ res < SeqnoMod
                 THEN res
                 ELSE res - SeqnoMod
    BY DEF unwrap
  <1> HIDE DEF r
  <1>6. /\ res \in AbsSeqno
        /\ c - res < SeqnoMod /\ res - c < SeqnoMod
        /\ res % SeqnoMod = r
        /\ res < SeqnoMod => res = r
        /\ \/ res + SeqnoMod < AbsMod /\ up = res + SeqnoMod
           \/ res + SeqnoMod >= AbsMod /\ up = r /\ up <= res
    BY <1>4, TurnOf
  <1> HIDE DEF res, up, u
  <1>7. res \in Nat /\ res < AbsMod  BY <1>6, <1>1 DEF AbsSeqno
  <1>8. \/ u = res
        \/ u = res + SeqnoMod /\ res + SeqnoMod < AbsMod /\ res <= c /\ c - res > HalfSeq
        \/ u = res - SeqnoMod /\ res >= SeqnoMod /\ res > c /\ res - c > HalfSeq
    <2>1. up \in Int  BY <1>4, <1>6, <1>7, <1>1
    <2>2. CASE res <= c /\ c - res <= HalfSeq  BY <2>2, <1>5
    <2>3. CASE res <= c /\ ~(c - res <= HalfSeq)
      <3>1. u = IF res > up THEN res ELSE up  BY <2>3, <1>5
      <3>2. u = res \/ (u = up /\ res <= up)  BY <3>1, <2>1, <1>7
      <3> QED  BY <3>2, <2>1, <2>3, <1>1, <1>2, <1>3, <1>6, <1>7
    <2>4. CASE ~(res <= c) /\ (res - c <= HalfSeq \/ res < SeqnoMod)  BY <2>4, <1>5
    <2>5. CASE ~(res <= c) /\ ~(res - c <= HalfSeq \/ res < SeqnoMod)
      <3>1. u = res - SeqnoMod  BY <2>5, <1>5
      <3> QED  BY <3>1, <2>5, <1>1, <1>2, <1>3, <1>7
    <2> QED  BY <2>2, <2>3, <2>4, <2>5
  <1>9. u \in Nat /\ u < AbsMod  BY <1>8, <1>7, <1>1
  <1>10. u % SeqnoMod = r
    <2> DEFINE q == res \div SeqnoMod
    <2>1. q \in Int /\ res = SeqnoMod * q + r  BY <1>6, <1>7, <1>1, DivMod
    <2> HIDE DEF q
    <2>2. CASE u = res  BY <2>2, <1>6
    <2>3. CASE u = res + SeqnoMod
      <3>1. SeqnoMod * (q + 1) = SeqnoMod * q + SeqnoMod  BY <2>1, <1>1
      <3>2. u = SeqnoMod * (q + 1) + r /\ q + 1 \in Int  BY <3>1, <2>1, <2>3, <1>1, <1>4, <1>7
      <3> QED  BY <3>2, <1>1, <1>4, ModUnique, Zenon
    <2>4. CASE u = res - SeqnoMod
      <3>1. SeqnoMod * (q - 1) = SeqnoMod * q - SeqnoMod  BY <2>1, <1>1
      <3>2. u = SeqnoMod * (q - 1) + r /\ q - 1 \in Int  BY <3>1, <2>1, <2>4, <1>1, <1>4, <1>7
      <3> QED  BY <3>2, <1>1, <1>4, ModUnique, Zenon
    <2> QED  BY <2>2, <2>3, <2>4, <1>8
  <1>11. wrap(u, isn0) = n0  BY <1>9, <1>10, WrapsTo DEF r
  <1>12. ASSUME NEW x \in AbsSeqno, wrap(x, isn0) = n0
         PROVE  Distance(u, c) <= Distance(x, c)
    <2>1. x \in Nat /\ x < AbsMod  BY <1>1 DEF AbsSeqno
    <2>2. x % SeqnoMod = res % SeqnoMod  BY <2>1, <1>12, <1>6, WrapsTo DEF r
    <2>3. x = res \/ x >= res + SeqnoMod \/ x <= res - SeqnoMod
      BY <2>1, <2>2, <1>7, SameRemainder
    <2>4. CASE u = res + SeqnoMod /\ res <= c /\ c - res > HalfSeq
      BY <2>1, <2>3, <2>4, <1>1, <1>2, <1>3, <1>6, <1>7 DEF Distance
    <2>5. CASE u = res - SeqnoMod /\ res > c /\ res - c > HalfSeq
      BY <2>1, <2>3, <2>5, <1>1, <1>2, <1>3, <1>6, <1>7 DEF Distance
    <2>6. CASE u = res /\ res <= c
      <3>1. CASE c - res <= HalfSeq
        BY <3>1, <2>1, <2>3, <2>6, <1>1, <1>2, <1>3, <1>7 DEF Distance
      <3>2. CASE c - res > HalfSeq
        <4>1. res >= up
          <5>1. ~(c - res <= HalfSeq) /\ up \in Int  BY <3>2, <1>2, <1>3, <1>4, <1>6, <1>7, <1>1
          <5>2. u = IF res > up THEN res ELSE up  BY <5>1, <2>6, <1>5
          <5> QED  BY <5>1, <5>2, <2>6, <1>7
        <4>2. ~(x >= res + SeqnoMod)  BY <4>1, <2>1, <1>6, <1>7, <1>1
        <4> QED  BY <4>2, <2>1, <2>3, <2>6, <1>1, <1>3, <1>7 DEF Distance
      <3> QED  BY <3>1, <3>2, <1>2, <1>3, <1>7
    <2>7. CASE u = res /\ res > c
      <3>1. CASE res - c <= HalfSeq
        BY <3>1, <2>1, <2>3, <2>7, <1>1, <1>2, <1>3, <1>7 DEF Distance
      <3>2. CASE res - c > HalfSeq
        <4>1. res < SeqnoMod
          <5>1. ~(res <= c) /\ ~(res - c <= HalfSeq)  BY <3>2, <2>7, <1>2, <1>3, <1>7
          <5>2. CASE ~(res < SeqnoMod)
            <6>1. u = res - SeqnoMod  BY <5>1, <5>2, <1>5
            <6> QED  BY <6>1, <2>7, <1>1, <1>7
          <5> QED  BY <5>2
        <4> QED  BY <4>1, <2>1, <2>3, <2>7, <1>1, <1>3, <1>7 DEF Distance
      <3> QED  BY <3>1, <3>2, <1>2, <1>3, <1>7
    <2> QED  BY <2>4, <2>5, <2>6, <2>7, <1>8, <1>3, <1>7
  <1>13. u \in AbsSeqno  BY <1>9, <1>1 DEF AbsSeqno
  <1> QED  BY <1>11, <1>12, <1>13 DEF IsClosest, u

(***************************************************************************)
(* tcp_receiver.cc:30, tcp_sender.cc:84,96 unwrap what the peer wrapped:   *)
(* an absolute number survives the trip over the wire, for every width and *)
(* every initial number, whenever the checkpoint of the receiving side is  *)
(* less than half a turn away.                                             *)
(***************************************************************************)
THEOREM RoundTrip ==
    ASSUME NEW x \in AbsSeqno, NEW c \in AbsSeqno, NEW isn0 \in RawSeqno,
           Distance(x, c) < HalfSeq
    PROVE  unwrap(wrap(x, isn0), isn0, c) = x
  <1> DEFINE n0 == wrap(x, isn0)
             u  == unwrap(n0, isn0, c)
  <1>1. SeqnoMod \in Nat \ {0} /\ AbsMod \in Nat \ {0} /\ x \in Nat /\ c \in Nat
    BY SeqnoModAssumption, AbsModAssumption DEF AbsSeqno
  <1>2. HalfSeq \in Nat /\ SeqnoMod = 2 * HalfSeq
    BY SeqnoModAssumption DEF HalfSeq
  <1>3. n0 \in RawSeqno /\ Offset(n0, isn0) = x % SeqnoMod
    BY <1>1, OffsetOfWrap
  <1>4. IsClosest(u, n0, isn0, c)  BY <1>3, UnwrapReturnsClosest
  <1> HIDE DEF n0, u
  <1>5. u \in Nat /\ wrap(u, isn0) = n0  BY <1>4, <1>1 DEF IsClosest, AbsSeqno
  <1>6. Distance(u, c) <= Distance(x, c)  BY <1>4 DEF IsClosest, n0
  <1>7. u % SeqnoMod = x % SeqnoMod  BY <1>5, <1>3, WrapsTo
  <1>8. u = x \/ u >= x + SeqnoMod \/ u <= x - SeqnoMod
    BY <1>1, <1>5, <1>7, SameRemainder
  <1>9. u = x  BY <1>1, <1>2, <1>5, <1>6, <1>8 DEF Distance
  <1> QED  BY <1>9 DEF u, n0

-----------------------------------------------------------------------------
\* The operations of a ByteStream.

StreamType(Byte) ==
    [str : Seq(Byte), capacity : Nat, cur_cap : Nat, bytes_read : Nat,
     bytes_written : Nat, input_is_end : BOOLEAN, error : BOOLEAN]

\* The consistent streams over the bytes of Byte: the counters agree with the
\* buffer, and the buffer is within the capacity.
StreamOK(b, Byte) ==
    /\ b \in StreamType(Byte)
    /\ b.capacity < SizeMod
    /\ b.cur_cap = Len(b.str)
    /\ b.cur_cap <= b.capacity
    /\ b.bytes_written = b.bytes_read + b.cur_cap

LEMMA NewStreamOK ==
    ASSUME NEW Byte, NEW capacity \in Nat, capacity < SizeMod
    PROVE  StreamOK(NewByteStream(capacity), Byte)
  BY DEF StreamOK, StreamType, NewByteStream

LEMMA RemainingCapacity ==
    ASSUME NEW Byte, NEW b, StreamOK(b, Byte)
    PROVE  ByteStream_remaining_capacity(b) = b.capacity - b.cur_cap
  BY SizeModAssumption DEF StreamOK, StreamType, ByteStream_remaining_capacity, SizeT

\* A prefix taken by substr.
LEMMA SubstrPrefix ==
    ASSUME NEW Byte, NEW t \in Seq(Byte), NEW n \in Nat, n <= Len(t)
    PROVE  /\ Substr(t, 0, n) \in Seq(Byte)
           /\ Len(Substr(t, 0, n)) = n
           /\ \A i \in 1 .. n : Substr(t, 0, n)[i] = t[i]
  BY DEF Substr, MinOf

\* A suffix taken by substr.
LEMMA SubstrSuffix ==
    ASSUME NEW Byte, NEW t \in Seq(Byte), NEW n \in Nat, n <= Len(t), NEW k \in Nat,
           n + k >= Len(t)
    PROVE  /\ Substr(t, n, k) \in Seq(Byte)
           /\ Len(Substr(t, n, k)) = Len(t) - n
           /\ \A i \in 1 .. Len(t) - n : Substr(t, n, k)[i] = t[n + i]
  BY SMTT(30) DEF Substr, MinOf

\* The stream b with another buffer and other counters.
StreamWith(b, t, cap, rd, wr) ==
    [b EXCEPT !.str = t, !.cur_cap = cap, !.bytes_read = rd, !.bytes_written = wr]

\* write appends the bytes that fit and moves the counters with the buffer.
LEMMA WriteOK ==
    ASSUME NEW Byte, NEW b, StreamOK(b, Byte), NEW data \in Seq(Byte)
    PROVE  LET c == ByteStream_write(b, data)
               n == ByteStream_accepted(b, data)
           IN  /\ n \in 0 .. Len(data)
               /\ Len(data) <= b.capacity - b.cur_cap => n = Len(data)
               /\ StreamOK(c, Byte)
               /\ c.bytes_written = b.bytes_written + n
               /\ c.bytes_read = b.bytes_read
               /\ c.capacity = b.capacity
               /\ c.input_is_end = b.input_is_end
               /\ c.str = b.str \o Substr(data, 0, n)
               /\ c.cur_cap = b.cur_cap + n
  <1> DEFINE n == ByteStream_accepted(b, data)
             p == Substr(data, 0, n)
             c == ByteStream_write(b, data)
  <1>0. b \in StreamType(Byte) /\ b.str \in Seq(Byte) /\ b.cur_cap = Len(b.str)
        /\ b.capacity \in Nat /\ b.cur_cap \in Nat /\ b.cur_cap <= b.capacity
        /\ b.bytes_read \in Nat /\ b.bytes_written = b.bytes_read + b.cur_cap
    BY DEF StreamOK, StreamType
  <1>1. n \in Nat /\ n <= Len(data) /\ n <= b.capacity - b.cur_cap
        /\ (Len(data) <= b.capacity - b.cur_cap => n = Len(data))
    BY <1>0, RemainingCapacity DEF ByteStream_accepted, MinOf
  <1>3. c = StreamWith(b, b.str \o p, b.cur_cap + n, b.bytes_read, b.bytes_written + n)
    BY <1>0, Zenon DEF ByteStream_write, StreamType, StreamWith
  <1> HIDE DEF n, c
  <1>2. p \in Seq(Byte) /\ Len(p) = n
    BY <1>1, SubstrPrefix
  <1> HIDE DEF p
  <1>4. b.str \o p \in Seq(Byte) /\ b.cur_cap + n = Len(b.str \o p)
    <2>1. b.str \in Seq(Byte) /\ p \in Seq(Byte)  BY <1>0, <1>2
    <2>2. b.str \o p \in Seq(Byte) /\ Len(b.str \o p) = Len(b.str) + Len(p)
      BY ONLY <2>1, ConcatProperties, Zenon
    <2>3. b.cur_cap + n = Len(b.str) + Len(p)  BY <1>0, <1>1, <1>2
    <2> QED  BY ONLY <2>2, <2>3
  <1> DEFINE t   == b.str \o p
             cap == b.cur_cap + n
             wr  == b.bytes_written + n
  <1>5. t \in Seq(Byte) /\ cap = Len(t)  BY <1>4
  <1>6. cap \in Nat /\ wr \in Nat /\ cap <= b.capacity /\ wr = b.bytes_read + cap
        /\ b.bytes_read \in Nat
    BY ONLY <1>0, <1>1, SMTT(30) DEF cap, wr
  <1>7. c = StreamWith(b, t, cap, b.bytes_read, wr)  BY <1>3
  <1> HIDE DEF t, cap, wr
  <1>8. /\ StreamOK(c, Byte) /\ c.str = t /\ c.cur_cap = cap
        /\ c.bytes_read = b.bytes_read /\ c.bytes_written = wr
        /\ c.capacity = b.capacity /\ c.input_is_end = b.input_is_end
    BY <1>5, <1>6, <1>7, Zenon DEF StreamOK, StreamType, StreamWith
  <1> QED  BY <1>1, <1>8 DEF n, p, c, t, cap, wr

\* read takes a prefix of the buffer.
LEMMA ReadOK ==
    ASSUME NEW Byte, NEW b, StreamOK(b, Byte), NEW len \in Nat
    PROVE  LET got == ByteStream_read(b, len)
               n   == MinOf(len, b.cur_cap)
           IN  /\ n \in 0 .. b.cur_cap
               /\ got.data \in Seq(Byte)
               /\ Len(got.data) = n
               /\ \A i \in 1 .. n : got.data[i] = b.str[i]
               /\ StreamOK(got.stream, Byte)
               /\ got.stream.bytes_read = b.bytes_read + n
               /\ got.stream.bytes_written = b.bytes_written
               /\ got.stream.capacity = b.capacity
               /\ got.stream.input_is_end = b.input_is_end
               /\ got.stream.cur_cap = b.cur_cap - n
               /\ Len(got.stream.str) = b.cur_cap - n
               /\ \A i \in 1 .. b.cur_cap - n : got.stream.str[i] = b.str[n + i]
  <1> DEFINE n == MinOf(len, b.cur_cap)
             p == Substr(b.str, 0, n)
             k == b.cur_cap - n
             q == Substr(b.str, n, k)
             c == ByteStream_pop_output(b, len)
  <1>0. b \in StreamType(Byte) /\ b.str \in Seq(Byte) /\ b.cur_cap = Len(b.str)
        /\ b.capacity \in Nat /\ b.cur_cap \in Nat /\ b.cur_cap <= b.capacity
        /\ b.bytes_read \in Nat /\ b.bytes_written = b.bytes_read + b.cur_cap
    BY DEF StreamOK, StreamType
  <1>1. n \in 0 .. b.cur_cap  BY <1>0 DEF MinOf
  <1>2. ByteStream_read(b, len).data = p /\ ByteStream_read(b, len).stream = c
    BY DEF ByteStream_read, ByteStream_peek_output, ByteStream_buffer_size
  <1>3. c = StreamWith(b, q, k, b.bytes_read + n, b.bytes_written)
    BY <1>0, Zenon DEF ByteStream_pop_output, ByteStream_buffer_size, StreamType, StreamWith
  <1> HIDE DEF n, c
  <1>4. n \in Nat /\ n <= Len(b.str) /\ k \in Nat /\ n + k = Len(b.str) /\ n + k >= Len(b.str)
    BY <1>0, <1>1
  <1>5. p \in Seq(Byte) /\ Len(p) = n /\ \A i \in 1 .. n : p[i] = b.str[i]
    BY <1>0, <1>4, SubstrPrefix
  <1>6. q \in Seq(Byte) /\ Len(q) = k /\ \A i \in 1 .. k : q[i] = b.str[n + i]
    <2>1. k = Len(b.str) - n  BY <1>0
    <2> HIDE DEF k
    <2>2. /\ b.str \in Seq(Byte) /\ n \in Nat /\ n <= Len(b.str) /\ k \in Nat
          /\ n + k >= Len(b.str)
      BY <1>0, <1>4
    <2>3. /\ q \in Seq(Byte) /\ Len(q) = Len(b.str) - n
          /\ \A i \in 1 .. Len(b.str) - n : q[i] = b.str[n + i]
      BY ONLY <2>2, SubstrSuffix, ZenonT(60)
    <2> QED  BY ONLY <2>1, <2>3
  <1>7. b.bytes_read + n \in Nat /\ b.bytes_written \in Nat /\ k <= b.capacity
        /\ b.bytes_written = (b.bytes_read + n) + k
    <2>1. /\ b.bytes_read \in Nat /\ b.capacity \in Nat /\ b.cur_cap \in Nat
          /\ b.bytes_written = b.bytes_read + b.cur_cap /\ b.cur_cap <= b.capacity
      BY <1>0
    <2> QED  BY ONLY <2>1, <1>1
  <1> DEFINE br == b.bytes_read + n
             bw == b.bytes_written
  <1> HIDE DEF p, q, k
  <1>8. /\ StreamOK(c, Byte) /\ c.bytes_read = b.bytes_read + n
        /\ c.bytes_written = b.bytes_written /\ c.capacity = b.capacity
        /\ c.input_is_end = b.input_is_end /\ c.cur_cap = k /\ c.str = q
    <2>1. br \in Nat /\ bw \in Nat /\ k <= b.capacity /\ bw = br + k  BY <1>7
    <2>2. c = StreamWith(b, q, k, br, bw)  BY <1>3
    <2>3. c.bytes_read = br /\ c.bytes_written = bw => /\ c.bytes_read = b.bytes_read + n
                                                      /\ c.bytes_written = b.bytes_written
      OBVIOUS
    <2> HIDE DEF br, bw
    <2>4. k \in Nat /\ q \in Seq(Byte) /\ k = Len(q)  BY <1>4, <1>6
    <2> DEFINE d == StreamWith(b, q, k, br, bw)
    <2>5. /\ StreamOK(d, Byte) /\ d.bytes_read = br /\ d.bytes_written = bw
          /\ d.capacity = b.capacity /\ d.input_is_end = b.input_is_end
          /\ d.cur_cap = k /\ d.str = q
      BY <2>1, <2>4, Zenon DEF StreamOK, StreamType, StreamWith
    <2> QED  BY ONLY <2>2, <2>3, <2>5
  <1> QED  BY <1>1, <1>2, <1>5, <1>6, <1>8 DEF n, k

LEMMA EndInputOK ==
    ASSUME NEW Byte, NEW b, StreamOK(b, Byte)
    PROVE  LET c == ByteStream_end_input(b)
           IN  /\ StreamOK(c, Byte)
               /\ c.bytes_written = b.bytes_written /\ c.bytes_read = b.bytes_read
               /\ c.cur_cap = b.cur_cap /\ c.str = b.str
  <1> DEFINE c == ByteStream_end_input(b)
  <1>1. b \in StreamType(Byte)  BY DEF StreamOK
  <1>2. c \in StreamType(Byte)  BY <1>1, Zenon DEF ByteStream_end_input, StreamType
  <1>3. /\ c.bytes_written = b.bytes_written /\ c.bytes_read = b.bytes_read
        /\ c.cur_cap = b.cur_cap /\ c.str = b.str /\ c.capacity = b.capacity
    BY <1>1 DEF ByteStream_end_input, StreamType
  <1> HIDE DEF c
  <1>4. StreamOK(c, Byte)  BY <1>2, <1>3, Zenon DEF StreamOK
  <1> QED  BY <1>3, <1>4 DEF c

-----------------------------------------------------------------------------
\* Pieces of a stream in which a byte is its index.

\* A leaf is for SMT unless it names another prover.
USE SMTT(30)

\* Bytes i .. j-1 of the stream are a string of their number.
LEMMA BytesType ==
    ASSUME NEW i \in Nat, NEW j \in Nat, i <= j
    PROVE  /\ Bytes(i, j) \in Seq(Nat)
           /\ Len(Bytes(i, j)) = j - i
           /\ \A k \in 1 .. j - i : Bytes(i, j)[k] = i + k - 1
  BY DEF Bytes

LEMMA BytesUnique ==
    ASSUME NEW i \in Nat, NEW j \in Nat, i <= j, NEW t \in Seq(Nat),
           Len(t) = j - i, \A k \in 1 .. j - i : t[k] = i + k - 1
    PROVE  t = Bytes(i, j)
  <1> DEFINE b == Bytes(i, j)
  <1>1. b \in Seq(Nat) /\ Len(b) = j - i /\ \A k \in 1 .. j - i : b[k] = i + k - 1
    BY BytesType, Zenon
  <1> HIDE DEF b
  <1>2. Len(t) = Len(b) /\ \A k \in 1 .. Len(t) : t[k] = b[k]  BY <1>1
  <1>3. t = b  BY <1>1, <1>2, SeqEqual
  <1> QED  BY <1>3 DEF b

\* Adjoining pieces make one piece.
LEMMA BytesConcat ==
    ASSUME NEW i \in Nat, NEW j \in Nat, NEW k \in Nat, i <= j, j <= k
    PROVE  Bytes(i, j) \o Bytes(j, k) = Bytes(i, k)
  <1> DEFINE a == Bytes(i, j)
             b == Bytes(j, k)
             t == a \o b
  <1>1. /\ a \in Seq(Nat) /\ Len(a) = j - i /\ \A x \in 1 .. j - i : a[x] = i + x - 1
        /\ b \in Seq(Nat) /\ Len(b) = k - j /\ \A x \in 1 .. k - j : b[x] = j + x - 1
    BY BytesType, Zenon
  <1> HIDE DEF a, b
  <1>2. /\ t \in Seq(Nat) /\ Len(t) = Len(a) + Len(b)
        /\ \A x \in 1 .. Len(a) + Len(b) : t[x] = IF x <= Len(a) THEN a[x] ELSE b[x - Len(a)]
    BY <1>1, ConcatProperties, Zenon
  <1> HIDE DEF t
  <1>3. Len(t) = k - i  BY <1>1, <1>2
  <1>5. ASSUME NEW x \in 1 .. k - i  PROVE t[x] = i + x - 1
    <2>1. CASE x <= j - i
      <3>1. t[x] = a[x]  BY <2>1, <1>1, <1>2
      <3> QED  BY <3>1, <2>1, <1>1
    <2>2. CASE x > j - i
      <3>1. t[x] = b[x - (j - i)]  BY <2>2, <1>1, <1>2
      <3>2. x - (j - i) \in 1 .. k - j  BY <2>2
      <3> QED  BY <3>1, <3>2, <1>1
    <2> QED  BY <2>1, <2>2
  <1>4. t = Bytes(i, k)  BY <1>2, <1>3, <1>5, BytesUnique
  <1> QED  BY <1>4 DEF t, a, b

LEMMA BytesPrefix ==
    ASSUME NEW i \in Nat, NEW j \in Nat, i <= j, NEW n \in Nat, n <= j - i
    PROVE  Substr(Bytes(i, j), 0, n) = Bytes(i, i + n)
  <1> DEFINE a == Bytes(i, j)
             t == Substr(a, 0, n)
  <1>1. a \in Seq(Nat) /\ Len(a) = j - i /\ \A x \in 1 .. j - i : a[x] = i + x - 1
    BY BytesType
  <1> HIDE DEF a
  <1>2. t \in Seq(Nat) /\ Len(t) = n /\ \A x \in 1 .. n : t[x] = a[x]
    BY <1>1, SubstrPrefix, Zenon
  <1> HIDE DEF t
  <1>3. ASSUME NEW e \in Nat, e = i + n  PROVE t = Bytes(i, e)
    <2>1. i <= e /\ e - i = n  BY <1>3
    <2>2. ASSUME NEW x \in 1 .. n  PROVE t[x] = i + x - 1
      <3>1. x \in 1 .. j - i  OBVIOUS
      <3> QED  BY <3>1, <1>1, <1>2, Zenon
    <2> QED  BY <2>1, <2>2, <1>2, BytesUnique, Zenon
  <1>4. t = Bytes(i, i + n)  BY <1>3
  <1> QED  BY <1>4 DEF t, a

LEMMA BytesSuffix ==
    ASSUME NEW i \in Nat, NEW j \in Nat, i <= j, NEW n \in Nat, n <= j - i,
           NEW k \in Nat, n + k >= j - i
    PROVE  Substr(Bytes(i, j), n, k) = Bytes(i + n, j)
  <1> DEFINE a == Bytes(i, j)
             t == Substr(a, n, k)
  <1>1. a \in Seq(Nat) /\ Len(a) = j - i /\ \A x \in 1 .. j - i : a[x] = i + x - 1
    BY BytesType
  <1> HIDE DEF a
  <1>2. t \in Seq(Nat) /\ Len(t) = Len(a) - n /\ \A x \in 1 .. Len(a) - n : t[x] = a[n + x]
    <2>1. /\ a \in Seq(Nat) /\ n \in Nat /\ k \in Nat
          /\ n <= Len(a) /\ n + k >= Len(a)
      BY <1>1
    <2> QED  BY ONLY <2>1, SubstrSuffix, ZenonT(60)
  <1> HIDE DEF t
  <1>3. ASSUME NEW e \in Nat, e = i + n  PROVE t = Bytes(e, j)
    <2>1. e <= j /\ Len(t) = j - e /\ \A x \in 1 .. j - e : t[x] = e + x - 1
      BY <1>1, <1>2, <1>3
    <2> QED  BY <2>1, <1>2, BytesUnique
  <1>4. t = Bytes(i + n, j)  BY <1>3
  <1> QED  BY <1>4 DEF t, a
=============================================================================
