-------------------------- MODULE WrappingIntegers --------------------------
(***************************************************************************)
(* libsponge/wrapping_integers.{hh,cc}: 32-bit sequence numbers relative   *)
(* to an initial sequence number, and their conversion to and from 64-bit  *)
(* absolute sequence numbers.                                              *)
(*                                                                         *)
(* The two widths are parameters: SeqnoMod stands for 2^32 and AbsMod for  *)
(* 2^64.  A WrappingInt32 is its raw value, a member of RawSeqno.          *)
(***************************************************************************)
EXTENDS Integers

CONSTANTS
    SeqnoMod,  \* number of raw sequence numbers, 2^32 in the code
    AbsMod     \* number of absolute sequence numbers, 2^64 in the code

(***************************************************************************)
(* The modulus is even (half of it separates "before" from "after") and    *)
(* the absolute numbers are a whole number of turns of the raw ones.       *)
(***************************************************************************)
ASSUME SeqnoModAssumption ==
    /\ SeqnoMod \in Nat \ {0}
    /\ SeqnoMod % 2 = 0

ASSUME AbsModAssumption ==
    /\ AbsMod \in Nat \ {0}
    /\ AbsMod % SeqnoMod = 0

RawSeqno == 0 .. SeqnoMod - 1
AbsSeqno == 0 .. AbsMod - 1

\* (mask + 1) >> 1
HalfSeq == SeqnoMod \div 2

\* a + b on the raw values
SeqPlus(a, b) == (a + b) % SeqnoMod

\* a - b with b an integer: a + -b
SeqMinus(a, b) == (a - b) % SeqnoMod

\* a - b with b a sequence number: the unsigned difference read as an int32_t
SeqDiff(a, b) ==
    LET d == (a - b) % SeqnoMod
    IN  IF d < HalfSeq THEN d ELSE d - SeqnoMod

\* The absolute number n as a raw one.
wrap(n, isn) == ((n % SeqnoMod) + isn) % SeqnoMod

\* The distance from isn up to n; both branches are taken on unsigned values.
Offset(n, isn) ==
    IF SeqDiff(n, isn) < 0
    THEN (SeqnoMod - 1) - ((isn - n - 1) % SeqnoMod)
    ELSE (n - isn) % SeqnoMod

\* Mutant: never moves a turn down, so a late number lands a turn ahead.
unwrap_NeverDown(n, isn, checkpoint) ==
    LET res == (checkpoint - (checkpoint % SeqnoMod)) + Offset(n, isn)
        up  == (res + SeqnoMod) % AbsMod
    IN  IF res <= checkpoint /\ checkpoint - res > HalfSeq /\ res <= up THEN up ELSE res

\* The absolute number that wraps to n in the turn of the checkpoint, moved
\* one turn up or down when that is closer.  A move up past the last absolute
\* number overflows and is undone by the max().
unwrap(n, isn, checkpoint) ==
    LET res == (checkpoint - (checkpoint % SeqnoMod)) + Offset(n, isn)
        up  == (res + SeqnoMod) % AbsMod
    IN  IF res <= checkpoint
        THEN IF checkpoint - res <= HalfSeq
             THEN res
             ELSE IF res > up THEN res ELSE up
        ELSE IF res - checkpoint <= HalfSeq \/ res < SeqnoMod
             THEN res
             ELSE res - SeqnoMod

\* How far apart two absolute numbers are; used in properties only.
Distance(a, b) == IF a >= b THEN a - b ELSE b - a

\* u is an absolute number that wraps to n, and none is closer to checkpoint;
\* used in properties only.
IsClosest(u, n, isn, checkpoint) ==
    /\ u \in AbsSeqno
    /\ wrap(u, isn) = n
    /\ \A x \in AbsSeqno :
           wrap(x, isn) = n => Distance(u, checkpoint) <= Distance(x, checkpoint)
=============================================================================
