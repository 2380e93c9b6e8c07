------------------------------- MODULE Lists --------------------------------
(***************************************************************************)
(* The operations on a std::list, and the loop over one, that the          *)
(* components with proofs use.  SequencesExt has them as well, but also    *)
(* brings in Bags, with which every step of a proof takes several times as *)
(* long.                                                                   *)
(***************************************************************************)
EXTENDS Integers, Sequences

Has(list, e) == \E i \in 1 .. Len(list) : list[i] = e

\* e becomes the element at place i.
Inserted(list, i, e) == SubSeq(list, 1, i - 1) \o <<e>> \o SubSeq(list, i, Len(list))

Erased(list, i) == SubSeq(list, 1, i - 1) \o SubSeq(list, i + 1, Len(list))

\* The value v after `for (e : list) v = op(v, e)`, with v = base at first.
ForEach(op(_, _), base, list) ==
    LET v[k \in 0 .. Len(list)] == IF k = 0 THEN base ELSE op(v[k - 1], list[k])
    IN  v[Len(list)]
=============================================================================
