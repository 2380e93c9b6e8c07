----------------------------- MODULE PeerStream -----------------------------
(***************************************************************************)
(* The stream that the peer of a StreamReassembler sends.  A byte is       *)
(* represented by its index in the stream, so that the order of the output *)
(* can be stated.  A size_t has room for every index that occurs.          *)
(***************************************************************************)
EXTENDS StreamReassembler

CONSTANTS
    StreamLen,  \* length of the peer's stream
    Capacity    \* capacity of the reassembler

ASSUME PeerStreamAssumption ==
    /\ StreamLen \in Nat \ {0}
    /\ Capacity \in Nat \ {0}
    /\ SizeMod > 2 * StreamLen + Capacity + 2

\* The stream indices a list of nodes stands for.
Held(list) == UNION {list[k].beg .. list[k].end : k \in 1 .. Len(list)}
=============================================================================
