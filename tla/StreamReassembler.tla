------------------------- MODULE StreamReassembler --------------------------
(***************************************************************************)
(* libsponge/stream_reassembler.{hh,cc}: out-of-order, overlapping         *)
(* substrings of a byte stream are put in order.                           *)
(*                                                                         *)
(* push_substring is split at its merge loop: push_begin is the code       *)
(* before the loop, merge_node one iteration, push_finish the code after   *)
(* it.  The activation record m of a call holds its locals:                *)
(*   data, left, right, set_eof  the locals of the same name;              *)
(*   kept                        the nodes the loop has passed;            *)
(*   rest                        the nodes it has not reached;             *)
(*   jump                        "none", or the way the call was cut short *)
(*                               ("return", "out", "throw").               *)
(* `thrown` in the object records that an exception left the call.         *)
(***************************************************************************)
EXTENDS ByteStream, Lists, FiniteSetsExt

NewStreamReassembler(capacity) ==
    [output |-> NewByteStream(capacity), cur_index |-> 0, eof |-> FALSE,
     list |-> <<>>, thrown |-> FALSE]

Node(s, beg, end) == [s |-> s, beg |-> beg, end |-> end]

Reassembler_first_unavailable(r) ==
    SizeT(r.cur_index + ByteStream_remaining_capacity(r.output))

\* Drops the bytes in front of cur_index; `old` when nothing else is left.
trim_old(r, data, index) ==
    IF index >= r.cur_index
    THEN [data |-> data, left |-> index, old |-> FALSE]
    ELSE LET offset == r.cur_index - index
         IN  IF offset >= Len(data)
             THEN [data |-> data, left |-> index, old |-> TRUE]
             ELSE [data |-> Substr(data, offset, Len(data)), left |-> r.cur_index,
                   old |-> FALSE]

\* Mutant: data that does not fit is kept whole.
trim_window_None(r, data, left) == [data |-> data, cut |-> FALSE]

\* Drops the bytes that do not fit.  The length is a difference of size_t
\* values: past the window it wraps around, and substr then keeps everything.
trim_window(r, data, left) ==
    IF SizeT(left + Len(data)) > Reassembler_first_unavailable(r)
    THEN [data |-> Substr(data, 0, SizeT(Reassembler_first_unavailable(r) - left)),
          cut  |-> TRUE]
    ELSE [data |-> data, cut |-> FALSE]

Activation(data, left, set_eof, list, jump) ==
    [data |-> data, left |-> left, right |-> SizeT(left + Len(data) - 1),
     set_eof |-> set_eof, kept |-> <<>>, rest |-> list, jump |-> jump]

should_set_eof(eof, window) == eof /\ ~window.cut

\* Mutant: data beyond a hole is taken for data that is there already.
push_jump_InOrderOnly(r, old) ==
    CASE Reassembler_first_unavailable(r) = r.cur_index -> "return"
      [] Reassembler_first_unavailable(r) # r.cur_index /\ old.left # r.cur_index -> "out"
      [] OTHER -> "none"

\* A full stream returns at once, data that is all old goes to `out`.
push_jump(r, old) ==
    CASE Reassembler_first_unavailable(r) = r.cur_index -> "return"
      [] Reassembler_first_unavailable(r) # r.cur_index /\ old.old -> "out"
      [] OTHER -> "none"

\* push_substring up to the merge loop.
push_begin(r, data, index, eof) ==
    LET old    == trim_old(r, data, index)
        window == trim_window(r, old.data, old.left)
        jump   == push_jump(r, old)
    IN  IF jump = "none"
        THEN Activation(window.data, old.left, should_set_eof(eof, window), r.list, jump)
        ELSE Activation(data, index, eof, r.list, jump)

\* The loop has more to do.
merging(m) == m.jump = "none" /\ m.rest # <<>>

\* Mutant: a node just in front of the data is passed over, not joined.
irrelevant_Adjacent(m, it) == it.end < m.left \/ it.beg > SizeT(m.right + 1)

\* How the node `it` lies to the data [left, right].
irrelevant(m, it) == SizeT(it.end + 1) < m.left \/ it.beg > SizeT(m.right + 1)
covers(m, it) == it.beg <= m.left /\ it.end >= m.right
covered(m, it) == it.end <= m.right /\ it.beg >= m.left
overlaps_left(m, it) == SizeT(it.end + 1) >= m.left /\ SizeT(it.end + 1) <= m.right
overlaps_right(m, it) == it.beg >= m.left + 1 /\ it.beg <= SizeT(m.right + 1)

\* Mutant: the overlapping bytes are not cut off.
right_part_Whole(m, it) == it.s

\* The bytes of the node in front of the data, and behind it.
left_part(m, it) == Substr(it.s, 0, SizeT(m.left - it.beg))
right_part(m, it) == Substr(it.s, SizeT(m.right + 1 - it.beg), Len(it.s))

\* One iteration of the merge loop, for the next node of the list.
merge_node(m) ==
    LET it == Head(m.rest)
        n  == [m EXCEPT !.rest = Tail(@)]
    IN  IF irrelevant(m, it) THEN [n EXCEPT !.kept = Append(@, it)]
        ELSE IF covers(m, it) THEN [m EXCEPT !.jump = "out"]
        ELSE IF covered(m, it) THEN n
        ELSE IF overlaps_left(m, it)
        THEN [n EXCEPT !.data = left_part(m, it) \o @, !.left = it.beg]
        ELSE IF overlaps_right(m, it)
        THEN [n EXCEPT !.data = @ \o right_part(m, it), !.right = it.end]
        ELSE [m EXCEPT !.jump = "throw"]

\* The place of the data in the list: in front of the first node that begins
\* beyond right + 1.
insert_node(list, m) ==
    LET beyond == {i \in 1 .. Len(list) : list[i].beg > SizeT(m.right + 1)}
        at     == IF beyond = {} THEN Len(list) + 1 ELSE Min(beyond)
    IN  Inserted(list, at, Node(m.data, m.left, m.right))

\* unassembled_bytes() = 0
Reassembler_empty(list) == \A i \in 1 .. Len(list) : list[i].s = <<>>

\* The code at `out:`.
push_out(r, set_eof) ==
    LET eof == r.eof \/ set_eof
    IN  [r EXCEPT !.eof = eof,
                  !.output = IF eof /\ Reassembler_empty(r.list)
                             THEN ByteStream_end_input(@) ELSE @]

\* push_substring from the end of the merge loop.  A short write appends what
\* fits and throws.
push_finish(r, m) ==
    LET merged == [r EXCEPT !.list = m.kept \o m.rest]
        fits   == ByteStream_accepted(r.output, m.data) = Len(m.data)
        wrote  == [merged EXCEPT !.output = ByteStream_write(@, m.data)]
    IN  CASE m.jump = "return" -> r
          [] m.jump = "throw"  -> [merged EXCEPT !.thrown = TRUE]
          [] m.jump = "out"    -> push_out(merged, m.set_eof)
          [] m.jump = "none" /\ m.left = r.cur_index /\ ~fits ->
                 [wrote EXCEPT !.thrown = TRUE]
          [] m.jump = "none" /\ m.left = r.cur_index /\ fits ->
                 push_out([wrote EXCEPT !.cur_index = @ + Len(m.data)], m.set_eof)
          [] m.jump = "none" /\ m.left # r.cur_index ->
                 push_out([merged EXCEPT !.list = insert_node(@, m)], m.set_eof)

\* The whole call: one iteration per node that was in the list.
Reassembler_push_substring(r, data, index, eof) ==
    push_finish(r, ForEach(LAMBDA m, i : IF merging(m) THEN merge_node(m) ELSE m,
                            push_begin(r, data, index, eof), r.list))

Reassembler_unassembled_bytes(r) ==
    ForEach(LAMBDA n, it : n + Len(it.s), 0, r.list)
=============================================================================
