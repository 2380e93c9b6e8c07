----------------------------- MODULE ByteStream -----------------------------
(***************************************************************************)
(* libsponge/byte_stream.{hh,cc}: a bounded in-order byte stream.          *)
(*                                                                         *)
(* An object is a record with the fields of the class; a method is an      *)
(* operator Class_method whose first argument is the object, and whose     *)
(* value is the new object (or the method's result, for the accessors).    *)
(* A byte is an arbitrary value; a string is a sequence of bytes.          *)
(***************************************************************************)
EXTENDS Integers, Sequences

CONSTANT SizeMod  \* number of values of a size_t, 2^64 in the code

ASSUME SizeModAssumption == SizeMod \in Nat \ {0}

\* A sum or difference of two size_t values, reduced to the width of size_t.
SizeT(x) ==
    IF x < 0 THEN x + SizeMod ELSE IF x >= SizeMod THEN x - SizeMod ELSE x

MinOf(a, b) == IF a <= b THEN a ELSE b
MaxOf(a, b) == IF a >= b THEN a ELSE b

\* string::substr(pos, len) with positions from 0; len is cut at the end.
Substr(s, pos, len) == SubSeq(s, pos + 1, MinOf(pos + len, Len(s)))

NewByteStream(capacity) ==
    [str |-> <<>>, capacity |-> capacity, cur_cap |-> 0,
     bytes_read |-> 0, bytes_written |-> 0, input_is_end |-> FALSE, error |-> FALSE]

ByteStream_buffer_size(b) == b.cur_cap
ByteStream_buffer_empty(b) == ByteStream_buffer_size(b) = 0
ByteStream_input_ended(b) == b.input_is_end
ByteStream_eof(b) == ByteStream_input_ended(b) /\ ByteStream_buffer_empty(b)

\* Mutant: the room left ignores the bytes the reader has not taken yet.
ByteStream_remaining_capacity_Whole(b) == b.capacity

ByteStream_remaining_capacity(b) == SizeT(b.capacity - b.cur_cap)

\* The number of bytes of data that write accepts, its return value.
ByteStream_accepted(b, data) == MinOf(Len(data), ByteStream_remaining_capacity(b))

\* The end of the input is not looked at.
ByteStream_write(b, data) ==
    LET real_len == ByteStream_accepted(b, data)
    IN  [b EXCEPT !.str = @ \o Substr(data, 0, real_len),
                  !.bytes_written = @ + real_len,
                  !.cur_cap = @ + real_len]

ByteStream_peek_output(b, len) ==
    Substr(b.str, 0, MinOf(len, ByteStream_buffer_size(b)))

ByteStream_pop_output(b, len) ==
    LET real_len == MinOf(len, ByteStream_buffer_size(b))
    IN  [b EXCEPT !.str = Substr(@, real_len, ByteStream_buffer_size(b) - real_len),
                  !.cur_cap = @ - real_len,
                  !.bytes_read = @ + real_len]

\* read(len) returns peek_output(len) and leaves the stream of pop_output(len).
ByteStream_read(b, len) ==
    [data |-> ByteStream_peek_output(b, len), stream |-> ByteStream_pop_output(b, len)]

ByteStream_end_input(b) == [b EXCEPT !.input_is_end = TRUE]
ByteStream_set_error(b) == [b EXCEPT !.error = TRUE]

\* Bytes i .. j-1 of a stream in which a byte is represented by its index;
\* used by the specifications that give the streams their contents.
Bytes(i, j) == [k \in 1 .. j - i |-> i + k - 1]
=============================================================================
