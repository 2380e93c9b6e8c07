----------------------------- MODULE Reassembly -----------------------------
(***************************************************************************)
(* A StreamReassembler between a peer and a reader.  The peer has a stream *)
(* of StreamLen bytes and sends any piece of it, in any order, any number  *)
(* of times, cut in any way.  The reader takes bytes when it likes.        *)
(*                                                                         *)
(* A call of push_substring takes one step per iteration of its merge      *)
(* loop; nobody touches the object before it returns.                      *)
(***************************************************************************)
EXTENDS PeerStream

CONSTANTS
    InWindow,     \* TRUE: no data starts beyond the advertised window
    BareFinAhead  \* TRUE: an end mark without data may arrive before data

ASSUME ReassemblyAssumption ==
    /\ InWindow \in BOOLEAN
    /\ BareFinAhead \in BOOLEAN

VARIABLES
    r,    \* the StreamReassembler, as it is between two calls
    m,    \* the activation of push_substring in progress, or Idle
    arg   \* the piece it was called with: first byte, end, eof; or <<>>

vars == <<r, m, arg>>

Idle == Activation(<<>>, 1, FALSE, <<>>, "idle")

Init ==
    /\ r = NewStreamReassembler(Capacity)
    /\ m = Idle
    /\ arg = <<>>

\* The segments the peer may send now.
Sendable(i, j, eof) ==
    /\ i <= j
    /\ eof => j = StreamLen
    /\ InWindow => i <= r.output.bytes_read + Capacity
    /\ eof /\ i = j /\ ~BareFinAhead => i <= r.cur_index

Push(i, j, eof) ==
    /\ m = Idle
    /\ ~r.thrown
    /\ Sendable(i, j, eof)
    /\ m' = push_begin(r, Bytes(i, j), i, eof)
    /\ arg' = <<i, j, eof>>
    /\ UNCHANGED r

Merge ==
    /\ merging(m)
    /\ m' = merge_node(m)
    /\ UNCHANGED <<r, arg>>

Finish ==
    /\ m # Idle
    /\ ~merging(m)
    /\ r' = push_finish(r, m)
    /\ m' = Idle
    /\ arg' = <<>>

\* An exception out of push_substring ends the connection: nothing is read.
Read(n) ==
    /\ m = Idle
    /\ ~r.thrown
    /\ n <= ByteStream_buffer_size(r.output)
    /\ r' = [r EXCEPT !.output = ByteStream_read(@, n).stream]
    /\ UNCHANGED <<m, arg>>

Next ==
    \/ \E i, j \in 0 .. StreamLen, eof \in BOOLEAN : Push(i, j, eof)
    \/ Merge
    \/ Finish
    \/ \E n \in 1 .. Capacity : Read(n)

Spec == Init /\ [][Next]_vars

-----------------------------------------------------------------------------
(***************************************************************************)
(* byte_stream.cc:17-41, stream_reassembler.cc:86-91: whatever the order,  *)
(* the overlaps and the duplicates of the peer, the buffered output is the *)
(* run of stream bytes between the read and the written counters, and      *)
(* cur_index is the number of bytes written.                               *)
(***************************************************************************)
OutputInOrder ==
    /\ r.output.str = Bytes(r.output.bytes_read, r.output.bytes_written)
    /\ r.output.cur_cap = Len(r.output.str)
    /\ r.output.cur_cap <= Capacity
    /\ ~r.thrown => r.output.bytes_written = r.cur_index

(***************************************************************************)
(* stream_reassembler.cc:50-98: between two calls the list is sorted, no   *)
(* two nodes touch or overlap (each byte is stored once, hh:52-53), and    *)
(* every node begins beyond a hole.                                        *)
(***************************************************************************)
ListWellFormed ==
    ~r.thrown =>
        /\ \A k \in 1 .. Len(r.list) : r.list[k].beg > r.cur_index
        /\ \A k \in 1 .. Len(r.list) - 1 : r.list[k].end + 1 < r.list[k + 1].beg

(***************************************************************************)
(* hh:36 "The StreamReassembler will stay within the memory limits of the  *)
(* `capacity`", which hh:30-31 says limits the reassembled and the         *)
(* unassembled bytes together.                                             *)
(***************************************************************************)
WithinCapacity ==
    ByteStream_buffer_size(r.output) + Reassembler_unassembled_bytes(r) <= Capacity

(***************************************************************************)
(* The two exceptions of push_substring (cc:83, cc:88) guard against       *)
(* states its author holds impossible.                                     *)
(***************************************************************************)
NeverThrows == ~r.thrown

(***************************************************************************)
(* hh:41 "the last byte of `data` will be the last byte in the entire      *)
(* stream": the end is passed to the reader only once every byte of the    *)
(* stream has been written.                                                *)
(***************************************************************************)
EofComplete == ByteStream_input_ended(r.output) => r.cur_index = StreamLen

(***************************************************************************)
(* The reassembler keeps the promise of ReassemblyAbs.  The call that      *)
(* takes in a piece is the last step of push_substring (cc:86-101): up to  *)
(* it the object is unchanged, and with it every byte of that piece which  *)
(* fits is stored or written, whatever it overlaps, its end mark is        *)
(* accepted if nothing of it had to be cut, and the end is signalled if    *)
(* the stream is then complete.                                            *)
(***************************************************************************)
Abs == INSTANCE ReassemblyAbs WITH
           assembled <- r.cur_index,
           taken     <- r.output.bytes_read,
           held      <- Held(r.list),
           marked    <- r.eof,
           ended     <- ByteStream_input_ended(r.output),
           call      <- arg

KeepsPromise == Abs!Spec
=============================================================================
