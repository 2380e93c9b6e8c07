-------------------------- MODULE ReassemblyProofs --------------------------
(***************************************************************************)
(* The reassembler keeps its promise for every stream length and capacity, *)
(* against a peer that stays in the window and sends its end mark with or  *)
(* after the last byte.                                                    *)
(***************************************************************************)
EXTENDS Reassembly, ReassemblerProofs

\* A leaf is for SMT unless it names another prover.
USE SMTT(30)

-----------------------------------------------------------------------------
\* The activation a on the object x, called with the arguments p.
CallOK(a, x, p) ==
    \/ a = Idle /\ p = <<>>
    \/ \E i, j \in 0 .. StreamLen, eof \in BOOLEAN :
           p = <<i, j, eof>> /\ InCall(a, x, i, j, eof)

\* The inductive invariant.
IInv == ObjectOK(r) /\ CallOK(m, r, arg)

LEMMA InitOK == Init => IInv
  BY NewObjectOK DEF Init, IInv, CallOK

\* A call in progress is not idle.
LEMMA NotIdle ==
    ASSUME NEW x, NEW i, NEW j, NEW eof, InCall(Idle, x, i, j, eof)
    PROVE  FALSE
  <1>1. Idle.jump = "idle"  BY DEF Idle, Activation
  <1> QED  BY <1>1, Zenon DEF InCall, Leaving, Underway

LEMMA StepOK ==
    ASSUME InWindow, ~BareFinAhead, IInv, [Next]_vars
    PROVE  IInv' /\ [Abs!Next]_(Abs!vars)
  <1>1. ObjectOK(r) /\ CallOK(m, r, arg) /\ BaseOK(r)  BY DEF IInv, ObjectOK
  <1>2. ASSUME r' = r  PROVE ObjectOK(r)'  BY <1>1, <1>2
  <1>3. ASSUME NEW i \in 0 .. StreamLen, NEW j \in 0 .. StreamLen, NEW eof \in BOOLEAN,
               Push(i, j, eof)
        PROVE  IInv' /\ Abs!Next
    <2>1. /\ r' = r /\ m' = push_begin(r, Bytes(i, j), i, eof)
          /\ m = Idle /\ arg' = <<i, j, eof>>
          /\ i <= j /\ (eof => j = StreamLen) /\ i <= Window(r)
          /\ (eof /\ i = j => i <= r.cur_index)
      BY <1>3 DEF Push, Sendable, Window
    <2>2. Sent(r, i, j, eof)
      BY <2>1, PeerStreamAssumption DEF Sent, OfStream
    <2>3. InCall(m', r, i, j, eof)  BY ONLY <2>1, <2>2, <1>1, BeginOK, Zenon
    <2>4. CallOK(m', r', arg')  BY <2>1, <2>3, Zenon DEF CallOK
    <2>5. arg = <<>>  BY <2>1, <1>1, NotIdle, Zenon DEF CallOK
    <2>6. Abs!Arrive(i, j, eof)
      BY <2>1, <2>5, Zenon DEF Abs!Arrive, ByteStream_input_ended
    <2>7. IInv'  BY <2>1, <2>4, <1>2 DEF IInv
    <2> QED  BY <2>6, <2>7, Zenon DEF Abs!Next
  <1>4. ASSUME Merge  PROVE IInv' /\ UNCHANGED Abs!vars
    <2>1. r' = r /\ m' = merge_node(m) /\ arg' = arg /\ merging(m)  BY <1>4 DEF Merge
    <2>2. PICK i \in 0 .. StreamLen, j \in 0 .. StreamLen, eof \in BOOLEAN :
               arg = <<i, j, eof>> /\ InCall(m, r, i, j, eof)
      <3>1. Idle.jump = "idle"  BY DEF Idle, Activation
      <3>2. m # Idle  BY <3>1, <2>1 DEF merging
      <3> QED  BY <3>2, <1>1, Zenon DEF CallOK
    <2>3. InCall(m', r, i, j, eof)  BY ONLY <2>1, <2>2, <1>1, MergeCall, Zenon
    <2>4. CallOK(m', r', arg')  BY <2>1, <2>2, <2>3, Zenon DEF CallOK
    <2> QED  BY <2>1, <2>4, <1>2 DEF IInv, Abs!vars
  <1>5. ASSUME Finish  PROVE IInv' /\ Abs!Next
    <2>1. /\ r' = push_finish(r, m) /\ m' = Idle /\ arg' = <<>>
          /\ ~merging(m) /\ m # Idle
      BY <1>5 DEF Finish
    <2>2. PICK i \in 0 .. StreamLen, j \in 0 .. StreamLen, eof \in BOOLEAN :
               arg = <<i, j, eof>> /\ InCall(m, r, i, j, eof)
      BY <2>1, <1>1, Zenon DEF CallOK
    <2>3. i \in Nat /\ j \in Nat  BY PeerStreamAssumption
    <2>4. ObjectOK(r') /\ Arrives(r, r', i, j, eof)
      BY ONLY <2>1, <2>2, <2>3, <1>1, FinishCall, Zenon
    <2>5. CallOK(m', r', arg')  BY <2>1, Zenon DEF CallOK
    <2>6. r'.output.input_is_end = (r'.eof /\ r'.cur_index = StreamLen)
      <3>1. /\ r'.output.input_is_end => r'.eof /\ r'.cur_index = StreamLen
            /\ r'.eof /\ r'.cur_index = StreamLen => r'.output.input_is_end
        BY <2>4, Zenon DEF ObjectOK, BaseOK
      <3>2. r'.output.input_is_end \in BOOLEAN /\ r'.eof \in BOOLEAN
        BY <2>4 DEF ObjectOK, BaseOK, Objects, StreamType
      <3> QED  BY ONLY <3>1, <3>2, Zenon
    <2>7. Abs!Receive(i, j, eof)
      BY ONLY <2>1, <2>2, <2>4, <2>6, Zenon
         DEF Abs!Receive, Arrives, Accepts, Fit, Window, ByteStream_input_ended
    <2> QED  BY <2>2, <2>4, <2>5, <2>7, Zenon DEF IInv, Abs!Next
  <1>6. ASSUME NEW n \in 1 .. Capacity, Read(n)  PROVE IInv' /\ Abs!Next
    <2>1. /\ m = Idle /\ m' = m /\ arg' = arg /\ n <= r.output.cur_cap
          /\ r' = [r EXCEPT !.output = ByteStream_read(@, n).stream]
      BY <1>6 DEF Read, ByteStream_buffer_size
    <2>2. n \in Nat  BY PeerStreamAssumption
    <2>3. /\ ObjectOK(r')
          /\ r'.cur_index = r.cur_index /\ r'.list = r.list /\ r'.eof = r.eof
          /\ r'.output.bytes_read = r.output.bytes_read + n
          /\ r'.output.input_is_end = r.output.input_is_end
          /\ n <= r.cur_index - r.output.bytes_read
      BY ONLY <2>1, <2>2, <1>1, ReadCall, ZenonT(30)
    <2>4. arg = <<>>  BY <2>1, <1>1, NotIdle, Zenon DEF CallOK
    <2>5. Abs!Take(n)
      BY <2>1, <2>3, <2>4 DEF Abs!Take, ByteStream_input_ended
    <2>6. CallOK(m', r', arg')  BY <2>1, <2>4, Zenon DEF CallOK
    <2> QED  BY <2>3, <2>5, <2>6 DEF IInv, Abs!Next
  <1>7. CASE UNCHANGED vars
    <2>1. r' = r /\ m' = m /\ arg' = arg  BY <1>7 DEF vars
    <2>2. CallOK(m', r', arg')  BY <2>1, <1>1
    <2> QED  BY <2>1, <2>2, <1>2 DEF IInv, Abs!vars
  <1> QED  BY <1>3, <1>4, <1>5, <1>6, <1>7 DEF Next

(***************************************************************************)
(* stream_reassembler.cc:24-102, for every stream length and capacity:     *)
(* each call takes in its piece, whatever is stored already and however it *)
(* overlaps: exactly the bytes of that piece which fit are added to those  *)
(* held, the longest prefix goes to the reader, the end mark is accepted   *)
(* if nothing was cut, and the end is signalled by the call that completes *)
(* the stream, not before it and not after.  The peer stays in the window  *)
(* and sends no end mark ahead of its data.                                *)
(***************************************************************************)
THEOREM PromiseKept ==
    ASSUME InWindow, ~BareFinAhead
    PROVE  Spec => KeepsPromise
  <1>1. Init => IInv /\ Abs!Init
    <2>1. Init => Abs!Init
      BY HeldEmpty DEF Init, NewStreamReassembler, NewByteStream, Abs!Init,
                       ByteStream_input_ended
    <2> QED  BY <2>1, InitOK
  <1>2. IInv /\ [Next]_vars => IInv' /\ [Abs!Next]_(Abs!vars)  BY StepOK
  <1> QED  BY <1>1, <1>2, PTL DEF Spec, KeepsPromise, Abs!Spec

\* The invariant in the words of the runs.
LEMMA IInvImplies == IInv => OutputInOrder /\ ListWellFormed /\ WithinCapacity /\ NeverThrows
  <1> SUFFICES ASSUME IInv
               PROVE  OutputInOrder /\ ListWellFormed /\ WithinCapacity /\ NeverThrows
    OBVIOUS
  <1>1. BaseOK(r)  BY DEF IInv, ObjectOK
  <1>2. OutputInOrder  BY <1>1 DEF BaseOK, OutputInOrder, StreamOK
  <1>3. NeverThrows  BY <1>1 DEF BaseOK, NeverThrows
  <1>4. ListWellFormed
    <2>1. ListOK(r.list, r.cur_index, Window(r)) /\ r.cur_index \in Nat
      BY <1>1, FirstUnavailable DEF BaseOK
    <2>2. ASSUME NEW k \in 1 .. Len(r.list)  PROVE r.list[k].beg > r.cur_index
      <3>1. NodeOK(r.list[k], r.cur_index, Window(r))  BY <2>1 DEF ListOK
      <3> QED  BY <3>1, <2>1 DEF NodeOK, Nodes
    <2>3. ASSUME NEW k \in 1 .. Len(r.list) - 1
          PROVE  r.list[k].end + 1 < r.list[k + 1].beg
      <3>1. Len(r.list) \in Nat  BY <2>1 DEF ListOK
      <3>2. k \in 1 .. Len(r.list) /\ k + 1 \in 1 .. Len(r.list) /\ k < k + 1  BY <3>1
      <3>3. Apart(r.list[k], r.list[k + 1])  BY <2>1, <3>2 DEF ListOK
      <3> QED  BY <3>3 DEF Apart
    <2> QED  BY <2>2, <2>3 DEF ListWellFormed
  <1>5. WithinCapacity
    <2>1. /\ r.cur_index \in Nat /\ r.output.bytes_read \in Nat
          /\ r.output.cur_cap = r.cur_index - r.output.bytes_read
      BY <1>1, FirstUnavailable
    <2>2. /\ Reassembler_unassembled_bytes(r) \in Nat
          /\ Reassembler_unassembled_bytes(r) <= Window(r) - r.cur_index
      BY <1>1, UnassembledFits
    <2>3. Window(r) = r.output.bytes_read + Capacity /\ Capacity \in Nat
      BY PeerStreamAssumption DEF Window
    <2> QED  BY <2>1, <2>2, <2>3 DEF WithinCapacity, ByteStream_buffer_size
  <1> QED  BY <1>2, <1>3, <1>4, <1>5

LEMMA Invariance ==
    ASSUME InWindow, ~BareFinAhead
    PROVE  Spec => []IInv
  <1>1. Init => IInv  BY InitOK
  <1>2. IInv /\ [Next]_vars => IInv'  BY StepOK
  <1> QED  BY <1>1, <1>2, PTL DEF Spec

(***************************************************************************)
(* stream_reassembler.cc:86-91: what the reader finds is the stream, in    *)
(* order and without gaps, for every stream length and capacity.           *)
(***************************************************************************)
THEOREM AlwaysInOrder ==
    ASSUME InWindow, ~BareFinAhead
    PROVE  Spec => []OutputInOrder
  BY Invariance, IInvImplies, PTL

(***************************************************************************)
(* stream_reassembler.cc:50-98: every byte beyond the prefix is stored     *)
(* once, whatever overlaps, for every stream length and capacity.          *)
(***************************************************************************)
THEOREM AlwaysWellFormed ==
    ASSUME InWindow, ~BareFinAhead
    PROVE  Spec => []ListWellFormed
  BY Invariance, IInvImplies, PTL

(***************************************************************************)
(* stream_reassembler.hh:30-31, 36: the bytes the reader has not taken and *)
(* the bytes that wait beyond a hole never exceed the capacity together,   *)
(* for every stream length and capacity.                                   *)
(***************************************************************************)
THEOREM AlwaysWithinCapacity ==
    ASSUME InWindow, ~BareFinAhead
    PROVE  Spec => []WithinCapacity
  BY Invariance, IInvImplies, PTL

(***************************************************************************)
(* stream_reassembler.cc:83, 88: the two states the code declares          *)
(* impossible are, for every stream length and capacity.                   *)
(***************************************************************************)
THEOREM NeverThrowsAlways ==
    ASSUME InWindow, ~BareFinAhead
    PROVE  Spec => []NeverThrows
  BY Invariance, IInvImplies, PTL
=============================================================================
