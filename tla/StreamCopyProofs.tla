-------------------------- MODULE StreamCopyProofs --------------------------
(***************************************************************************)
(* The copying loop neither loses nor reorders a byte, and returns only    *)
(* when all is done, for every length of the two streams, every size of    *)
(* the buffers and of what the kernel takes at a time.                     *)
(*                                                                         *)
(* That every byte has one place (FlowOK) is inductive with the            *)
(* consistency of the two ByteStreams.  That the loop does not return too  *)
(* early needs more: a rule that is gone has left its stream ended         *)
(* (Control), the rules are still in the order in which they were added,   *)
(* so that the rule that writes a stream is asked after the one that reads *)
(* it may have been cancelled, and poll(2) never reports a hangup alone    *)
(* for the socket as long as the peer has not gone (CancelOnlyInput).      *)
(***************************************************************************)
EXTENDS StreamCopy, PrimitiveProofs

\* A leaf is for SMT unless it names another prover.
USE SMTT(30)

Queues == [q : Seq(Nat), n : Nat, ended : BOOLEAN, gone : BOOLEAN]
Flags == [eof : BOOLEAN, closed : BOOLEAN]
Fds == {"input", "socket", "output"}
Events == {In, Out, Hup, Err}

TypeInv ==
    /\ pc \in {"setup", "poll", "rules", "exit", "thrown"}
    /\ rules \in Seq(Rules)
    /\ asked \in [Rules -> SUBSET Events]
    /\ revents \in [Rules -> SUBSET Events]
    /\ pos \in Nat \ {0}
    /\ fd \in [Fds -> Flags]
    /\ stream \in [Directions -> StreamType(Nat)]
    /\ shut \in [Directions -> BOOLEAN]
    /\ source \in [Directions -> Queues]
    /\ sink \in [Directions -> Queues]
    /\ got \in [Directions -> Seq(Nat)]
    /\ faults \in Nat

\* The buffer of one direction.
BufferOK(s) == StreamOK(s, Nat) /\ s.capacity = BufferSize /\ ~s.error

\* Every byte of one direction has one place: the reader has the first ones,
\* then come the kernel's, the buffer's and those not yet read.
Flow(g, k, s, q, n) ==
    \E a, b, c \in 0 .. n :
        /\ a <= b /\ b <= c
        /\ g = Bytes(0, a) /\ k = Bytes(a, b) /\ s = Bytes(b, c) /\ q = Bytes(c, n)

FlowOK(d) ==
    /\ BufferOK(stream[d])
    /\ Flow(got[d], sink[d].q, stream[d].str, source[d].q, source[d].n)

\* All that the writer will ever send has been read.
Drained(d) == source[d].ended /\ source[d].q = <<>>

DirectionOK(d) ==
    /\ ~sink[d].gone
    /\ stream[d].input_is_end => Drained(d)
    /\ shut[d] => ByteStream_eof(stream[d])
    /\ sink[d].ended = shut[d]

Increasing(list) == \A i, j \in 1 .. Len(list) : i < j => list[i] < list[j]

\* What has become of a rule that is gone.
RulesOK ==
    \A r \in Rules :
        \/ Has(rules, r)
        \/ r \in {1, 3} /\ stream[StreamOf(r)].input_is_end
        \/ r = 4 /\ shut["inbound"]

FdsOK ==
    /\ fd["input"].eof => Drained("outbound")
    /\ fd["socket"].eof => Drained("inbound")
    /\ ~fd["input"].closed /\ ~fd["socket"].closed
    /\ fd["output"].closed => shut["inbound"]

\* The poll asks to write to the socket only if there is something to write.
AskedOK ==
    /\ \A r \in Rules : asked[r] \subseteq {Direction(r)}
    /\ pc = "poll" /\ asked[2] # {} => Empties(stream, shut, "outbound")

\* Only the rule of standard input is ever cancelled by a hangup.
CancelOnlyInput ==
    pc = "rules" =>
        \A r \in Rules : VerdictOn(r) = "cancel" => r = 1 /\ Drained("outbound")

Finished ==
    pc = "exit" =>
        \A d \in Directions : Drained(d) /\ stream[d].str = <<>> /\ sink[d].ended

Control ==
    /\ \A d \in Directions : DirectionOK(d)
    /\ RulesOK /\ FdsOK /\ AskedOK /\ CancelOnlyInput /\ Finished

\* The inductive invariant.
IInv ==
    /\ TypeInv
    /\ Increasing(rules)
    /\ \A d \in Directions : FlowOK(d)
    /\ faults = 0 => Control

-----------------------------------------------------------------------------
(***************************************************************************)
(* Bytes move from one place to the next.                                  *)
(***************************************************************************)
LEMMA BytesCut ==
    ASSUME NEW i \in Nat, NEW j \in Nat, i <= j, NEW m \in Nat, m <= j - i
    PROVE  /\ SubSeq(Bytes(i, j), 1, m) = Bytes(i, i + m)
           /\ SubSeq(Bytes(i, j), m + 1, j - i) = Bytes(i + m, j)
  <1> DEFINE t == Bytes(i, j)
  <1>1. t \in Seq(Nat) /\ Len(t) = j - i  BY BytesType, Zenon
  <1>2. Substr(t, 0, m) = Bytes(i, i + m)  BY BytesPrefix, Zenon
  <1>3. Substr(t, m, j - i) = Bytes(i + m, j)
    <2>1. j - i \in Nat /\ m + (j - i) >= j - i  OBVIOUS
    <2> QED  BY ONLY <2>1, i \in Nat, j \in Nat, i <= j, m \in Nat, m <= j - i, BytesSuffix, Zenon
  <1> HIDE DEF t
  <1>4. Substr(t, 0, m) = SubSeq(t, 1, m)
    <2>1. 0 + 1 = 1 /\ MinOf(0 + m, Len(t)) = m  BY <1>1 DEF MinOf
    <2> QED  BY <2>1, Zenon DEF Substr
  <1>5. Substr(t, m, j - i) = SubSeq(t, m + 1, j - i)
    <2>1. MinOf(m + (j - i), Len(t)) = j - i  BY <1>1 DEF MinOf
    <2> QED  BY <2>1, Zenon DEF Substr
  <1> QED  BY <1>2, <1>3, <1>4, <1>5 DEF t

LEMMA BytesAppend ==
    ASSUME NEW i \in Nat, NEW j \in Nat, i <= j
    PROVE  Append(Bytes(i, j), j) = Bytes(i, j + 1)
  <1> DEFINE t == Bytes(i, j)
             u == Append(t, j)
  <1>1. t \in Seq(Nat) /\ Len(t) = j - i /\ \A k \in 1 .. j - i : t[k] = i + k - 1
    BY BytesType, Zenon
  <1> HIDE DEF t
  <1>2. u \in Seq(Nat) /\ Len(u) = (j + 1) - i  BY <1>1
  <1>3. \A k \in 1 .. (j + 1) - i : u[k] = i + k - 1  BY <1>1
  <1> HIDE DEF u
  <1>4. j + 1 \in Nat /\ i <= j + 1  OBVIOUS
  <1>5. u = Bytes(i, j + 1)  BY ONLY <1>2, <1>3, <1>4, i \in Nat, BytesUnique, Zenon
  <1> QED  BY <1>5 DEF u, t

LEMMA BytesHead ==
    ASSUME NEW i \in Nat, NEW j \in Nat, i <= j, Bytes(i, j) # <<>>
    PROVE  i < j /\ Head(Bytes(i, j)) = i /\ Tail(Bytes(i, j)) = Bytes(i + 1, j)
  <1> DEFINE t == Bytes(i, j)
             u == Tail(t)
  <1>1. t \in Seq(Nat) /\ Len(t) = j - i /\ \A k \in 1 .. j - i : t[k] = i + k - 1
    BY BytesType, Zenon
  <1>2. t # <<>>  OBVIOUS
  <1> HIDE DEF t
  <1>3. i < j  BY <1>1, <1>2
  <1>4. Head(t) = i  BY <1>1, <1>3
  <1>5. u \in Seq(Nat) /\ Len(u) = j - (i + 1)  BY <1>1, <1>2
  <1>6. \A k \in 1 .. j - (i + 1) : u[k] = (i + 1) + k - 1  BY <1>1, <1>2
  <1> HIDE DEF u
  <1>7. i + 1 \in Nat /\ i + 1 <= j  BY <1>3
  <1>8. u = Bytes(i + 1, j)  BY ONLY <1>5, <1>6, <1>7, j \in Nat, BytesUnique, Zenon
  <1> QED  BY <1>3, <1>4, <1>8 DEF u, t

LEMMA FlowIsStream ==
    ASSUME NEW n \in Nat, NEW g, NEW k, NEW s, NEW q, Flow(g, k, s, q, n)
    PROVE  g \o k \o s \o q = Bytes(0, n)
  <1>1. PICK a, b, c \in 0 .. n :
          /\ a <= b /\ b <= c
          /\ g = Bytes(0, a) /\ k = Bytes(a, b) /\ s = Bytes(b, c) /\ q = Bytes(c, n)
    BY DEF Flow
  <1>2. 0 \in Nat /\ a \in Nat /\ b \in Nat /\ c \in Nat /\ 0 <= a /\ 0 <= b /\ 0 <= c /\ c <= n
    OBVIOUS
  <1>3. Bytes(0, a) \o Bytes(a, b) = Bytes(0, b)
    BY ONLY <1>1, <1>2, BytesConcat, Zenon
  <1>4. Bytes(0, b) \o Bytes(b, c) = Bytes(0, c)
    BY ONLY <1>1, <1>2, BytesConcat, Zenon
  <1>5. Bytes(0, c) \o Bytes(c, n) = Bytes(0, n)
    BY ONLY <1>2, n \in Nat, BytesConcat, Zenon
  <1> QED  BY ONLY <1>1, <1>3, <1>4, <1>5, Zenon

\* The writer sends byte n.
LEMMA FlowProduce ==
    ASSUME NEW n \in Nat, NEW g, NEW k, NEW s, NEW q, Flow(g, k, s, q, n)
    PROVE  Flow(g, k, s, Append(q, n), n + 1)
  <1>1. PICK a, b, c \in 0 .. n :
          /\ a <= b /\ b <= c
          /\ g = Bytes(0, a) /\ k = Bytes(a, b) /\ s = Bytes(b, c) /\ q = Bytes(c, n)
    BY DEF Flow
  <1>2. Append(q, n) = Bytes(c, n + 1)
    <2>1. c \in Nat /\ c <= n  OBVIOUS
    <2>2. Append(Bytes(c, n), n) = Bytes(c, n + 1)
      BY ONLY <2>1, n \in Nat, BytesAppend, Zenon
    <2> QED  BY ONLY <1>1, <2>2, Zenon
  <1>3. a \in 0 .. n + 1 /\ b \in 0 .. n + 1 /\ c \in 0 .. n + 1  OBVIOUS
  <1> QED  BY <1>1, <1>2, <1>3, Zenon DEF Flow

\* The reader takes a byte.
LEMMA FlowConsume ==
    ASSUME NEW n \in Nat, NEW g, NEW k, NEW s, NEW q, Flow(g, k, s, q, n), k # <<>>
    PROVE  Flow(Append(g, Head(k)), Tail(k), s, q, n)
  <1>1. PICK a, b, c \in 0 .. n :
          /\ a <= b /\ b <= c
          /\ g = Bytes(0, a) /\ k = Bytes(a, b) /\ s = Bytes(b, c) /\ q = Bytes(c, n)
    BY DEF Flow
  <1>2. a < b /\ Head(k) = a /\ Tail(k) = Bytes(a + 1, b)  BY <1>1, BytesHead
  <1>3. Append(g, Head(k)) = Bytes(0, a + 1)
    <2>1. 0 \in Nat /\ a \in Nat /\ 0 <= a  OBVIOUS
    <2>2. Append(Bytes(0, a), a) = Bytes(0, a + 1)
      BY ONLY <2>1, BytesAppend, Zenon
    <2> QED  BY ONLY <1>1, <1>2, <2>2, Zenon
  <1>4. a + 1 \in 0 .. n /\ a + 1 <= b  BY <1>1, <1>2
  <1> QED  BY <1>1, <1>2, <1>3, <1>4, Zenon DEF Flow

\* m bytes go from the kernel into the buffer.
LEMMA FlowFill ==
    ASSUME NEW n \in Nat, NEW g, NEW k, NEW s, NEW q, Flow(g, k, s, q, n),
           NEW m \in Nat, m <= Len(q)
    PROVE  Flow(g, k, s \o SubSeq(q, 1, m), SubSeq(q, m + 1, Len(q)), n)
  <1>1. PICK a, b, c \in 0 .. n :
          /\ a <= b /\ b <= c
          /\ g = Bytes(0, a) /\ k = Bytes(a, b) /\ s = Bytes(b, c) /\ q = Bytes(c, n)
    BY DEF Flow
  <1>0. q = Bytes(c, n) /\ s = Bytes(b, c) /\ c \in Nat /\ c <= n  BY <1>1
  <1>2. Len(q) = n - c
    <2>1. Len(Bytes(c, n)) = n - c  BY ONLY <1>0, n \in Nat, BytesType, Zenon
    <2> QED  BY ONLY <1>0, <2>1, Zenon
  <1>3. m <= n - c  BY <1>2
  <1>4. SubSeq(q, 1, m) = Bytes(c, c + m) /\ SubSeq(q, m + 1, Len(q)) = Bytes(c + m, n)
    <2>1. /\ SubSeq(Bytes(c, n), 1, m) = Bytes(c, c + m)
          /\ SubSeq(Bytes(c, n), m + 1, n - c) = Bytes(c + m, n)
      BY ONLY <1>0, <1>3, m \in Nat, n \in Nat, BytesCut, ZenonT(30)
    <2> QED  BY ONLY <1>0, <1>2, <2>1, Zenon
  <1>5. c + m \in 0 .. n /\ b <= c + m /\ c <= c + m /\ b \in Nat /\ c + m \in Nat
    BY <1>1, <1>3
  <1>6. s \o SubSeq(q, 1, m) = Bytes(b, c + m)
    <2>1. Bytes(b, c) \o Bytes(c, c + m) = Bytes(b, c + m)
      BY ONLY <1>0, <1>1, <1>5, BytesConcat, Zenon
    <2> QED  BY ONLY <1>0, <1>4, <2>1, Zenon
  <1> QED  BY <1>1, <1>4, <1>5, <1>6, Zenon DEF Flow

\* m bytes go from the buffer into the kernel.
LEMMA FlowEmpty ==
    ASSUME NEW n \in Nat, NEW g, NEW k, NEW s, NEW q, Flow(g, k, s, q, n),
           NEW m \in Nat, m <= Len(s)
    PROVE  Flow(g, k \o SubSeq(s, 1, m), SubSeq(s, m + 1, Len(s)), q, n)
  <1>1. PICK a, b, c \in 0 .. n :
          /\ a <= b /\ b <= c
          /\ g = Bytes(0, a) /\ k = Bytes(a, b) /\ s = Bytes(b, c) /\ q = Bytes(c, n)
    BY DEF Flow
  <1>0. s = Bytes(b, c) /\ k = Bytes(a, b) /\ b \in Nat /\ c \in Nat /\ b <= c  BY <1>1
  <1>2. Len(s) = c - b
    <2>1. Len(Bytes(b, c)) = c - b  BY ONLY <1>0, BytesType, Zenon
    <2> QED  BY ONLY <1>0, <2>1, Zenon
  <1>3. m <= c - b  BY <1>2
  <1>4. SubSeq(s, 1, m) = Bytes(b, b + m) /\ SubSeq(s, m + 1, Len(s)) = Bytes(b + m, c)
    <2>1. /\ SubSeq(Bytes(b, c), 1, m) = Bytes(b, b + m)
          /\ SubSeq(Bytes(b, c), m + 1, c - b) = Bytes(b + m, c)
      BY ONLY <1>0, <1>3, m \in Nat, BytesCut, ZenonT(60)
    <2> QED  BY ONLY <1>0, <1>2, <2>1, Zenon
  <1>5. b + m \in 0 .. n /\ a <= b + m /\ b + m <= c /\ b <= b + m /\ a \in Nat /\ b + m \in Nat
    BY <1>0, <1>1, <1>3
  <1>6. k \o SubSeq(s, 1, m) = Bytes(a, b + m)
    <2>1. Bytes(a, b) \o Bytes(b, b + m) = Bytes(a, b + m)
      BY ONLY <1>0, <1>1, <1>5, BytesConcat, Zenon
    <2> QED  BY ONLY <1>0, <1>4, <2>1, Zenon
  <1> QED  BY <1>1, <1>4, <1>5, <1>6, Zenon DEF Flow

-----------------------------------------------------------------------------
(***************************************************************************)
(* The callbacks and the buffer of one direction.                          *)
(***************************************************************************)
LEMMA BufferFields ==
    ASSUME NEW s, BufferOK(s)
    PROVE  /\ s \in StreamType(Nat) /\ s.str \in Seq(Nat) /\ s.cur_cap = Len(s.str)
           /\ s.cur_cap \in Nat /\ s.cur_cap <= BufferSize /\ s.input_is_end \in BOOLEAN
           /\ BufferSize \in Nat \ {0} /\ s.error = FALSE
           /\ ByteStream_remaining_capacity(s) = BufferSize - s.cur_cap
  <1>1. /\ StreamOK(s, Nat) /\ s.capacity = BufferSize /\ ~s.error  BY DEF BufferOK
  <1>2. /\ s \in StreamType(Nat) /\ s.str \in Seq(Nat) /\ s.cur_cap = Len(s.str)
        /\ s.cur_cap \in Nat /\ s.cur_cap <= BufferSize /\ s.input_is_end \in BOOLEAN
        /\ s.error \in BOOLEAN
    BY <1>1 DEF StreamOK, StreamType
  <1>3. ByteStream_remaining_capacity(s) = s.capacity - s.cur_cap
    BY ONLY <1>1, RemainingCapacity, Zenon
  <1>4. BufferSize \in Nat \ {0}  BY StreamCopyAssumption
  <1>5. ByteStream_remaining_capacity(s) = BufferSize - s.cur_cap  BY <1>1, <1>3, Zenon
  <1> QED  BY <1>1, <1>2, <1>4, <1>5

LEMMA EndedStream ==
    ASSUME NEW Byte, NEW s, s \in StreamType(Byte), NEW t, t = ByteStream_end_input(s)
    PROVE  /\ t \in StreamType(Byte) /\ t.input_is_end = TRUE
           /\ t.str = s.str /\ t.cur_cap = s.cur_cap
           /\ ByteStream_end_input(t) = t
  <1>1. t \in StreamType(Byte)  BY Zenon DEF ByteStream_end_input, StreamType
  <1>2. t.input_is_end = TRUE /\ t.str = s.str /\ t.cur_cap = s.cur_cap
    BY DEF ByteStream_end_input, StreamType
  <1>3. ByteStream_end_input(t) = t
    BY Zenon DEF ByteStream_end_input, StreamType
  <1> QED  BY <1>1, <1>2, <1>3

\* The end of the input changes nothing else.
LEMMA EndedBuffer ==
    ASSUME NEW s, BufferOK(s), NEW t, t = ByteStream_end_input(s)
    PROVE  BufferOK(t) /\ t.str = s.str /\ t.cur_cap = s.cur_cap /\ t.input_is_end = TRUE
  <1>1. /\ StreamOK(s, Nat) /\ s.capacity = BufferSize /\ ~s.error /\ s \in StreamType(Nat)
    BY DEF BufferOK, StreamOK
  <1>2. StreamOK(t, Nat) /\ t.cur_cap = s.cur_cap /\ t.str = s.str
    BY ONLY <1>1, t = ByteStream_end_input(s), EndInputOK, Zenon
  <1>3. t.capacity = s.capacity /\ t.error = s.error /\ t.input_is_end = TRUE
    BY <1>1 DEF ByteStream_end_input, StreamType
  <1>4. BufferOK(t)  BY <1>1, <1>2, <1>3, Zenon DEF BufferOK
  <1> QED  BY <1>2, <1>3, <1>4

\* Rules 1 and 3 read no more than fits.
LEMMA FilledBuffer ==
    ASSUME NEW s, BufferOK(s), NEW data \in Seq(Nat), NEW eof \in BOOLEAN,
           Len(data) <= BufferSize - s.cur_cap, NEW t, t = Filled(s, data, eof)
    PROVE  /\ BufferOK(t) /\ t.str = s.str \o data
           /\ (t.input_is_end <=> s.input_is_end \/ eof)
  <1> DEFINE w == ByteStream_write(s, data)
             n == ByteStream_accepted(s, data)
  <1>1. /\ StreamOK(s, Nat) /\ s.capacity = BufferSize /\ ~s.error /\ s \in StreamType(Nat)
    BY DEF BufferOK, StreamOK
  <1>2. n = Len(data)
    <2>1. Len(data) <= s.capacity - s.cur_cap  BY <1>1
    <2> QED  BY ONLY <1>1, <2>1, data \in Seq(Nat), WriteOK, ZenonT(60)
  <1>3. StreamOK(w, Nat)  BY ONLY <1>1, data \in Seq(Nat), WriteOK, ZenonT(60)
  <1>4. w.capacity = s.capacity /\ w.input_is_end = s.input_is_end
    BY ONLY <1>1, data \in Seq(Nat), WriteOK, ZenonT(60)
  <1>5. w.str = s.str \o Substr(data, 0, n)
    BY ONLY <1>1, data \in Seq(Nat), WriteOK, ZenonT(60)
  <1>6. w.error = s.error  BY <1>1 DEF ByteStream_write, StreamType
  <1> HIDE DEF w, n
  <1>7. Substr(data, 0, n) = data
    <2>1. 0 + 1 = 1 /\ MinOf(0 + n, Len(data)) = Len(data)  BY <1>2 DEF MinOf
    <2>2. SubSeq(data, 1, Len(data)) = data  OBVIOUS
    <2> QED  BY <2>1, <2>2, Zenon DEF Substr
  <1>8. BufferOK(w) /\ w.str = s.str \o data
    BY <1>1, <1>3, <1>4, <1>5, <1>6, <1>7, Zenon DEF BufferOK
  <1>9. t = IF eof THEN ByteStream_end_input(w) ELSE w  BY Zenon DEF Filled, w
  <1>10. s.input_is_end \in BOOLEAN  BY <1>1 DEF StreamType
  <1>11. CASE eof
    <2>1. BufferOK(t) /\ t.str = w.str /\ t.input_is_end = TRUE
      BY ONLY <1>8, <1>9, <1>11, EndedBuffer, Zenon
    <2>2. t.str = s.str \o data  BY <2>1, <1>8, Zenon
    <2> QED  BY <2>1, <2>2, <1>11, Zenon
  <1>12. CASE ~eof  BY <1>8, <1>9, <1>12, <1>4, <1>10
  <1> QED  BY <1>11, <1>12

\* Rules 2 and 4 take out of the buffer what the kernel has taken.
LEMMA EmptiedBuffer ==
    ASSUME NEW s, BufferOK(s), NEW len \in Nat, len <= s.cur_cap, NEW n \in Nat, n <= len,
           NEW t, t = Emptied(s, Len(ByteStream_peek_output(s, len)), n)
    PROVE  /\ BufferOK(t) /\ t.str = SubSeq(s.str, n + 1, Len(s.str))
           /\ t.input_is_end = s.input_is_end
           /\ SubSeq(ByteStream_peek_output(s, len), 1, n) = SubSeq(s.str, 1, n)
  <1>1. /\ StreamOK(s, Nat) /\ s.capacity = BufferSize /\ ~s.error /\ s \in StreamType(Nat)
    BY DEF BufferOK, StreamOK
  <1>2. s.str \in Seq(Nat) /\ s.cur_cap = Len(s.str) /\ s.cur_cap \in Nat
    BY BufferFields, Zenon
  <1>3. t = ByteStream_pop_output(s, n)  BY Zenon DEF Emptied
  <1>4. MinOf(n, s.cur_cap) = n /\ MinOf(len, s.cur_cap) = len  BY <1>2 DEF MinOf
  <1>5. ByteStream_read(s, n).stream = t  BY <1>3 DEF ByteStream_read
  <1>6. /\ StreamOK(t, Nat) /\ t.capacity = s.capacity /\ t.input_is_end = s.input_is_end
    <2> DEFINE v == ByteStream_read(s, n).stream
    <2>1. StreamOK(v, Nat)  BY ONLY <1>1, n \in Nat, ReadOK, ZenonT(60)
    <2>2. t.capacity = s.capacity /\ t.input_is_end = s.input_is_end
      BY <1>1, <1>3 DEF ByteStream_pop_output, StreamType
    <2> QED  BY ONLY <2>1, <2>2, <1>5, Zenon
  <1>7. t.error = s.error  BY <1>1, <1>3 DEF ByteStream_pop_output, StreamType
  <1>8. t.str = Substr(s.str, n, s.cur_cap - n)
    BY <1>1, <1>3, <1>4 DEF ByteStream_pop_output, StreamType, ByteStream_buffer_size
  <1>9. ByteStream_peek_output(s, len) = Substr(s.str, 0, len)
    BY <1>4, Zenon DEF ByteStream_peek_output, ByteStream_buffer_size
  <1> DEFINE u == s.str
  <1> HIDE DEF u
  <1>10. Substr(u, n, Len(u) - n) = SubSeq(u, n + 1, Len(u))
    <2>1. MinOf(n + (Len(u) - n), Len(u)) = Len(u)  BY <1>2 DEF MinOf, u
    <2> QED  BY <2>1, Zenon DEF Substr
  <1>11. SubSeq(Substr(u, 0, len), 1, n) = SubSeq(u, 1, n)
    <2>1. 0 + 1 = 1 /\ MinOf(0 + len, Len(u)) = len  BY <1>2 DEF MinOf, u
    <2>2. Substr(u, 0, len) = SubSeq(u, 1, len)  BY <2>1, Zenon DEF Substr
    <2>3. SubSeq(SubSeq(u, 1, len), 1, n) = SubSeq(u, 1, n)  BY <1>2 DEF u
    <2> QED  BY <2>2, <2>3, Zenon
  <1>12. BufferOK(t)  BY <1>1, <1>6, <1>7, Zenon DEF BufferOK
  <1>13. t.str = SubSeq(s.str, n + 1, Len(s.str))  BY <1>2, <1>8, <1>10, Zenon DEF u
  <1> QED  BY <1>6, <1>9, <1>11, <1>12, <1>13, Zenon DEF u

-----------------------------------------------------------------------------
(***************************************************************************)
(* The preparation of the poll is a fold over the rules.                   *)
(***************************************************************************)
LEMMA RuleTable ==
    /\ StreamOf(1) = "outbound" /\ StreamOf(2) = "outbound"
    /\ StreamOf(3) = "inbound" /\ StreamOf(4) = "inbound"
    /\ FdOf(1) = "input" /\ FdOf(2) = "socket" /\ FdOf(3) = "socket" /\ FdOf(4) = "output"
    /\ Direction(1) = In /\ Direction(2) = Out /\ Direction(3) = In /\ Direction(4) = Out
    /\ "outbound" \in Directions /\ "inbound" \in Directions /\ In # Out
    /\ \A r \in Rules : StreamOf(r) \in Directions /\ FdOf(r) \in Fds /\ Direction(r) \in Events
    /\ \A r \in Rules : r = 1 \/ r = 2 \/ r = 3 \/ r = 4
  BY DEF StreamOf, FdOf, Direction, Directions, In, Out, Rules, Fds, Events

Gone(r) == Defunct(Direction(r), fd[FdOf(r)])

\* A rule that the loop has dealt with.
Settled(s, r) ==
    IF Gone(r)
    THEN s.stream[StreamOf(r)].input_is_end = TRUE
    ELSE /\ Has(s.rules, r)
         /\ s.asked[r] = Asked(Direction(r), Interest(s.stream, shut, r))

\* The values of the loop after k rules.
Setting(s, k) ==
    /\ s \in [rules : Seq(Rules), stream : [Directions -> StreamType(Nat)],
              asked : [Rules -> SUBSET Events]]
    /\ Increasing(s.rules)
    /\ \A i \in 1 .. Len(s.rules) : \E l \in 1 .. k : s.rules[i] = rules[l]
    /\ \A d \in Directions :
           \/ s.stream[d] = stream[d]
           \/ /\ s.stream[d] = ByteStream_end_input(stream[d])
              /\ \E l \in 1 .. k : Gone(rules[l]) /\ StreamOf(rules[l]) = d
    /\ \A l \in 1 .. k : Settled(s, rules[l])
    /\ \A r \in Rules : s.asked[r] \subseteq {Direction(r)}

\* What the loop starts from.
Prepared ==
    /\ TypeInv /\ Increasing(rules)
    /\ \A d \in Directions : BufferOK(stream[d])

\* Ending the input of a stream does not change who wants to read.
LEMMA FillsSame ==
    ASSUME NEW st \in [Directions -> StreamType(Nat)], NEW e \in Directions, NEW d \in Directions
    PROVE  Fills([st EXCEPT ![e] = ByteStream_end_input(@)], d) = Fills(st, d)
  <1> DEFINE u == [st EXCEPT ![e] = ByteStream_end_input(@)]
  <1>1. ASSUME NEW c \in Directions
        PROVE  u[c].error = st[c].error /\ u[c].capacity = st[c].capacity /\ u[c].cur_cap = st[c].cur_cap
    BY Zenon DEF ByteStream_end_input, StreamType
  <1> HIDE DEF u
  <1>2. "outbound" \in Directions /\ "inbound" \in Directions  BY RuleTable
  <1>3. Fills(u, d) = Fills(st, d)
    BY <1>1, <1>2, Zenon DEF Fills, ByteStream_remaining_capacity
  <1> QED  BY <1>3 DEF u

\* One rule that is gone.
LEMMA GoneRule ==
    ASSUME Prepared, NEW k \in 0 .. Len(rules) - 1, NEW s, Setting(s, k), NEW r, r = rules[k + 1],
           Gone(r), NEW t, t = SetupRule(s, r)
    PROVE  Setting(t, k + 1)
  <1> DEFINE e == StreamOf(r)
             st == s.stream
             u == [st EXCEPT ![e] = ByteStream_end_input(@)]
  <1>1. /\ rules \in Seq(Rules) /\ Increasing(rules) /\ r \in Rules /\ e \in Directions
        /\ k + 1 \in 1 .. Len(rules) /\ k \in Nat
        /\ stream \in [Directions -> StreamType(Nat)]
    BY RuleTable DEF Prepared, TypeInv
  <1>2. s \in [rules : Seq(Rules), stream : [Directions -> StreamType(Nat)],
               asked : [Rules -> SUBSET Events]]
    BY Zenon DEF Setting
  <1>3. t = [s EXCEPT !.stream = u]  BY <1>2, Zenon DEF SetupRule, Gone, Cancel
  <1>4. st \in [Directions -> StreamType(Nat)]  BY <1>2
  <1>5. u \in [Directions -> StreamType(Nat)]
    <2>1. st[e] \in StreamType(Nat)  BY <1>1, <1>4
    <2>2. ByteStream_end_input(st[e]) \in StreamType(Nat)  BY ONLY <2>1, EndedStream, Zenon
    <2> DEFINE v == ByteStream_end_input(st[e])
    <2> HIDE DEF v, st
    <2>3. [st EXCEPT ![e] = v] \in [Directions -> StreamType(Nat)]  BY <1>1, <1>4, <2>2, Zenon DEF v
    <2> QED  BY <2>3 DEF v
  <1>6. u[e] = ByteStream_end_input(st[e]) /\ \A d \in Directions : d # e => u[d] = st[d]
    BY <1>1, <1>4
  <1>7. u[e].input_is_end = TRUE /\ \A d \in Directions : st[d].input_is_end = TRUE => u[d].input_is_end = TRUE
    BY <1>1, <1>4, <1>6 DEF ByteStream_end_input, StreamType
  <1>8. ASSUME NEW d \in Directions  PROVE Fills(u, d) = Fills(st, d)
    BY ONLY <1>1, <1>4, <1>8, FillsSame, Zenon
  <1> HIDE DEF u, st
  <1>9. /\ t.rules = s.rules /\ t.asked = s.asked /\ t.stream = u
        /\ t \in [rules : Seq(Rules), stream : [Directions -> StreamType(Nat)],
                  asked : [Rules -> SUBSET Events]]
    BY <1>2, <1>3, <1>5, Zenon
  <1>10. \A i \in 1 .. Len(t.rules) : \E l \in 1 .. k + 1 : t.rules[i] = rules[l]
    <2>1. \A i \in 1 .. Len(s.rules) : \E l \in 1 .. k : s.rules[i] = rules[l]
      BY Zenon DEF Setting
    <2>2. 1 .. k \subseteq 1 .. k + 1  BY <1>1
    <2> QED  BY <2>1, <2>2, <1>9, Zenon
  <1>11. ASSUME NEW d \in Directions
         PROVE  \/ u[d] = stream[d]
                \/ /\ u[d] = ByteStream_end_input(stream[d])
                   /\ \E l \in 1 .. k + 1 : Gone(rules[l]) /\ StreamOf(rules[l]) = d
    <2>1. \/ st[d] = stream[d]
          \/ /\ st[d] = ByteStream_end_input(stream[d])
             /\ \E l \in 1 .. k : Gone(rules[l]) /\ StreamOf(rules[l]) = d
      BY <1>11, Zenon DEF Setting, st
    <2>2. 1 .. k \subseteq 1 .. k + 1 /\ k + 1 \in 1 .. k + 1  BY <1>1
    <2>3. CASE d # e  BY <2>1, <2>2, <2>3, <1>6, Zenon
    <2>4. CASE d = e
      <3>1. ByteStream_end_input(ByteStream_end_input(stream[d])) = ByteStream_end_input(stream[d])
        <4>1. stream[d] \in StreamType(Nat)  BY <1>1, <1>11
        <4> DEFINE v == stream[d]
                   w == ByteStream_end_input(v)
        <4>2. ByteStream_end_input(w) = w
          <5> HIDE DEF v, w
          <5>1. w = ByteStream_end_input(v) /\ v \in StreamType(Nat)  BY <4>1 DEF v, w
          <5> QED  BY ONLY <5>1, EndedStream, Zenon
        <4> QED  BY <4>2
      <3>2. u[d] = ByteStream_end_input(stream[d])  BY <2>1, <2>4, <3>1, <1>6, Zenon
      <3> QED  BY <3>2, <2>2, <2>4, Zenon
    <2> QED  BY <2>3, <2>4
  <1>12. ASSUME NEW l \in 1 .. k + 1  PROVE Settled(t, rules[l])
    <2>1. CASE l = k + 1  BY <2>1, <1>7, <1>9, Zenon DEF Settled
    <2>2. CASE l # k + 1
      <3> DEFINE p == rules[l]
      <3>1. l \in 1 .. k /\ l < k + 1 /\ l \in 1 .. Len(rules)  BY <2>2, <1>1
      <3>2. p \in Rules /\ p < r  BY <3>1, <1>1 DEF Increasing
      <3>3. Settled(s, p) /\ StreamOf(p) \in Directions
        BY <3>1, <3>2, RuleTable, Zenon DEF Setting
      <3> HIDE DEF p
      <3>4. CASE Gone(p)
        BY <3>3, <3>4, <1>7, <1>9, Zenon DEF Settled, p, st
      <3>5. CASE ~Gone(p)
        <4>1. Has(s.rules, p) /\ s.asked[p] = Asked(Direction(p), Interest(st, shut, p))
          BY <3>3, <3>5, Zenon DEF Settled, st
        <4>2. Interest(u, shut, p) = Interest(st, shut, p)
          <5>1. CASE Direction(p) = In
            BY <5>1, <1>8, <3>3, Zenon DEF Interest
          <5>2. CASE Direction(p) # In
            <6>1. p = 2 /\ r \in {3, 4}  BY <5>2, <3>2, <1>1, RuleTable DEF Rules
            <6>2. u["outbound"] = st["outbound"] /\ StreamOf(p) = "outbound"
              BY <6>1, <1>6, RuleTable
            <6> QED  BY <5>2, <6>2, Zenon DEF Interest, Empties
          <5> QED  BY <5>1, <5>2
        <4>3. Has(t.rules, p) /\ t.asked[p] = Asked(Direction(p), Interest(t.stream, shut, p))
          BY <4>1, <4>2, <1>9, Zenon
        <4> QED  BY <4>3, <3>5, Zenon DEF Settled, p
      <3> QED  BY <3>4, <3>5
    <2> QED  BY <2>1, <2>2
  <1>13. Increasing(s.rules) /\ \A p \in Rules : s.asked[p] \subseteq {Direction(p)}
    BY Zenon DEF Setting
  <1> QED  BY <1>9, <1>10, <1>11, <1>12, <1>13, Zenon DEF Setting

\* One rule that goes on.
LEMMA LiveRule ==
    ASSUME Prepared, NEW k \in 0 .. Len(rules) - 1, NEW s, Setting(s, k), NEW r, r = rules[k + 1],
           ~Gone(r), NEW t, t = SetupRule(s, r)
    PROVE  Setting(t, k + 1)
  <1> DEFINE st == s.stream
             ask == Asked(Direction(r), Interest(st, shut, r))
             list == Append(s.rules, r)
  <1>1. /\ rules \in Seq(Rules) /\ Increasing(rules) /\ r \in Rules
        /\ k + 1 \in 1 .. Len(rules) /\ k \in Nat
    BY DEF Prepared, TypeInv
  <1>2. s \in [rules : Seq(Rules), stream : [Directions -> StreamType(Nat)],
               asked : [Rules -> SUBSET Events]]
    BY Zenon DEF Setting
  <1>3. t = [s EXCEPT !.rules = list, !.asked[r] = ask]
    BY Zenon DEF SetupRule, Gone
  <1>4. ask \subseteq {Direction(r)} /\ ask \subseteq Events
    BY <1>1, RuleTable DEF Asked
  <1>5. list \in Seq(Rules) /\ Len(list) = Len(s.rules) + 1 /\ list[Len(s.rules) + 1] = r
        /\ \A i \in 1 .. Len(s.rules) : list[i] = s.rules[i]
    BY <1>1, <1>2
  <1> HIDE DEF ask, list
  <1>6. /\ t.rules = list /\ t.stream = st /\ t.asked = [s.asked EXCEPT ![r] = ask]
    BY <1>2, <1>3
  <1>7. t \in [rules : Seq(Rules), stream : [Directions -> StreamType(Nat)],
               asked : [Rules -> SUBSET Events]]
    <2> DEFINE f == [s.asked EXCEPT ![r] = ask]
    <2>1. st \in [Directions -> StreamType(Nat)] /\ s.asked \in [Rules -> SUBSET Events]
      BY <1>2
    <2>2. f \in [Rules -> SUBSET Events]  BY <2>1, <1>1, <1>4, Zenon
    <2>3. t = [rules |-> list, stream |-> st, asked |-> f]  BY <1>2, <1>3, Zenon
    <2> HIDE DEF f, st
    <2> QED  BY <2>1, <2>2, <2>3, <1>5
  <1>8. t.asked[r] = ask /\ \A p \in Rules : p # r => t.asked[p] = s.asked[p]
    BY <1>1, <1>2, <1>6
  <1>9. s.rules \in Seq(Rules) /\ Len(s.rules) \in Nat  BY <1>2
  <1>10. \A i \in 1 .. Len(s.rules) : \E l \in 1 .. k : s.rules[i] = rules[l]
    BY Zenon DEF Setting
  <1>11. ASSUME NEW i \in 1 .. Len(s.rules)  PROVE s.rules[i] < r
    <2>1. PICK l \in 1 .. k : s.rules[i] = rules[l]  BY <1>10
    <2>2. l \in 1 .. Len(rules) /\ l < k + 1  BY <1>1
    <2> QED  BY <2>1, <2>2, <1>1 DEF Increasing
  <1>12. Increasing(list)
    <2>1. Increasing(s.rules)  BY Zenon DEF Setting
    <2> SUFFICES ASSUME NEW i \in 1 .. Len(list), NEW j \in 1 .. Len(list), i < j
                 PROVE  list[i] < list[j]
      BY DEF Increasing
    <2>2. i \in 1 .. Len(s.rules) /\ list[i] = s.rules[i]  BY <1>5, <1>9
    <2>3. CASE j = Len(s.rules) + 1  BY <2>2, <2>3, <1>5, <1>11
    <2>4. CASE j # Len(s.rules) + 1
      <3>1. j \in 1 .. Len(s.rules) /\ list[j] = s.rules[j]  BY <2>4, <1>5, <1>9
      <3> QED  BY <2>1, <2>2, <3>1 DEF Increasing
    <2> QED  BY <2>3, <2>4
  <1>13. ASSUME NEW i \in 1 .. Len(list)  PROVE \E l \in 1 .. k + 1 : list[i] = rules[l]
    <2>1. CASE i = Len(s.rules) + 1
      <3>1. list[i] = rules[k + 1] /\ k + 1 \in 1 .. k + 1  BY <2>1, <1>1, <1>5
      <3> QED  BY <3>1
    <2>2. CASE i # Len(s.rules) + 1
      <3>1. i \in 1 .. Len(s.rules) /\ list[i] = s.rules[i]  BY <2>2, <1>5, <1>9
      <3>2. PICK l \in 1 .. k : s.rules[i] = rules[l]  BY <3>1, <1>10
      <3>3. l \in 1 .. k + 1  BY <1>1
      <3> QED  BY <3>1, <3>2, <3>3
    <2> QED  BY <2>1, <2>2
  <1>14. ASSUME NEW d \in Directions
         PROVE  \/ st[d] = stream[d]
                \/ /\ st[d] = ByteStream_end_input(stream[d])
                   /\ \E l \in 1 .. k + 1 : Gone(rules[l]) /\ StreamOf(rules[l]) = d
    <2>1. \/ st[d] = stream[d]
          \/ /\ st[d] = ByteStream_end_input(stream[d])
             /\ \E l \in 1 .. k : Gone(rules[l]) /\ StreamOf(rules[l]) = d
      BY <1>14, Zenon DEF Setting
    <2>2. 1 .. k \subseteq 1 .. k + 1  BY <1>1
    <2> QED  BY <2>1, <2>2, Zenon
  <1>15. ASSUME NEW p  PROVE Has(s.rules, p) => Has(list, p)
    <2> SUFFICES ASSUME NEW i \in 1 .. Len(s.rules), s.rules[i] = p  PROVE Has(list, p)
      BY Zenon DEF Has
    <2>1. i \in 1 .. Len(list) /\ list[i] = p  BY <1>5, <1>9
    <2> QED  BY <2>1, Zenon DEF Has
  <1>16. Has(list, r)
    <2>1. Len(s.rules) + 1 \in 1 .. Len(list)  BY <1>5, <1>9
    <2> QED  BY <2>1, <1>5, Zenon DEF Has
  <1>17. ASSUME NEW l \in 1 .. k + 1  PROVE Settled(t, rules[l])
    <2>1. CASE l = k + 1
      <3>1. t.asked[r] = Asked(Direction(r), Interest(t.stream, shut, r))
        BY <1>6, <1>8, Zenon DEF ask
      <3> QED  BY <2>1, <3>1, <1>6, <1>16, Zenon DEF Settled
    <2>2. CASE l # k + 1
      <3> DEFINE p == rules[l]
      <3>1. l \in 1 .. k /\ l < k + 1 /\ l \in 1 .. Len(rules)  BY <2>2, <1>1
      <3>2. p \in Rules /\ p < r /\ r \in Int /\ p \in Int  BY <3>1, <1>1 DEF Increasing, Rules
      <3>3. Settled(s, p) /\ p # r  BY <3>1, <3>2 DEF Setting
      <3> HIDE DEF p
      <3>4. t.asked[p] = s.asked[p]  BY <3>2, <3>3, <1>8, Zenon
      <3>5. Settled(t, p)  BY <3>3, <3>4, <1>6, <1>15, Zenon DEF Settled
      <3> QED  BY <3>5 DEF p
    <2> QED  BY <2>1, <2>2
  <1>18. ASSUME NEW p \in Rules  PROVE t.asked[p] \subseteq {Direction(p)}
    <2>1. s.asked[p] \subseteq {Direction(p)}  BY <1>18, Zenon DEF Setting
    <2> QED  BY <2>1, <1>4, <1>8, Zenon
  <1>19. Increasing(t.rules)  BY <1>6, <1>12, Zenon
  <1>20. \A i \in 1 .. Len(t.rules) : \E l \in 1 .. k + 1 : t.rules[i] = rules[l]
    BY <1>6, <1>13, Zenon
  <1>21. \A d \in Directions :
           \/ t.stream[d] = stream[d]
           \/ /\ t.stream[d] = ByteStream_end_input(stream[d])
              /\ \E l \in 1 .. k + 1 : Gone(rules[l]) /\ StreamOf(rules[l]) = d
    BY <1>6, <1>14, Zenon
  <1> QED  BY <1>7, <1>17, <1>18, <1>19, <1>20, <1>21, Zenon DEF Setting

\* The loop has a state after each of its iterations.
LEMMA SetupRuns ==
    ASSUME NEW base, NEW list, Len(list) \in Nat
    PROVE  \E run : /\ run[0] = base
                    /\ \A k \in 1 .. Len(list) : run[k] = SetupRule(run[k - 1], list[k])
                    /\ run[Len(list)] = ForEach(SetupRule, base, list)
  <1> DEFINE n == Len(list)
             Body(g, m) == [k \in 0 .. m |-> IF k = 0 THEN base ELSE SetupRule(g[k - 1], list[k])]
             T == {m \in 0 .. n : \E g : g = Body(g, m)}
  <1>1. 0 \in T
    <2> DEFINE g == [k \in 0 .. 0 |-> base]
    <2>1. g = Body(g, 0)  OBVIOUS
    <2>2. 0 \in 0 .. n  OBVIOUS
    <2> HIDE DEF g, n
    <2> QED  BY <2>1, <2>2
  <1>2. ASSUME NEW m \in 0 .. n - 1, m \in T  PROVE m + 1 \in T
    <2>1. PICK g : g = Body(g, m)  BY <1>2
    <2> DEFINE v == SetupRule(g[m], list[m + 1])
               h == [k \in 0 .. m + 1 |-> IF k = m + 1 THEN v ELSE g[k]]
    <2>2. ASSUME NEW k \in 0 .. m + 1
          PROVE  h[k] = IF k = 0 THEN base ELSE SetupRule(h[k - 1], list[k])
      <3>1. CASE k = m + 1
        <4>1. m \in 0 .. m + 1 /\ m # m + 1 /\ k # 0 /\ k - 1 = m  BY <3>1
        <4>2. h[m] = g[m] /\ h[k] = v  BY <3>1, <4>1
        <4> HIDE DEF h
        <4> QED  BY <3>1, <4>1, <4>2
      <3>2. CASE k # m + 1
        <4>1. k \in 0 .. m /\ h[k] = g[k]  BY <3>2
        <4>2. g[k] = IF k = 0 THEN base ELSE SetupRule(g[k - 1], list[k])  BY <2>1, <4>1
        <4>3. k # 0 => k - 1 \in 0 .. m + 1 /\ k - 1 # m + 1  BY <4>1
        <4>4. k # 0 => h[k - 1] = g[k - 1]  BY <4>3
        <4> HIDE DEF h
        <4> QED  BY <4>1, <4>2, <4>4
      <3> QED  BY <3>1, <3>2
    <2>3. h = Body(h, m + 1)
      <3>1. h = [k \in 0 .. m + 1 |-> h[k]]  OBVIOUS
      <3> HIDE DEF h
      <3> QED  BY <2>2, <3>1
    <2> HIDE DEF h
    <2> QED  BY <2>3
  <1>3. n \in T
    <2> HIDE DEF T, n
    <2>1. n \in Nat /\ n \in 0 .. n  BY DEF n
    <2>2. \A m \in 0 .. n - 1 : m \in T => m + 1 \in T  BY <1>2
    <2> QED  BY ONLY <1>1, <2>1, <2>2, Induction, SMTT(30)
  <1> DEFINE run == CHOOSE g : g = Body(g, n)
  <1>4. run = Body(run, n)  
    <2>1. \E g : g = Body(g, n)  BY <1>3
    <2> HIDE DEF n
    <2> QED  BY <2>1, Zenon
  <1>5. run[n] = ForEach(SetupRule, base, list)
    BY Zenon DEF ForEach
  <1> HIDE DEF run
  <1>6. run[0] = base  BY <1>4
  <1>7. ASSUME NEW k \in 1 .. n  PROVE run[k] = SetupRule(run[k - 1], list[k])
    BY <1>4
  <1> QED  BY <1>5, <1>6, <1>7, Zenon

Start == [rules |-> <<>>, stream |-> stream, asked |-> NoEvents]

\* The whole loop.
LEMMA SetupLoop ==
    ASSUME Prepared, NEW s, s = ForEach(SetupRule, Start, rules)
    PROVE  Setting(s, Len(rules))
  <1> DEFINE n == Len(rules)
  <1>1. rules \in Seq(Rules) /\ n \in Nat /\ stream \in [Directions -> StreamType(Nat)]
    BY DEF Prepared, TypeInv
  <1>2. PICK run : /\ run[0] = Start
                   /\ \A k \in 1 .. Len(rules) : run[k] = SetupRule(run[k - 1], rules[k])
                   /\ run[Len(rules)] = ForEach(SetupRule, Start, rules)
    BY ONLY <1>1, SetupRuns, Zenon
  <1> DEFINE T == {k \in 0 .. n : Setting(run[k], k)}
  <1>3. 0 \in T
    <2>1. /\ Start.rules = <<>> /\ Start.stream = stream /\ Start.asked = NoEvents
          /\ Start \in [rules : Seq(Rules), stream : [Directions -> StreamType(Nat)],
                        asked : [Rules -> SUBSET Events]]
      BY <1>1 DEF Start, NoEvents
    <2>2. \A i \in 1 .. Len(<<>>) : FALSE  OBVIOUS
    <2>3. \A l \in 1 .. 0 : FALSE  OBVIOUS
    <2>4. Increasing(<<>>)  BY <2>2 DEF Increasing
    <2>5. \A r \in Rules : NoEvents[r] \subseteq {Direction(r)}  BY DEF NoEvents
    <2>6. Setting(Start, 0)
      BY <2>1, <2>2, <2>3, <2>4, <2>5, Zenon DEF Setting
    <2> QED  BY <2>6, <1>1, <1>2
  <1>4. ASSUME NEW k \in 0 .. n - 1, k \in T  PROVE k + 1 \in T
    <2> DEFINE r == rules[k + 1]
               t == run[k + 1]
    <2>1. Setting(run[k], k) /\ k \in 0 .. Len(rules) - 1  BY <1>4
    <2>2. t = SetupRule(run[k], r)
      <3>1. k + 1 \in 1 .. n /\ (k + 1) - 1 = k  BY <1>1
      <3> QED  BY <3>1, <1>2
    <2> HIDE DEF t, r
    <2>3. r = rules[k + 1]  BY DEF r
    <2>4. CASE Gone(r)  
      <3>1. Setting(t, k + 1)  BY ONLY <2>1, <2>2, <2>3, <2>4, Prepared, GoneRule, ZenonT(60)
      <3> QED  BY <3>1, <1>1 DEF t
    <2>5. CASE ~Gone(r)
      <3>1. Setting(t, k + 1)  BY ONLY <2>1, <2>2, <2>3, <2>5, Prepared, LiveRule, ZenonT(60)
      <3> QED  BY <3>1, <1>1 DEF t
    <2> QED  BY <2>4, <2>5
  <1> HIDE DEF T, n
  <1>5. \A k \in 0 .. n : k \in T
    BY ONLY <1>1, <1>3, <1>4, Induction, SMTT(30)
  <1>6. n \in T  BY <1>1, <1>5
  <1>7. Setting(run[n], n)  BY <1>6 DEF T
  <1>8. s = run[n]  BY <1>2, Zenon DEF n
  <1> QED  BY <1>7, <1>8, Zenon DEF n

-----------------------------------------------------------------------------
(***************************************************************************)
(* The parties around the loop.                                            *)
(***************************************************************************)

\* Updates of a queue in the kernel.
LEMMA NowEnded ==
    ASSUME NEW k, k \in Queues, NEW t, t = [k EXCEPT !.ended = TRUE]
    PROVE  t \in Queues /\ t.q = k.q /\ t.n = k.n /\ t.ended = TRUE /\ t.gone = k.gone
  <1>1. t \in Queues  BY Zenon DEF Queues
  <1> QED  BY <1>1, Zenon DEF Queues

LEMMA NowGone ==
    ASSUME NEW k, k \in Queues, NEW t, t = [k EXCEPT !.gone = TRUE]
    PROVE  t \in Queues /\ t.q = k.q /\ t.n = k.n /\ t.ended = k.ended
  <1>1. t \in Queues  BY Zenon DEF Queues
  <1> QED  BY <1>1, Zenon DEF Queues

\* Where the loop and its flags are not touched, Control is kept.
LEMMA ControlKept ==
    ASSUME Control, UNCHANGED <<pc, local>>,
           \A d \in Directions : /\ Drained(d) => Drained(d)'
                                 /\ sink'[d].gone = sink[d].gone
                                 /\ sink'[d].ended = sink[d].ended
    PROVE  Control'
  <1>1. /\ pc' = pc /\ rules' = rules /\ asked' = asked /\ revents' = revents /\ fd' = fd
        /\ stream' = stream /\ shut' = shut
    BY DEF local
  <1>2. \A d \in Directions : DirectionOK(d)
    BY Zenon DEF Control
  <1>3. ASSUME NEW d \in Directions  PROVE DirectionOK(d)'
    <2>1. DirectionOK(d) /\ (Drained(d) => Drained(d)')  BY <1>2
    <2>2. sink'[d].gone = sink[d].gone /\ sink'[d].ended = sink[d].ended  OBVIOUS
    <2> QED  BY <2>1, <2>2, <1>1, Zenon DEF DirectionOK
  <1>4. RulesOK /\ FdsOK /\ AskedOK /\ CancelOnlyInput /\ Finished  BY Zenon DEF Control
  <1>5. RulesOK'  BY <1>1, <1>4, Zenon DEF RulesOK
  <1>6. "outbound" \in Directions /\ "inbound" \in Directions  BY DEF Directions
  <1>7. (Drained("outbound") => Drained("outbound")') /\ (Drained("inbound") => Drained("inbound")')
    BY <1>6, Zenon
  <1>8. FdsOK'  BY <1>1, <1>4, <1>7, Zenon DEF FdsOK
  <1>9. AskedOK'  BY <1>1, <1>4, Zenon DEF AskedOK
  <1>10. CancelOnlyInput'  BY <1>1, <1>4, <1>7, Zenon DEF CancelOnlyInput, VerdictOn
  <1>11. Finished'  BY <1>1, <1>4, Zenon DEF Finished
  <1> QED  BY <1>3, <1>5, <1>8, <1>9, <1>10, <1>11, Zenon DEF Control

\* The parts of the state that such a step leaves alone.
LEMMA LocalKept ==
    ASSUME TypeInv, Increasing(rules), UNCHANGED <<pc, local>>,
           source' \in [Directions -> Queues], sink' \in [Directions -> Queues],
           got' \in [Directions -> Seq(Nat)], faults' \in Nat
    PROVE  TypeInv' /\ Increasing(rules)'
  BY Zenon DEF TypeInv, local, Increasing

LEMMA ProduceOK ==
    ASSUME IInv, NEW d \in Directions, Produce(d)
    PROVE  IInv'
  <1>1. TypeInv /\ Increasing(rules) /\ (\A e \in Directions : FlowOK(e)) /\ (faults = 0 => Control)
    BY Zenon DEF IInv
  <1> DEFINE s == source[d]
             new == [s EXCEPT !.q = Append(@, s.n), !.n = @ + 1]
  <1>2. /\ source \in [Directions -> Queues] /\ s \in Queues /\ s.q \in Seq(Nat) /\ s.n \in Nat
        /\ sink \in [Directions -> Queues] /\ got \in [Directions -> Seq(Nat)] /\ faults \in Nat
    BY <1>1 DEF TypeInv, Queues
  <1>3. /\ UNCHANGED <<pc, local>> /\ UNCHANGED <<sink, got, faults>> /\ ~s.ended
        /\ source' = [source EXCEPT ![d] = new]
    BY Zenon DEF Produce
  <1>4. new \in Queues /\ new.q = Append(s.q, s.n) /\ new.n = s.n + 1
    <2>1. Append(s.q, s.n) \in Seq(Nat) /\ s.n + 1 \in Nat  BY <1>2
    <2> DEFINE q == Append(s.q, s.n)
               n == s.n + 1
    <2>2. new = [s EXCEPT !.q = q, !.n = n]  OBVIOUS
    <2> HIDE DEF new, q, n, s
    <2>3. s \in Queues /\ q \in Seq(Nat) /\ n \in Nat  BY <1>2, <2>1, Zenon DEF q, n, s
    <2>4. new \in Queues /\ new.q = q /\ new.n = n
      <3>1. new \in Queues  BY ONLY <2>2, <2>3, Zenon DEF Queues
      <3> QED  BY ONLY <2>2, <2>3, <3>1, Zenon DEF Queues
    <2> QED  BY <2>4, Zenon DEF q, n
  <1> HIDE DEF new
  <1>5. source' \in [Directions -> Queues]  BY <1>2, <1>3, <1>4, Zenon
  <1>6. source'[d] = new /\ \A e \in Directions : e # d => source'[e] = source[e]
    BY <1>2, <1>3
  <1>7. TypeInv' /\ Increasing(rules)'
    BY <1>1, <1>2, <1>3, <1>5, LocalKept, Zenon
  <1>8. ASSUME NEW e \in Directions  PROVE FlowOK(e)'
    <2>1. FlowOK(e) /\ stream' = stream /\ sink' = sink /\ got' = got  BY <1>1, <1>3 DEF local
    <2>2. CASE e # d  BY <2>1, <2>2, <1>6, Zenon DEF FlowOK
    <2>3. CASE e = d
      <3>1. Flow(got[d], sink[d].q, stream[d].str, s.q, s.n)  BY <2>1, <2>3, Zenon DEF FlowOK
      <3>2. Flow(got[d], sink[d].q, stream[d].str, Append(s.q, s.n), s.n + 1)
        BY ONLY <1>2, <3>1, FlowProduce, Zenon
      <3> QED  BY <2>1, <2>3, <3>2, <1>4, <1>6, Zenon DEF FlowOK
    <2> QED  BY <2>2, <2>3
  <1>9. ASSUME faults' = 0  PROVE Control'
    <2>1. Control  BY <1>1, <1>3, <1>9
    <2>2. ASSUME NEW e \in Directions
          PROVE  /\ Drained(e) => Drained(e)'
                 /\ sink'[e].gone = sink[e].gone /\ sink'[e].ended = sink[e].ended
      BY <1>3, <1>6, Zenon DEF Drained
    <2> QED  BY <2>1, <2>2, <1>3, ControlKept, Zenon
  <1> QED  BY <1>7, <1>8, <1>9, Zenon DEF IInv

LEMMA EndOK ==
    ASSUME IInv, NEW d \in Directions, End(d)
    PROVE  IInv'
  <1>1. TypeInv /\ Increasing(rules) /\ (\A e \in Directions : FlowOK(e)) /\ (faults = 0 => Control)
    BY Zenon DEF IInv
  <1> DEFINE s == source[d]
             new == [s EXCEPT !.ended = TRUE]
  <1>2. /\ source \in [Directions -> Queues] /\ s \in Queues
        /\ sink \in [Directions -> Queues] /\ got \in [Directions -> Seq(Nat)] /\ faults \in Nat
    BY <1>1 DEF TypeInv
  <1>3. /\ UNCHANGED <<pc, local>> /\ UNCHANGED <<sink, got, faults>>
        /\ source' = [source EXCEPT ![d] = new]
    BY Zenon DEF End
  <1>4. new \in Queues /\ new.q = s.q /\ new.n = s.n /\ new.ended = TRUE
    BY ONLY <1>2, NowEnded, Zenon
  <1> HIDE DEF new
  <1>5. source' \in [Directions -> Queues]  BY <1>2, <1>3, <1>4, Zenon
  <1>6. source'[d] = new /\ \A e \in Directions : e # d => source'[e] = source[e]
    BY <1>2, <1>3
  <1>7. TypeInv' /\ Increasing(rules)'
    BY <1>1, <1>2, <1>3, <1>5, LocalKept, Zenon
  <1>8. ASSUME NEW e \in Directions  PROVE FlowOK(e)'
    <2>1. FlowOK(e) /\ stream' = stream /\ sink' = sink /\ got' = got  BY <1>1, <1>3 DEF local
    <2>2. source'[e].q = source[e].q /\ source'[e].n = source[e].n
      BY <1>4, <1>6, Zenon
    <2> QED  BY <2>1, <2>2, Zenon DEF FlowOK
  <1>9. ASSUME faults' = 0  PROVE Control'
    <2>1. Control  BY <1>1, <1>3, <1>9
    <2>2. ASSUME NEW e \in Directions
          PROVE  /\ Drained(e) => Drained(e)'
                 /\ sink'[e].gone = sink[e].gone /\ sink'[e].ended = sink[e].ended
      BY <1>3, <1>4, <1>6, Zenon DEF Drained
    <2> QED  BY <2>1, <2>2, <1>3, ControlKept, Zenon
  <1> QED  BY <1>7, <1>8, <1>9, Zenon DEF IInv

LEMMA ConsumeOK ==
    ASSUME IInv, NEW d \in Directions, Consume(d)
    PROVE  IInv'
  <1>1. TypeInv /\ Increasing(rules) /\ (\A e \in Directions : FlowOK(e)) /\ (faults = 0 => Control)
    BY Zenon DEF IInv
  <1> DEFINE k == sink[d]
             new == [k EXCEPT !.q = Tail(@)]
             mine == Append(got[d], Head(k.q))
  <1>2. /\ source \in [Directions -> Queues] /\ k \in Queues /\ k.q \in Seq(Nat)
        /\ sink \in [Directions -> Queues] /\ got \in [Directions -> Seq(Nat)] /\ faults \in Nat
        /\ got[d] \in Seq(Nat) /\ source[d].n \in Nat
    BY <1>1 DEF TypeInv, Queues
  <1>3. /\ UNCHANGED <<pc, local>> /\ UNCHANGED <<source, faults>> /\ k.q # <<>>
        /\ sink' = [sink EXCEPT ![d] = new] /\ got' = [got EXCEPT ![d] = mine]
    BY Zenon DEF Consume
  <1>4. new \in Queues /\ new.q = Tail(k.q) /\ new.gone = k.gone /\ new.ended = k.ended
    <2>1. Tail(k.q) \in Seq(Nat)  BY <1>2, <1>3
    <2> DEFINE q == Tail(k.q)
    <2>2. new = [k EXCEPT !.q = q]  OBVIOUS
    <2> HIDE DEF new, q, k
    <2>3. k \in Queues /\ q \in Seq(Nat)  BY <1>2, <2>1, Zenon DEF q, k
    <2>4. new \in Queues /\ new.q = q /\ new.gone = k.gone /\ new.ended = k.ended
      <3>1. new \in Queues  BY ONLY <2>2, <2>3, Zenon DEF Queues
      <3> QED  BY ONLY <2>2, <2>3, <3>1, Zenon DEF Queues
    <2> QED  BY <2>4, Zenon DEF q
  <1>5. mine \in Seq(Nat)  BY <1>2, <1>3
  <1> HIDE DEF new
  <1>6. sink' \in [Directions -> Queues]  BY <1>2, <1>3, <1>4, Zenon
  <1>7. sink'[d] = new /\ \A e \in Directions : e # d => sink'[e] = sink[e]
    BY <1>2, <1>3
  <1>8. got' \in [Directions -> Seq(Nat)]  BY <1>2, <1>3, <1>5, Zenon
  <1>9. got'[d] = mine /\ \A e \in Directions : e # d => got'[e] = got[e]
    BY <1>2, <1>3
  <1>10. TypeInv' /\ Increasing(rules)'
    BY <1>1, <1>2, <1>3, <1>6, <1>8, LocalKept, Zenon
  <1>11. ASSUME NEW e \in Directions  PROVE FlowOK(e)'
    <2>1. FlowOK(e) /\ stream' = stream /\ source' = source  BY <1>1, <1>3 DEF local
    <2>2. CASE e # d  BY <2>1, <2>2, <1>7, <1>9, Zenon DEF FlowOK
    <2>3. CASE e = d
      <3>1. Flow(got[d], k.q, stream[d].str, source[d].q, source[d].n)
        BY <2>1, <2>3, Zenon DEF FlowOK
      <3>2. Flow(mine, Tail(k.q), stream[d].str, source[d].q, source[d].n)
        BY ONLY <1>2, <1>3, <3>1, FlowConsume, Zenon
      <3> QED  BY <2>1, <2>3, <3>2, <1>4, <1>7, <1>9, Zenon DEF FlowOK
    <2> QED  BY <2>2, <2>3
  <1>12. ASSUME faults' = 0  PROVE Control'
    <2>1. Control  BY <1>1, <1>3, <1>12
    <2>2. ASSUME NEW e \in Directions
          PROVE  /\ Drained(e) => Drained(e)'
                 /\ sink'[e].gone = sink[e].gone /\ sink'[e].ended = sink[e].ended
      BY <1>3, <1>4, <1>7, Zenon DEF Drained
    <2> QED  BY <2>1, <2>2, <1>3, ControlKept, Zenon
  <1> QED  BY <1>10, <1>11, <1>12, Zenon DEF IInv

LEMMA LeaveOK ==
    ASSUME IInv, NEW d \in Directions, Leave(d)
    PROVE  IInv'
  <1>1. TypeInv /\ Increasing(rules) /\ (\A e \in Directions : FlowOK(e))
    BY Zenon DEF IInv
  <1> DEFINE new == [sink[d] EXCEPT !.gone = TRUE]
             src == [source["inbound"] EXCEPT !.ended = TRUE]
  <1>2. /\ source \in [Directions -> Queues] /\ sink \in [Directions -> Queues]
        /\ got \in [Directions -> Seq(Nat)] /\ faults \in Nat
        /\ sink[d] \in Queues /\ source["inbound"] \in Queues /\ "inbound" \in Directions
    BY <1>1, RuleTable DEF TypeInv
  <1>3. /\ UNCHANGED <<pc, local>> /\ UNCHANGED got /\ faults' = faults + 1
        /\ sink' = [sink EXCEPT ![d] = new]
        /\ source' = source \/ source' = [source EXCEPT !["inbound"] = src]
    BY Zenon DEF Leave
  <1>4. new \in Queues /\ new.q = sink[d].q  BY ONLY <1>2, NowGone, Zenon
  <1>5. src \in Queues /\ src.q = source["inbound"].q /\ src.n = source["inbound"].n
    BY ONLY <1>2, NowEnded, Zenon
  <1> HIDE DEF new, src
  <1>6. sink' \in [Directions -> Queues] /\ source' \in [Directions -> Queues]
    BY <1>2, <1>3, <1>4, <1>5, Zenon
  <1>7. \A e \in Directions : sink'[e].q = sink[e].q
    BY <1>2, <1>3, <1>4
  <1>8. \A e \in Directions : source'[e].q = source[e].q /\ source'[e].n = source[e].n
    <2>1. CASE source' = source  BY <2>1
    <2>2. CASE source' = [source EXCEPT !["inbound"] = src]  BY <2>2, <1>2, <1>5
    <2> QED  BY <1>3, <2>1, <2>2
  <1>9. faults' \in Nat /\ faults' # 0  BY <1>2, <1>3
  <1>10. TypeInv' /\ Increasing(rules)'
    BY <1>1, <1>2, <1>3, <1>6, <1>9, LocalKept, Zenon
  <1>11. ASSUME NEW e \in Directions  PROVE FlowOK(e)'
    <2>1. FlowOK(e) /\ stream' = stream /\ got' = got  BY <1>1, <1>3 DEF local
    <2> QED  BY <2>1, <1>7, <1>8, Zenon DEF FlowOK
  <1> QED  BY <1>9, <1>10, <1>11, Zenon DEF IInv

-----------------------------------------------------------------------------
(***************************************************************************)
(* The steps of the loop that move no byte.                                *)
(***************************************************************************)
LEMMA FlowKept ==
    ASSUME \A d \in Directions : FlowOK(d), UNCHANGED <<stream, source, sink, got>>
    PROVE  \A d \in Directions : FlowOK(d)'
  BY Zenon DEF FlowOK

LEMMA PlacesKept ==
    ASSUME Control, UNCHANGED <<rules, fd, stream, shut, source, sink>>,
           AskedOK', CancelOnlyInput', Finished'
    PROVE  Control'
  <1>1. (\A d \in Directions : DirectionOK(d)) /\ RulesOK /\ FdsOK  BY Zenon DEF Control
  <1>2. \A d \in Directions : DirectionOK(d)'  BY <1>1, Zenon DEF DirectionOK, Drained
  <1>3. RulesOK'  BY <1>1, Zenon DEF RulesOK
  <1>4. FdsOK'  BY <1>1, Zenon DEF FdsOK, Drained
  <1> QED  BY <1>2, <1>3, <1>4, Zenon DEF Control

LEMMA PassEndsOK ==
    ASSUME IInv, PassEnds
    PROVE  IInv'
  <1>1. /\ TypeInv /\ Increasing(rules) /\ (\A e \in Directions : FlowOK(e))
        /\ (faults = 0 => Control)
    BY Zenon DEF IInv
  <1>2. /\ pc' = "setup" /\ asked' = NoEvents /\ revents' = NoEvents
        /\ UNCHANGED <<rules, pos, fd, stream, shut, source, sink, got, faults>>
    BY DEF PassEnds, kernel
  <1>3. NoEvents \in [Rules -> SUBSET Events] /\ \A r \in Rules : NoEvents[r] = {}
    BY DEF NoEvents
  <1>4. TypeInv' /\ Increasing(rules)'  BY <1>1, <1>2, <1>3, Zenon DEF TypeInv, Increasing
  <1>5. \A d \in Directions : FlowOK(d)'  BY <1>1, <1>2, FlowKept, Zenon
  <1>6. ASSUME faults' = 0  PROVE Control'
    <2>1. Control  BY <1>1, <1>2, <1>6
    <2>2. AskedOK' /\ CancelOnlyInput' /\ Finished'
      BY <1>2, <1>3 DEF AskedOK, CancelOnlyInput, Finished
    <2> QED  BY <2>1, <2>2, <1>2, PlacesKept, Zenon
  <1> QED  BY <1>4, <1>5, <1>6, Zenon DEF IInv

LEMMA RuleSkippedOK ==
    ASSUME IInv, NEW r, RuleSkipped(r)
    PROVE  IInv'
  <1>1. /\ TypeInv /\ Increasing(rules) /\ (\A e \in Directions : FlowOK(e))
        /\ (faults = 0 => Control)
    BY Zenon DEF IInv
  <1>2. /\ pos' = pos + 1
        /\ UNCHANGED <<pc, rules, asked, revents, fd, stream, shut, source, sink, got, faults>>
    BY DEF RuleSkipped, kernel
  <1>3. pos' \in Nat \ {0}  BY <1>1, <1>2 DEF TypeInv
  <1>4. TypeInv' /\ Increasing(rules)'  BY <1>1, <1>2, <1>3, Zenon DEF TypeInv, Increasing
  <1>5. \A d \in Directions : FlowOK(d)'  BY <1>1, <1>2, FlowKept, Zenon
  <1>6. ASSUME faults' = 0  PROVE Control'
    <2>1. Control  BY <1>1, <1>2, <1>6
    <2>2. AskedOK'  BY <2>1, <1>2, Zenon DEF Control, AskedOK, Empties
    <2>3. CancelOnlyInput'  BY <2>1, <1>2, Zenon DEF Control, CancelOnlyInput, VerdictOn, Drained
    <2>4. Finished'  BY <2>1, <1>2, Zenon DEF Control, Finished, Drained
    <2> QED  BY <2>1, <2>2, <2>3, <2>4, <1>2, PlacesKept, Zenon
  <1> QED  BY <1>4, <1>5, <1>6, Zenon DEF IInv

LEMMA RuleThrowsOK ==
    ASSUME IInv, NEW r, RuleThrows(r)
    PROVE  IInv'
  <1>1. /\ TypeInv /\ Increasing(rules) /\ (\A e \in Directions : FlowOK(e))
        /\ (faults = 0 => Control)
    BY Zenon DEF IInv
  <1>2. /\ pc' = "thrown"
        /\ UNCHANGED <<pos, rules, asked, revents, fd, stream, shut, source, sink, got, faults>>
    BY DEF RuleThrows, kernel, local
  <1>4. TypeInv' /\ Increasing(rules)'  BY <1>1, <1>2, Zenon DEF TypeInv, Increasing
  <1>5. \A d \in Directions : FlowOK(d)'  BY <1>1, <1>2, FlowKept, Zenon
  <1>6. ASSUME faults' = 0  PROVE Control'
    <2>1. Control  BY <1>1, <1>2, <1>6
    <2>2. \A e \in Rules : asked[e] \subseteq {Direction(e)}  BY <2>1, Zenon DEF Control, AskedOK
    <2>3. AskedOK' /\ CancelOnlyInput' /\ Finished'
      BY <1>2, <2>2 DEF AskedOK, CancelOnlyInput, Finished
    <2> QED  BY <2>1, <2>3, <1>2, PlacesKept, Zenon
  <1> QED  BY <1>4, <1>5, <1>6, Zenon DEF IInv

\* After a signal, or an error that poll(2) should not have, only the bytes
\* are accounted for.
LEMMA PollFaultOK ==
    ASSUME IInv, Interrupted \/ PollFails
    PROVE  IInv'
  <1>1. TypeInv /\ Increasing(rules) /\ (\A e \in Directions : FlowOK(e))
    BY Zenon DEF IInv
  <1>2. /\ pc' \in {"exit", "rules"} /\ pos' \in {1, pos} /\ faults' = faults + 1
        /\ UNCHANGED <<rules, asked, revents, fd, stream, shut, source, sink, got>>
    BY DEF Interrupted, PollFails, local
  <1>3. pos' \in Nat \ {0} /\ faults' \in Nat /\ faults' # 0  BY <1>1, <1>2 DEF TypeInv
  <1>4. pc' \in {"setup", "poll", "rules", "exit", "thrown"}  BY <1>2
  <1>5. TypeInv' /\ Increasing(rules)'
    BY <1>1, <1>2, <1>3, <1>4, Zenon DEF TypeInv, Increasing
  <1>6. \A d \in Directions : FlowOK(d)'  BY <1>1, <1>2, FlowKept, Zenon
  <1> QED  BY <1>3, <1>5, <1>6, Zenon DEF IInv

-----------------------------------------------------------------------------
(***************************************************************************)
(* poll(2), and the rule it cancels.                                       *)
(***************************************************************************)
LEMMA CancelMeans ==
    ASSUME NEW a, NEW v, Verdict(a, v) = "cancel"
    PROVE  Hup \in v /\ a # {} /\ v \cap a = {}
  BY DEF Verdict

\* A hangup alone is never reported for the socket: the loop asks to write
\* only while it has not shut the socket down, and a peer that is done with
\* its own stream leaves the socket readable.
LEMMA HangupAlone ==
    ASSUME Control, pc = "poll", NEW r \in Rules, Hup \in Reported(r),
           Direction(r) \notin Reported(r), asked[r] # {}
    PROVE  r = 1 /\ Drained("outbound")
  <1>1. In # Out /\ In # Hup /\ Out # Hup /\ Err # Hup /\ Err # Out  BY DEF In, Out, Hup, Err
  <1>2. CASE r = 1
    <2>1. FdOf(r) = "input" /\ Direction(r) = In  BY <1>2, RuleTable
    <2> QED  BY <1>1, <1>2, <2>1 DEF Reported, If, Drained
  <1>3. CASE r = 2
    <2>1. FdOf(r) = "socket" /\ Direction(r) = Out  BY <1>3, RuleTable
    <2>2. sink["outbound"].ended \/ sink["outbound"].gone  BY <1>1, <2>1 DEF Reported, If
    <2>3. DirectionOK("outbound")  BY RuleTable, Zenon DEF Control
    <2>4. shut["outbound"] /\ ByteStream_eof(stream["outbound"])  BY <2>2, <2>3, Zenon DEF DirectionOK
    <2>5. Empties(stream, shut, "outbound")  BY <1>3, Zenon DEF Control, AskedOK
    <2> QED  BY <2>4, <2>5, Zenon DEF Empties, ByteStream_eof
  <1>4. CASE r = 3
    <2>1. FdOf(r) = "socket" /\ Direction(r) = In  BY <1>4, RuleTable
    <2> QED  BY <1>1, <2>1 DEF Reported, If
  <1>5. CASE r = 4
    <2>1. FdOf(r) = "output" /\ Direction(r) = Out  BY <1>5, RuleTable
    <2> QED  BY <1>1, <2>1 DEF Reported, If
  <1> QED  BY <1>2, <1>3, <1>4, <1>5, RuleTable

LEMMA PollOK ==
    ASSUME IInv, Poll
    PROVE  IInv'
  <1>1. /\ TypeInv /\ Increasing(rules) /\ (\A e \in Directions : FlowOK(e))
        /\ (faults = 0 => Control)
    BY Zenon DEF IInv
  <1>2. /\ pc = "poll" /\ pc' = "rules" /\ revents' = Ready /\ pos' = 1
        /\ UNCHANGED <<rules, asked, fd, stream, shut, source, sink, got, faults>>
    BY DEF Poll, kernel
  <1>3. Ready \in [Rules -> SUBSET Events]
    <2>1. ASSUME NEW r \in Rules
          PROVE  (IF Has(rules, r) THEN Reported(r) \cap (asked[r] \cup {Hup, Err}) ELSE {})
                   \in SUBSET Events
      <3>1. asked[r] \in SUBSET Events /\ Hup \in Events /\ Err \in Events
        BY <1>1 DEF TypeInv, Events
      <3> QED  BY <3>1
    <2> QED  BY <2>1, Zenon DEF Ready
  <1>4. pos' \in Nat \ {0}  BY <1>2
  <1>5. TypeInv' /\ Increasing(rules)'  BY <1>1, <1>2, <1>3, <1>4, Zenon DEF TypeInv, Increasing
  <1>6. \A d \in Directions : FlowOK(d)'  BY <1>1, <1>2, FlowKept, Zenon
  <1>7. ASSUME faults' = 0  PROVE Control'
    <2>1. Control  BY <1>1, <1>2, <1>7
    <2>2. \A r \in Rules : asked[r] \subseteq {Direction(r)}  BY <2>1, Zenon DEF Control, AskedOK
    <2>3. AskedOK' /\ Finished'  BY <1>2, <2>2 DEF AskedOK, Finished
    <2>4. ASSUME NEW r \in Rules, VerdictOn(r)' = "cancel"  PROVE r = 1 /\ Drained("outbound")'
      <3>1. Verdict(asked[r], Ready[r]) = "cancel"  BY <2>4, <1>2, Zenon DEF VerdictOn
      <3>2. Hup \in Ready[r] /\ asked[r] # {} /\ Ready[r] \cap asked[r] = {}
        BY ONLY <3>1, CancelMeans, Zenon
      <3>3. Ready[r] = Reported(r) \cap (asked[r] \cup {Hup, Err})
        <4>1. Ready[r] = IF Has(rules, r) THEN Reported(r) \cap (asked[r] \cup {Hup, Err}) ELSE {}
          BY Zenon DEF Ready
        <4> QED  BY <4>1, <3>2, Zenon
      <3>4. Direction(r) \in asked[r]  BY <2>2, <3>2
      <3>5. Hup \in Reported(r) /\ Direction(r) \notin Reported(r)  BY <3>2, <3>3, <3>4
      <3>6. r = 1 /\ Drained("outbound")  BY <2>1, <1>2, <3>2, <3>5, HangupAlone, Zenon
      <3> QED  BY <3>6, <1>2, Zenon DEF Drained
    <2>5. CancelOnlyInput'  BY <2>4, Zenon DEF CancelOnlyInput
    <2> QED  BY <2>1, <2>3, <2>5, <1>2, PlacesKept, Zenon
  <1> QED  BY <1>5, <1>6, <1>7, Zenon DEF IInv

\* Some streams end: their bytes stay.
MayEnd ==
    /\ UNCHANGED <<source, sink, got, shut>>
    /\ \A d \in Directions :
           stream'[d] = stream[d] \/ stream'[d] = ByteStream_end_input(stream[d])

LEMMA EndingKeeps ==
    ASSUME NEW d \in Directions, FlowOK(d), MayEnd
    PROVE  /\ FlowOK(d)' /\ stream'[d].str = stream[d].str /\ stream'[d].cur_cap = stream[d].cur_cap
           /\ stream[d].input_is_end => stream'[d].input_is_end
  <1>1. BufferOK(stream[d]) /\ Flow(got[d], sink[d].q, stream[d].str, source[d].q, source[d].n)
    BY Zenon DEF FlowOK
  <1>2. BufferOK(stream'[d]) /\ stream'[d].str = stream[d].str /\ stream'[d].cur_cap = stream[d].cur_cap
        /\ (stream[d].input_is_end => stream'[d].input_is_end)
    <2>1. CASE stream'[d] = stream[d]  BY <1>1, <2>1, Zenon
    <2>2. CASE stream'[d] = ByteStream_end_input(stream[d])
      BY <1>1, <2>2, EndedBuffer, Zenon
    <2> QED  BY <2>1, <2>2, Zenon DEF MayEnd
  <1>3. FlowOK(d)'  BY <1>1, <1>2, Zenon DEF FlowOK, MayEnd
  <1> QED  BY <1>2, <1>3

LEMMA EndingDirection ==
    ASSUME NEW d \in Directions, FlowOK(d), DirectionOK(d), MayEnd,
           stream'[d].input_is_end => Drained(d)
    PROVE  DirectionOK(d)'
  <1>1. /\ stream'[d].cur_cap = stream[d].cur_cap
        /\ (stream[d].input_is_end => stream'[d].input_is_end)
    BY EndingKeeps, Zenon
  <1>2. ByteStream_eof(stream[d]) => ByteStream_eof(stream'[d])
    BY <1>1, Zenon DEF ByteStream_eof, ByteStream_input_ended, ByteStream_buffer_empty, ByteStream_buffer_size
  <1> QED  BY <1>2, Zenon DEF DirectionOK, MayEnd, Drained

LEMMA RemoveOK ==
    ASSUME NEW s \in Seq(Rules), Increasing(s), NEW p \in 1 .. Len(s), NEW t, t = Erased(s, p)
    PROVE  /\ t \in Seq(Rules) /\ Increasing(t)
           /\ \A r : Has(s, r) /\ r # s[p] => Has(t, r)
  <1>1. t = SubSeq(s, 1, p - 1) \o SubSeq(s, p + 1, Len(s))  BY Zenon DEF Erased
  <1>2. /\ t \in Seq(Rules) /\ Len(t) = Len(s) - 1
        /\ \A i \in 1 .. Len(t) : t[i] = IF i < p THEN s[i] ELSE s[i + 1]
    <2> DEFINE a == SubSeq(s, 1, p - 1)
               b == SubSeq(s, p + 1, Len(s))
    <2>1. a \in Seq(Rules) /\ Len(a) = p - 1 /\ \A i \in 1 .. p - 1 : a[i] = s[i]  OBVIOUS
    <2>2. /\ b \in Seq(Rules) /\ Len(b) = Len(s) - p
          /\ \A i \in 1 .. Len(s) - p : b[i] = s[i + p]
      OBVIOUS
    <2> HIDE DEF a, b
    <2>0. t = a \o b  BY <1>1, Zenon DEF a, b
    <2>3. t \in Seq(Rules) /\ Len(t) = Len(s) - 1
      <3>1. a \in Seq(Rules) /\ b \in Seq(Rules)  BY <2>1, <2>2
      <3>2. t \in Seq(Rules) /\ Len(t) = Len(a) + Len(b)  BY ONLY <2>0, <3>1
      <3>3. Len(a) + Len(b) = Len(s) - 1  BY <2>1, <2>2
      <3> QED  BY <3>2, <3>3, Zenon
    <2>4. \A i \in 1 .. Len(a) + Len(b) : (a \o b)[i] = IF i <= Len(a) THEN a[i] ELSE b[i - Len(a)]
      BY <2>1, <2>2
    <2>6. ASSUME NEW i \in 1 .. Len(t)  PROVE t[i] = IF i < p THEN s[i] ELSE s[i + 1]
      <3>1. i \in 1 .. Len(a) + Len(b)  BY <2>1, <2>2, <2>3
      <3>2. t[i] = IF i <= Len(a) THEN a[i] ELSE b[i - Len(a)]  BY <2>4, <2>0, <3>1, Zenon
      <3>3. CASE i < p  BY <3>2, <3>3, <2>1
      <3>4. CASE i >= p
        <4>1. i - Len(a) \in 1 .. Len(s) - p /\ (i - Len(a)) + p = i + 1  BY <2>1, <2>3, <3>4
        <4>2. b[i - Len(a)] = s[i + 1]  BY <4>1, <2>2, Zenon
        <4> QED  BY <3>2, <3>4, <4>2, <2>1
      <3> QED  BY <3>3, <3>4
    <2> QED  BY <2>3, <2>6
  <1>3. Increasing(t)
    <2>1. ASSUME NEW i \in 1 .. Len(t), NEW j \in 1 .. Len(t), i < j  PROVE t[i] < t[j]
      <3>1. PICK k \in 1 .. Len(s), l \in 1 .. Len(s) : t[i] = s[k] /\ t[j] = s[l] /\ k < l
        <4>1. CASE j < p  BY <4>1, <2>1, <1>2
        <4>2. CASE i < p /\ j >= p  BY <4>2, <2>1, <1>2
        <4>3. CASE i >= p  BY <4>3, <2>1, <1>2
        <4> QED  BY <4>1, <4>2, <4>3
      <3> QED  BY <3>1 DEF Increasing
    <2> QED  BY <2>1 DEF Increasing
  <1>4. ASSUME NEW r, Has(s, r), r # s[p]  PROVE Has(t, r)
    <2>1. PICK i \in 1 .. Len(s) : s[i] = r  BY <1>4 DEF Has
    <2>2. CASE i < p  BY <2>1, <2>2, <1>2 DEF Has
    <2>3. CASE i > p
      <3>1. i - 1 \in 1 .. Len(t) /\ t[i - 1] = r  BY <2>1, <2>3, <1>2
      <3> QED  BY <3>1 DEF Has
    <2> QED  BY <2>1, <2>2, <2>3, <1>4
  <1> QED  BY <1>2, <1>3, <1>4

LEMMA RuleCancelledOK ==
    ASSUME IInv, NEW r, RuleCancelled(r)
    PROVE  IInv'
  <1>1. /\ TypeInv /\ Increasing(rules) /\ (\A e \in Directions : FlowOK(e))
        /\ (faults = 0 => Control)
    BY Zenon DEF IInv
  <1>2. /\ pc = "rules" /\ pos \in 1 .. Len(rules) /\ r = rules[pos] /\ VerdictOn(r) = "cancel"
        /\ rules' = Erased(rules, pos) /\ stream' = Cancel(stream, r)
        /\ UNCHANGED <<pc, asked, revents, pos, fd, shut, source, sink, got, faults>>
    BY DEF RuleCancelled, AtRule, kernel
  <1> DEFINE d == StreamOf(r)
             old == stream[d]
             new == ByteStream_end_input(old)
  <1>3. /\ rules \in Seq(Rules) /\ r \in Rules /\ d \in Directions
        /\ stream \in [Directions -> StreamType(Nat)] /\ old \in StreamType(Nat)
    BY <1>1, <1>2, RuleTable DEF TypeInv
  <1>4. /\ rules' \in Seq(Rules) /\ Increasing(rules)'
        /\ \A e : Has(rules, e) /\ e # r => Has(rules', e)
    <2>1. /\ rules' \in Seq(Rules) /\ Increasing(rules')
          /\ \A e : Has(rules, e) /\ e # rules[pos] => Has(rules', e)
      BY ONLY <1>1, <1>2, <1>3, RemoveOK, Zenon
    <2> QED  BY <2>1, <1>2, Zenon DEF Increasing
  <1>5. new \in StreamType(Nat) /\ new.input_is_end = TRUE  BY ONLY <1>3, EndedStream, Zenon
  <1>6. stream' = [stream EXCEPT ![d] = new]  BY <1>2, Zenon DEF Cancel
  <1> HIDE DEF new
  <1>7. stream' \in [Directions -> StreamType(Nat)]  BY <1>3, <1>5, <1>6, Zenon
  <1>8. stream'[d] = new /\ \A e \in Directions : e # d => stream'[e] = stream[e]  BY <1>3, <1>6
  <1>9. MayEnd  BY <1>2, <1>8, Zenon DEF MayEnd, new
  <1>10. TypeInv'  BY <1>1, <1>2, <1>4, <1>7, Zenon DEF TypeInv
  <1>11. \A e \in Directions : FlowOK(e)'  BY <1>1, <1>9, EndingKeeps, Zenon
  <1>12. ASSUME faults' = 0  PROVE Control'
    <2>1. Control  BY <1>1, <1>2, <1>12
    <2>2. r = 1 /\ Drained("outbound")  BY <2>1, <1>2, <1>3, Zenon DEF Control, CancelOnlyInput
    <2>3. d = "outbound"  BY <2>2, RuleTable
    <2>4. ASSUME NEW e \in Directions  PROVE DirectionOK(e)'
      <3>1. FlowOK(e) /\ DirectionOK(e)  BY <1>1, <2>1, Zenon DEF Control
      <3>2. stream'[e].input_is_end => Drained(e)
        BY <3>1, <2>2, <2>3, <1>8, Zenon DEF DirectionOK
      <3> QED  BY <3>1, <3>2, <1>9, EndingDirection, Zenon
    <2>5. RulesOK'
      <3>1. ASSUME NEW e \in Rules
            PROVE  \/ Has(rules', e)
                   \/ e \in {1, 3} /\ stream'[StreamOf(e)].input_is_end
                   \/ e = 4 /\ shut'["inbound"]
        <4>1. CASE e = r
          <5>1. e \in {1, 3}  BY <4>1, <2>2
          <5> QED  BY <4>1, <5>1, <1>5, <1>8, Zenon
        <4>2. CASE e # r
          <5>1. \/ Has(rules, e)
                \/ e \in {1, 3} /\ stream[StreamOf(e)].input_is_end
                \/ e = 4 /\ shut["inbound"]
            BY <2>1, Zenon DEF Control, RulesOK
          <5>2. stream[StreamOf(e)].input_is_end => stream'[StreamOf(e)].input_is_end
            BY <1>1, <1>9, RuleTable, EndingKeeps, Zenon
          <5> QED  BY <4>2, <5>1, <5>2, <1>2, <1>4, Zenon
        <4> QED  BY <4>1, <4>2
      <3> QED  BY <3>1, Zenon DEF RulesOK
    <2>6. FdsOK'  BY <2>1, <1>2, Zenon DEF Control, FdsOK, Drained
    <2>7. \A e \in Rules : asked[e] \subseteq {Direction(e)}  BY <2>1, Zenon DEF Control, AskedOK
    <2>8. AskedOK' /\ Finished'  BY <1>2, <2>7 DEF AskedOK, Finished
    <2>9. CancelOnlyInput'  BY <2>1, <1>2, Zenon DEF Control, CancelOnlyInput, VerdictOn, Drained
    <2> QED  BY <2>4, <2>5, <2>6, <2>8, <2>9, Zenon DEF Control
  <1> QED  BY <1>4, <1>10, <1>11, <1>12, Zenon DEF IInv

-----------------------------------------------------------------------------
(***************************************************************************)
(* The loop that prepares the poll.                                        *)
(***************************************************************************)

\* A rule is dropped before the poll only if its stream has ended already,
\* or its writer is done; the rule that writes to the socket never is.
LEMMA GoneMeans ==
    ASSUME FdsOK, \A d \in Directions : DirectionOK(d), NEW r \in Rules, Gone(r)
    PROVE  r # 2 /\ Drained(StreamOf(r)) /\ (r = 4 => shut["inbound"])
  <1>1. CASE r = 1
    <2>1. Direction(r) = In /\ FdOf(r) = "input" /\ StreamOf(r) = "outbound"  BY <1>1, RuleTable
    <2>2. fd["input"].eof \/ fd["input"].closed  BY <2>1 DEF Gone, Defunct
    <2> QED  BY <1>1, <2>1, <2>2 DEF FdsOK
  <1>2. CASE r = 2
    <2>1. Direction(r) # In /\ FdOf(r) = "socket"  BY <1>2, RuleTable
    <2> QED  BY <2>1 DEF Gone, Defunct, FdsOK
  <1>3. CASE r = 3
    <2>1. Direction(r) = In /\ FdOf(r) = "socket" /\ StreamOf(r) = "inbound"  BY <1>3, RuleTable
    <2>2. fd["socket"].eof \/ fd["socket"].closed  BY <2>1 DEF Gone, Defunct
    <2> QED  BY <1>3, <2>1, <2>2 DEF FdsOK
  <1>4. CASE r = 4
    <2>1. Direction(r) # In /\ FdOf(r) = "output" /\ StreamOf(r) = "inbound" /\ "inbound" \in Directions
      BY <1>4, RuleTable
    <2>2. shut["inbound"]  BY <2>1 DEF Gone, Defunct, FdsOK
    <2>3. Drained("inbound")
      BY <2>1, <2>2, Zenon DEF DirectionOK, ByteStream_eof, ByteStream_input_ended
    <2> QED  BY <1>4, <2>1, <2>2, <2>3
  <1> QED  BY <1>1, <1>2, <1>3, <1>4, RuleTable

\* A stream that nobody wants to empty or to fill is over.
LEMMA QuietStream ==
    ASSUME NEW st, \A e \in Directions : BufferOK(st[e]), NEW d \in Directions, NEW sh,
           ~Empties(st, sh, d), Fills(st, d) => st[d].input_is_end
    PROVE  st[d].str = <<>> /\ st[d].input_is_end /\ sh[d]
  <1>1. ~st["outbound"].error /\ ~st["inbound"].error  BY RuleTable, Zenon DEF BufferOK
  <1>2. BufferOK(st[d])  OBVIOUS
  <1>3. st[d].cur_cap = 0
    BY Zenon DEF Empties, ByteStream_buffer_empty, ByteStream_buffer_size
  <1>4. /\ st[d].str \in Seq(Nat) /\ st[d].cur_cap = Len(st[d].str) /\ BufferSize \in Nat \ {0}
        /\ ByteStream_remaining_capacity(st[d]) = BufferSize - st[d].cur_cap
    BY ONLY <1>2, BufferFields, Zenon
  <1>5. st[d].str = <<>>  BY <1>3, <1>4
  <1>6. ByteStream_remaining_capacity(st[d]) > 0  BY <1>3, <1>4
  <1>7. st[d].input_is_end  BY <1>1, <1>6 DEF Fills
  <1>8. sh[d]
    BY <1>3, <1>7, Zenon DEF Empties, ByteStream_eof, ByteStream_input_ended,
       ByteStream_buffer_empty, ByteStream_buffer_size
  <1> QED  BY <1>5, <1>7, <1>8

LEMMA SetupOK ==
    ASSUME IInv, Setup
    PROVE  IInv'
  <1>1. /\ TypeInv /\ Increasing(rules) /\ (\A e \in Directions : FlowOK(e))
        /\ (faults = 0 => Control)
    BY Zenon DEF IInv
  <1> DEFINE s == ForEach(SetupRule, Start, rules)
  <1>2. /\ rules' = s.rules /\ stream' = s.stream /\ asked' = s.asked
        /\ pc' = IF s.asked = NoEvents THEN "exit" ELSE "poll"
        /\ UNCHANGED <<revents, pos, fd, shut, source, sink, got, faults>>
    BY Zenon DEF Setup, Start, kernel
  <1>3. Setting(s, Len(rules))
    <2>1. Prepared  BY <1>1, Zenon DEF Prepared, FlowOK
    <2> QED  BY <2>1, SetupLoop, Zenon
  <1> HIDE DEF s
  <1>4. /\ rules' \in Seq(Rules) /\ stream' \in [Directions -> StreamType(Nat)]
        /\ asked' \in [Rules -> SUBSET Events]
    <2>1. s \in [rules : Seq(Rules), stream : [Directions -> StreamType(Nat)],
                 asked : [Rules -> SUBSET Events]]
      BY <1>3, Zenon DEF Setting
    <2>2. /\ s.rules \in Seq(Rules) /\ s.stream \in [Directions -> StreamType(Nat)]
          /\ s.asked \in [Rules -> SUBSET Events]
      BY <2>1, Zenon
    <2> QED  BY <1>2, <2>2, Zenon
  <1>5. Increasing(rules)'
    <2>1. Increasing(s.rules)  BY <1>3, Zenon DEF Setting
    <2> QED  BY <1>2, <2>1, Zenon DEF Increasing
  <1>6. MayEnd  BY <1>2, <1>3, Zenon DEF Setting, MayEnd
  <1>7. pc' \in {"setup", "poll", "rules", "exit", "thrown"}  BY <1>2
  <1>8. TypeInv'  BY <1>1, <1>2, <1>4, <1>7, Zenon DEF TypeInv
  <1>9. \A e \in Directions : FlowOK(e)'  BY <1>1, <1>6, EndingKeeps, Zenon
  <1>10. ASSUME faults' = 0  PROVE Control'
    <2>1. Control  BY <1>1, <1>2, <1>10
    <2>2. FdsOK /\ RulesOK /\ \A e \in Directions : DirectionOK(e)  BY <2>1, Zenon DEF Control
    <2>3. rules \in Seq(Rules)  BY <1>1, Zenon DEF TypeInv
    <2>4. ASSUME NEW e \in Directions  PROVE stream'[e].input_is_end => Drained(e)
      <3>1. CASE stream'[e] = stream[e]  BY <3>1, <2>2, Zenon DEF DirectionOK
      <3>2. CASE \E l \in 1 .. Len(rules) : Gone(rules[l]) /\ StreamOf(rules[l]) = e
        <4>1. PICK l \in 1 .. Len(rules) : Gone(rules[l]) /\ StreamOf(rules[l]) = e  BY <3>2
        <4>2. rules[l] \in Rules  BY <2>3
        <4> QED  BY <2>2, <4>1, <4>2, GoneMeans, Zenon
      <3> QED  BY <1>2, <1>3, <3>1, <3>2, Zenon DEF Setting
    <2>5. \A e \in Directions : DirectionOK(e)'
      BY <1>1, <1>6, <2>2, <2>4, EndingDirection, Zenon
    <2>6. ASSUME NEW r \in Rules
          PROVE  \/ /\ Has(rules', r)
                    /\ asked'[r] = Asked(Direction(r), Interest(stream', shut, r))
                 \/ r # 2 /\ stream'[StreamOf(r)].input_is_end /\ (r = 4 => shut["inbound"])
      <3>1. CASE Has(rules, r)
        <4>1. PICK l \in 1 .. Len(rules) : rules[l] = r  BY <3>1, Zenon DEF Has
        <4>2. Settled(s, r)  BY <1>3, <4>1, Zenon DEF Setting
        <4>3. CASE Gone(r)
          <5>1. r # 2 /\ (r = 4 => shut["inbound"])  BY <2>2, <4>3, GoneMeans, Zenon
          <5> QED  BY <1>2, <4>2, <4>3, <5>1, Zenon DEF Settled
        <4>4. CASE ~Gone(r)  BY <1>2, <4>2, <4>4, Zenon DEF Settled
        <4> QED  BY <4>3, <4>4
      <3>2. CASE ~Has(rules, r)
        <4>1. \/ r \in {1, 3} /\ stream[StreamOf(r)].input_is_end
              \/ r = 4 /\ shut["inbound"]
          BY <2>2, <3>2, Zenon DEF RulesOK
        <4>2. StreamOf(r) \in Directions  BY RuleTable
        <4>3. stream[StreamOf(r)].input_is_end => stream'[StreamOf(r)].input_is_end
          BY <1>1, <1>6, <4>2, EndingKeeps, Zenon
        <4>4. r = 4 /\ shut["inbound"] => stream[StreamOf(r)].input_is_end
          BY <2>2, RuleTable, Zenon DEF DirectionOK, ByteStream_eof, ByteStream_input_ended
        <4>5. r # 2 /\ (r = 4 => shut["inbound"])  BY <4>1
        <4> QED  BY <4>1, <4>3, <4>4, <4>5, Zenon
      <3> QED  BY <3>1, <3>2
    <2>7. RulesOK'
      <3>1. ASSUME NEW r \in Rules
            PROVE  \/ Has(rules', r)
                   \/ r \in {1, 3} /\ stream'[StreamOf(r)].input_is_end
                   \/ r = 4 /\ shut'["inbound"]
        <4>1. r # 2 /\ r # 4 => r \in {1, 3}  BY RuleTable
        <4> QED  BY <1>2, <2>6, <4>1, Zenon
      <3> QED  BY <3>1, Zenon DEF RulesOK
    <2>8. FdsOK'  BY <1>2, <2>2, Zenon DEF FdsOK, Drained
    <2>9. 2 \in Rules /\ 1 \in Rules /\ 3 \in Rules /\ 4 \in Rules /\ 2 # 4 /\ 1 # 4 /\ 3 # 4  BY DEF Rules
    <2>10. AskedOK'
      <3>1. \A r \in Rules : asked'[r] \subseteq {Direction(r)}  BY <1>2, <1>3, Zenon DEF Setting
      <3>2. asked'[2] # {} => Empties(stream', shut', "outbound")
        <4>1. asked'[2] = Asked(Direction(2), Interest(stream', shut, 2))  BY <2>6, <2>9, Zenon
        <4>2. Interest(stream', shut, 2) = Empties(stream', shut, "outbound")
          BY RuleTable, Zenon DEF Interest
        <4> QED  BY <1>2, <4>1, <4>2, Zenon DEF Asked
      <3> QED  BY <3>1, <3>2, Zenon DEF AskedOK
    <2>11. CancelOnlyInput'  BY <1>2 DEF CancelOnlyInput
    <2>12. ASSUME pc' = "exit", NEW e \in Directions
           PROVE  Drained(e) /\ stream'[e].str = <<>> /\ sink[e].ended
      <3>1. \A r \in Rules : asked'[r] = {}
        <4>1. s.asked = NoEvents  BY <1>2, <2>12
        <4> QED  BY <1>2, <4>1 DEF NoEvents
      <3>2. ASSUME NEW r \in Rules, ~(r # 2 /\ stream'[StreamOf(r)].input_is_end /\ (r = 4 => shut["inbound"]))
            PROVE  ~Interest(stream', shut, r)
        <4>1. asked'[r] = Asked(Direction(r), Interest(stream', shut, r))  BY <2>6, <3>2, Zenon
        <4> QED  BY <3>1, <4>1 DEF Asked
      <3>3. \A c \in Directions : BufferOK(stream'[c])  BY <1>9, Zenon DEF FlowOK
      <3>4. CASE e = "outbound"
        <4>1. ~Empties(stream', shut, "outbound")
          BY <3>2, <2>9, RuleTable, Zenon DEF Interest
        <4>2. Fills(stream', "outbound") => stream'["outbound"].input_is_end
          BY <3>2, <2>9, RuleTable, Zenon DEF Interest
        <4>3. stream'["outbound"].str = <<>> /\ stream'["outbound"].input_is_end /\ shut["outbound"]
          BY ONLY <3>3, <3>4, <4>1, <4>2, e \in Directions, QuietStream, Zenon
        <4> QED  BY <2>2, <2>4, <3>4, <4>3, Zenon DEF DirectionOK
      <3>5. CASE e = "inbound" /\ shut["inbound"]
        <4>1. ByteStream_eof(stream[e])  BY <2>2, <3>5, Zenon DEF DirectionOK
        <4>2. stream[e].input_is_end /\ stream[e].cur_cap = 0
          BY <4>1, Zenon DEF ByteStream_eof, ByteStream_input_ended, ByteStream_buffer_empty, ByteStream_buffer_size
        <4>3. BufferOK(stream[e])  BY <1>1, Zenon DEF FlowOK
        <4>4. stream[e].str \in Seq(Nat) /\ stream[e].cur_cap = Len(stream[e].str)
          BY ONLY <4>3, BufferFields, Zenon
        <4>5. stream[e].str = <<>>  BY <4>2, <4>4
        <4>6. stream'[e].str = stream[e].str  BY <1>1, <1>6, EndingKeeps, Zenon
        <4> QED  BY <2>2, <3>5, <4>2, <4>5, <4>6, Zenon DEF DirectionOK
      <3>6. CASE e = "inbound" /\ ~shut["inbound"]
        <4>1. ~Empties(stream', shut, "inbound")
          BY <3>2, <3>6, <2>9, RuleTable, Zenon DEF Interest
        <4>2. Fills(stream', "inbound") => stream'["inbound"].input_is_end
          BY <3>2, <2>9, RuleTable, Zenon DEF Interest
        <4>3. shut["inbound"]
          BY ONLY <3>3, <3>6, <4>1, <4>2, e \in Directions, QuietStream, Zenon
        <4> QED  BY <3>6, <4>3
      <3> QED  BY <3>4, <3>5, <3>6 DEF Directions
    <2>13. Finished'  BY <1>2, <2>12, Zenon DEF Finished, Drained
    <2> QED  BY <2>5, <2>7, <2>8, <2>10, <2>11, <2>13, Zenon DEF Control
  <1> QED  BY <1>5, <1>8, <1>9, <1>10, Zenon DEF IInv

-----------------------------------------------------------------------------
(***************************************************************************)
(* The callbacks.                                                          *)
(***************************************************************************)
LEMMA EofMeans ==
    ASSUME NEW s, BufferOK(s)
    PROVE  ByteStream_eof(s) <=> s.input_is_end /\ s.str = <<>>
  <1>1. s.str \in Seq(Nat) /\ s.cur_cap = Len(s.str)  BY BufferFields, Zenon
  <1>2. s.cur_cap = 0 <=> s.str = <<>>  BY <1>1
  <1> QED
    BY <1>2, Zenon DEF ByteStream_eof, ByteStream_input_ended, ByteStream_buffer_empty,
       ByteStream_buffer_size

\* A callback keeps what the rules rely on, if its stream and the flags of
\* its file descriptor do.
LEMMA CallbackControl ==
    ASSUME Control, pc = "rules", pc' \in {"rules", "thrown"},
           UNCHANGED <<rules, asked, revents>>,
           \A e \in Directions : DirectionOK(e)', FdsOK',
           \A e \in Directions : /\ Drained(e) => Drained(e)'
                                 /\ stream[e].input_is_end => stream'[e].input_is_end
                                 /\ shut[e] => shut'[e]
    PROVE  Control'
  <1>1. RulesOK'
    <2>1. ASSUME NEW r \in Rules
          PROVE  \/ Has(rules', r)
                 \/ r \in {1, 3} /\ stream'[StreamOf(r)].input_is_end
                 \/ r = 4 /\ shut'["inbound"]
      <3>1. \/ Has(rules, r)
            \/ r \in {1, 3} /\ stream[StreamOf(r)].input_is_end
            \/ r = 4 /\ shut["inbound"]
        BY Zenon DEF Control, RulesOK
      <3>2. StreamOf(r) \in Directions /\ "inbound" \in Directions  BY RuleTable
      <3> QED  BY <3>1, <3>2, Zenon
    <2> QED  BY <2>1, Zenon DEF RulesOK
  <1>2. \A r \in Rules : asked[r] \subseteq {Direction(r)}  BY Zenon DEF Control, AskedOK
  <1>3. AskedOK' /\ Finished'  BY <1>2 DEF AskedOK, Finished
  <1>4. CancelOnlyInput'
    BY RuleTable, Zenon DEF Control, CancelOnlyInput, VerdictOn
  <1> QED  BY <1>1, <1>3, <1>4, Zenon DEF Control

\* What read(2) returns fits, and nothing is returned only at the end.
LEMMA ReadsMeans ==
    ASSUME NEW d, BufferOK(stream[d]), source[d].q \in Seq(Nat), NEW n \in Nat, n \in Reads(d)
    PROVE  /\ n <= BufferSize - stream[d].cur_cap /\ n <= Len(source[d].q)
           /\ ByteStream_remaining_capacity(stream[d]) > 0 /\ n = 0 => Drained(d)
  <1> DEFINE limit == ByteStream_remaining_capacity(stream[d])
  <1>1. /\ stream[d].cur_cap \in Nat /\ stream[d].cur_cap <= BufferSize /\ BufferSize \in Nat \ {0}
        /\ limit = BufferSize - stream[d].cur_cap
    BY BufferFields, Zenon
  <1>2. n \in IF limit = 0 \/ (source[d].q = <<>> /\ source[d].ended)
             THEN {0} ELSE 1 .. MinOf(limit, Len(source[d].q))
    BY Zenon DEF Reads
  <1> HIDE DEF limit
  <1>3. CASE limit = 0 \/ (source[d].q = <<>> /\ source[d].ended)
    <2>1. n = 0  BY <1>2, <1>3
    <2>2. n <= BufferSize - stream[d].cur_cap /\ n <= Len(source[d].q)  BY <1>1, <2>1
    <2>3. limit > 0 => Drained(d)  BY <1>3 DEF Drained
    <2> QED  BY <2>2, <2>3 DEF limit
  <1>4. CASE ~(limit = 0 \/ (source[d].q = <<>> /\ source[d].ended))
    <2>1. n \in 1 .. MinOf(limit, Len(source[d].q))  BY <1>2, <1>4, Zenon
    <2>2. n # 0 /\ n <= limit /\ n <= Len(source[d].q)  BY <2>1, <1>1 DEF MinOf
    <2> QED  BY <1>1, <2>2 DEF limit
  <1> QED  BY <1>3, <1>4

LEMMA ReadFlags ==
    ASSUME NEW k, k \in Flags, NEW limit, NEW n, NEW t, t = FileDescriptor_read(k, limit, n)
    PROVE  t \in Flags /\ (t.eof <=> k.eof \/ (limit > 0 /\ n = 0)) /\ t.closed = k.closed
  <1> DEFINE e == k.eof \/ (limit > 0 /\ n = 0)
  <1>1. t = [k EXCEPT !.eof = e] /\ e \in BOOLEAN  BY Zenon DEF FileDescriptor_read, Flags
  <1> HIDE DEF e
  <1>2. t \in Flags  BY <1>1, Zenon DEF Flags
  <1>3. t.eof = e /\ t.closed = k.closed  BY <1>1, Zenon DEF Flags
  <1>4. t.eof <=> e  BY <1>3
  <1> QED  BY <1>2, <1>3, <1>4, Zenon DEF e

LEMMA CloseFlags ==
    ASSUME NEW k, k \in Flags, NEW t, t = FileDescriptor_close(k)
    PROVE  t \in Flags /\ t.closed = TRUE
  <1>1. t \in Flags  BY Zenon DEF FileDescriptor_close, Flags
  <1> QED  BY <1>1, Zenon DEF FileDescriptor_close, Flags

LEMMA RuleReadsOK ==
    ASSUME IInv, NEW r \in Rules, NEW n \in Nat, RuleReads(r, n)
    PROVE  IInv'
  <1>1. /\ TypeInv /\ Increasing(rules) /\ (\A e \in Directions : FlowOK(e))
        /\ (faults = 0 => Control)
    BY Zenon DEF IInv
  <1> DEFINE d == StreamOf(r)
             f == FdOf(r)
             limit == ByteStream_remaining_capacity(stream[d])
             flags == FileDescriptor_read(fd[f], limit, n)
             s == source[d]
             data == SubSeq(s.q, 1, n)
             rest == SubSeq(s.q, n + 1, Len(s.q))
             new == [s EXCEPT !.q = rest]
             b == stream[d]
             t == Filled(b, data, flags.eof)
  <1>2. /\ pc = "rules" /\ Direction(r) = In /\ n \in Reads(d)
        /\ UNCHANGED <<shut, rules, asked, revents, sink, got, faults>>
    BY Zenon DEF RuleReads, AtRule
  <1>3. /\ fd' = [fd EXCEPT ![f] = flags] /\ source' = [source EXCEPT ![d] = new]
        /\ stream' = [stream EXCEPT ![d] = t]
    BY Zenon DEF RuleReads
  <1>4. pc' \in {pc, "thrown"} /\ pos' = pos + 1  BY Zenon DEF RuleReads, AfterCallback
  <1>5. /\ fd \in [Fds -> Flags] /\ f \in Fds /\ d \in Directions /\ fd[f] \in Flags
        /\ source \in [Directions -> Queues] /\ s \in Queues /\ s.q \in Seq(Nat) /\ s.n \in Nat
        /\ stream \in [Directions -> StreamType(Nat)] /\ pos \in Nat \ {0}
    BY <1>1, RuleTable, Zenon DEF TypeInv, Queues
  <1>6. FlowOK(d) /\ BufferOK(b) /\ Flow(got[d], sink[d].q, b.str, s.q, s.n)
    BY <1>1, <1>5, Zenon DEF FlowOK
  <1>7. /\ n <= BufferSize - b.cur_cap /\ n <= Len(s.q)
        /\ (limit > 0 /\ n = 0 => Drained(d))
    BY ONLY <1>2, <1>5, <1>6, n \in Nat, ReadsMeans, Zenon
  <1>8. /\ flags \in Flags /\ (flags.eof <=> fd[f].eof \/ (limit > 0 /\ n = 0))
        /\ flags.closed = fd[f].closed
    <2> DEFINE k == fd[f]
    <2>1. k \in Flags /\ flags = FileDescriptor_read(k, limit, n)  BY <1>5
    <2> HIDE DEF k, flags, limit
    <2>2. flags \in Flags  BY ONLY <2>1, ReadFlags, Zenon
    <2>4. flags.closed = k.closed  BY ONLY <2>1, Zenon DEF FileDescriptor_read, Flags
    <2>3. (flags.eof <=> k.eof \/ (limit > 0 /\ n = 0))  BY ONLY <2>1, ReadFlags, Zenon
    <2> QED  BY <2>2, <2>3, <2>4, Zenon DEF k
  <1>9. flags.eof \in BOOLEAN  BY <1>8, Zenon DEF Flags
  <1>10. data \in Seq(Nat) /\ Len(data) = n /\ rest \in Seq(Nat)  BY <1>5, <1>7
  <1>11. new \in Queues /\ new.q = rest /\ new.n = s.n /\ new.ended = s.ended
    <2> HIDE DEF rest, s
    <2>1. new \in Queues  BY ONLY <1>5, <1>10, Zenon DEF Queues
    <2> QED  BY ONLY <1>5, <1>10, <2>1, Zenon DEF Queues
  <1>12. /\ BufferOK(t) /\ t.str = b.str \o data
         /\ (t.input_is_end <=> b.input_is_end \/ flags.eof)
    <2>1. Len(data) <= BufferSize - b.cur_cap  BY <1>7, <1>10, Zenon
    <2> DEFINE eof == flags.eof
    <2>2. t = Filled(b, data, eof) /\ eof \in BOOLEAN  BY <1>9
    <2> HIDE DEF data, eof, b, t
    <2>3. BufferOK(t) /\ t.str = b.str \o data
      BY ONLY <1>6, <1>10, <2>1, <2>2, FilledBuffer, Zenon
    <2>4. (t.input_is_end <=> b.input_is_end \/ eof)
      BY ONLY <1>6, <1>10, <2>1, <2>2, FilledBuffer, Zenon
    <2> QED  BY <2>3, <2>4 DEF eof
  <1>13. Flow(got[d], sink[d].q, b.str \o data, rest, s.n)
    BY ONLY <1>5, <1>6, <1>7, n \in Nat, FlowFill, Zenon
  <1>14. Drained(d) => n = 0 /\ data = <<>> /\ rest = <<>>
    <2>1. ASSUME s.q = <<>>  PROVE n = 0 /\ data = <<>> /\ rest = <<>>
      <3>1. n = 0  BY <1>7, <2>1
      <3> QED  BY <2>1, <3>1
    <2> QED  BY <2>1, Zenon DEF Drained
  <1> HIDE DEF d, f, limit, flags, data, rest, new, t
  <1>15. fd'[f] = flags /\ \A e \in Fds : e # f => fd'[e] = fd[e]  BY <1>3, <1>5
  <1>16. source'[d] = new /\ \A e \in Directions : e # d => source'[e] = source[e]  BY <1>3, <1>5
  <1>17. stream'[d] = t /\ \A e \in Directions : e # d => stream'[e] = stream[e]  BY <1>3, <1>5
  <1>18. t \in StreamType(Nat)  BY <1>12, BufferFields, Zenon
  <1>19. /\ fd' \in [Fds -> Flags] /\ source' \in [Directions -> Queues]
         /\ stream' \in [Directions -> StreamType(Nat)]
    BY <1>3, <1>5, <1>8, <1>11, <1>18, Zenon
  <1>20. pos' \in Nat \ {0} /\ pc' \in {"setup", "poll", "rules", "exit", "thrown"}
    BY <1>2, <1>4, <1>5
  <1>21. TypeInv' /\ Increasing(rules)'
    BY <1>1, <1>2, <1>19, <1>20, Zenon DEF TypeInv, Increasing
  <1>22. ASSUME NEW e \in Directions  PROVE FlowOK(e)'
    <2>1. CASE e = d  BY <2>1, <1>2, <1>11, <1>12, <1>13, <1>16, <1>17, Zenon DEF FlowOK
    <2>2. CASE e # d  BY <2>2, <1>1, <1>2, <1>16, <1>17, Zenon DEF FlowOK
    <2> QED  BY <2>1, <2>2
  <1>23. ASSUME faults' = 0  PROVE Control'
    <2>1. Control  BY <1>1, <1>2, <1>23
    <2>2. FdsOK /\ \A e \in Directions : DirectionOK(e)  BY <2>1, Zenon DEF Control
    <2>3. (f = "input" /\ d = "outbound") \/ (f = "socket" /\ d = "inbound")
      BY <1>2, RuleTable DEF f, d
    <2>4. flags.eof => Drained(d)  BY <1>7, <1>8, <2>2, <2>3, Zenon DEF FdsOK
    <2>5. ASSUME NEW e \in Directions  PROVE Drained(e) => Drained(e)'
      <3>1. CASE e = d  BY <3>1, <1>11, <1>14, <1>16, Zenon DEF Drained
      <3>2. CASE e # d  BY <3>2, <1>16, Zenon DEF Drained
      <3> QED  BY <3>1, <3>2
    <2>6. ASSUME NEW e \in Directions  PROVE stream[e].input_is_end => stream'[e].input_is_end
      BY <1>12, <1>17, Zenon
    <2>7. ASSUME NEW e \in Directions  PROVE DirectionOK(e)'
      <3>1. CASE e # d  BY <3>1, <1>2, <2>2, <2>5, <1>17, Zenon DEF DirectionOK
      <3>2. CASE e = d
        <4>1. t.input_is_end => Drained(d)  BY <1>5, <1>12, <2>2, <2>4, Zenon DEF DirectionOK
        <4>2. ASSUME shut[d]  PROVE ByteStream_eof(t)
          <5>1. ByteStream_eof(b)  BY <1>5, <2>2, <4>2, Zenon DEF DirectionOK
          <5>2. b.input_is_end /\ b.str = <<>>  BY ONLY <1>6, <5>1, EofMeans, Zenon
          <5>3. t.input_is_end  BY <1>12, <5>2, Zenon
          <5>4. data = <<>>  BY <1>14, <4>1, <5>3, Zenon
          <5>5. b.str \o data = <<>>
            <6>1. <<>> \o <<>> = <<>>  OBVIOUS
            <6> QED  BY <5>2, <5>4, <6>1, Zenon
          <5>6. t.str = <<>>  BY <1>12, <5>5, Zenon
          <5> QED  BY ONLY <1>12, <5>3, <5>6, EofMeans, Zenon
        <4> QED  BY <3>2, <4>1, <4>2, <1>2, <1>5, <1>17, <2>2, <2>5, Zenon DEF DirectionOK
      <3> QED  BY <3>1, <3>2
    <2>8. FdsOK'
      <3>1. {"input", "socket", "output"} = Fds /\ "outbound" \in Directions /\ "inbound" \in Directions
        BY RuleTable DEF Fds
      <3>2. ~fd'["input"].closed /\ ~fd'["socket"].closed /\ fd'["output"] = fd["output"]
        BY <1>8, <1>15, <2>2, <2>3, <3>1 DEF FdsOK
      <3>3. fd'["input"].eof => Drained("outbound")
        <4>1. CASE f = "input"  BY <4>1, <1>15, <2>3, <2>4, Zenon
        <4>2. CASE f # "input"  BY <4>2, <1>15, <2>2, <3>1 DEF FdsOK
        <4> QED  BY <4>1, <4>2
      <3>4. fd'["socket"].eof => Drained("inbound")
        <4>1. CASE f = "socket"  BY <4>1, <1>15, <2>3, <2>4
        <4>2. CASE f # "socket"  BY <4>2, <1>15, <2>2, <3>1 DEF FdsOK
        <4> QED  BY <4>1, <4>2
      <3> QED  BY <3>1, <3>2, <3>3, <3>4, <1>2, <2>2, <2>5, Zenon DEF FdsOK
    <2>9. pc' \in {"rules", "thrown"}  BY <1>2, <1>4
    <2> QED  BY <1>2, <2>1, <2>5, <2>6, <2>7, <2>8, <2>9, CallbackControl, Zenon
  <1> QED  BY <1>21, <1>22, <1>23, Zenon DEF IInv

\* writev(2) takes no more than it was offered, and fails after the end.
LEMMA WritesMeans ==
    ASSUME NEW d, BufferOK(stream[d]), NEW n \in Nat, n \in Writes(d)
    PROVE  /\ ToWrite(d) \in Nat /\ ToWrite(d) <= stream[d].cur_cap /\ n <= ToWrite(d)
           /\ ~sink[d].gone /\ ~sink[d].ended
  <1>1. stream[d].cur_cap \in Nat  BY BufferFields, Zenon
  <1>2. MaxCopyLength \in Nat  BY StreamCopyAssumption
  <1>3. ToWrite(d) \in Nat /\ ToWrite(d) <= stream[d].cur_cap
    BY <1>1, <1>2 DEF ToWrite, MinOf, ByteStream_buffer_size
  <1>4. ~sink[d].gone /\ ~sink[d].ended  BY Zenon DEF Writes
  <1>5. n \in IF ToWrite(d) = 0 THEN {0} ELSE 1 .. MinOf(ToWrite(d), Room(d))
    BY <1>4, Zenon DEF Writes
  <1>6. n <= ToWrite(d)
    <2>1. CASE ToWrite(d) = 0  BY <1>5, <2>1
    <2>2. CASE ToWrite(d) # 0
      <3>1. n \in 1 .. MinOf(ToWrite(d), Room(d))  BY <1>5, <2>2, Zenon
      <3>2. CASE ToWrite(d) <= Room(d)  BY <1>3, <3>1, <3>2 DEF MinOf
      <3>3. CASE ~(ToWrite(d) <= Room(d))
        <4>1. n \in 1 .. Room(d)  BY <3>1, <3>3 DEF MinOf
        <4>2. n <= Room(d)  BY <4>1
        <4>3. Room(d) \in Int  BY StreamCopyAssumption DEF Room
        <4> QED  BY <1>3, <3>3, <4>2, <4>3
      <3> QED  BY <3>2, <3>3
    <2> QED  BY <2>1, <2>2
  <1> QED  BY <1>3, <1>4, <1>6

LEMMA RuleWritesOK ==
    ASSUME IInv, NEW r \in Rules, NEW n \in Nat, RuleWrites(r, n)
    PROVE  IInv'
  <1>1. /\ TypeInv /\ Increasing(rules) /\ (\A e \in Directions : FlowOK(e))
        /\ (faults = 0 => Control)
    BY Zenon DEF IInv
  <1> DEFINE d == StreamOf(r)
             len == ToWrite(d)
             b == stream[d]
             data == ByteStream_peek_output(b, len)
             t == Emptied(b, Len(data), n)
             over == ByteStream_eof(t)
             k == sink[d]
             more == k.q \o SubSeq(data, 1, n)
             new == [k EXCEPT !.q = more, !.ended = over]
  <1>2. /\ pc = "rules" /\ Direction(r) = Out /\ n \in Writes(d)
        /\ UNCHANGED <<rules, asked, revents, source, got, faults>>
    BY Zenon DEF RuleWrites, AtRule
  <1>3. stream' = [stream EXCEPT ![d] = t] /\ sink' = [sink EXCEPT ![d] = new]
    BY Zenon DEF RuleWrites
  <1>4. /\ fd' = IF over /\ d = "inbound" THEN [fd EXCEPT !["output"] = FileDescriptor_close(@)] ELSE fd
        /\ shut' = [shut EXCEPT ![d] = @ \/ over]
    BY Zenon DEF RuleWrites, PassEnd
  <1>5. pc' \in {pc, "thrown"} /\ pos' = pos + 1  BY Zenon DEF RuleWrites, AfterCallback
  <1>6. /\ fd \in [Fds -> Flags] /\ d \in Directions /\ "output" \in Fds /\ fd["output"] \in Flags
        /\ sink \in [Directions -> Queues] /\ k \in Queues /\ k.q \in Seq(Nat)
        /\ shut \in [Directions -> BOOLEAN] /\ source[d].n \in Nat
        /\ stream \in [Directions -> StreamType(Nat)] /\ pos \in Nat \ {0}
    BY <1>1, RuleTable, Zenon DEF TypeInv, Queues, Fds
  <1>7. BufferOK(b) /\ Flow(got[d], k.q, b.str, source[d].q, source[d].n)
    BY <1>1, <1>6, Zenon DEF FlowOK
  <1>8. /\ len \in Nat /\ len <= b.cur_cap /\ n <= len /\ ~k.gone /\ ~k.ended
    BY ONLY <1>2, <1>7, n \in Nat, WritesMeans, Zenon
  <1>9. /\ BufferOK(t) /\ t.str = SubSeq(b.str, n + 1, Len(b.str))
        /\ t.input_is_end = b.input_is_end /\ SubSeq(data, 1, n) = SubSeq(b.str, 1, n)
    BY ONLY <1>7, <1>8, n \in Nat, EmptiedBuffer, Zenon
  <1>10. b.str \in Seq(Nat) /\ n <= Len(b.str)
    <2>1. b.str \in Seq(Nat) /\ b.cur_cap = Len(b.str) /\ b.cur_cap \in Nat  BY ONLY <1>7, BufferFields, Zenon
    <2> QED  BY <2>1, <1>8
  <1>11. more = k.q \o SubSeq(b.str, 1, n)  BY <1>9, Zenon
  <1>12. more \in Seq(Nat)
    <2>1. SubSeq(b.str, 1, n) \in Seq(Nat)  BY <1>10
    <2>2. k.q \o SubSeq(b.str, 1, n) \in Seq(Nat)  BY ONLY <1>6, <2>1
    <2> QED  BY <1>11, <2>2, Zenon
  <1>13. over \in BOOLEAN /\ (over <=> t.input_is_end /\ t.str = <<>>)
    <2>1. over <=> t.input_is_end /\ t.str = <<>>  BY ONLY <1>9, EofMeans, Zenon
    <2>2. over \in BOOLEAN  BY DEF ByteStream_eof
    <2> QED  BY <2>1, <2>2, Zenon
  <1>14. Flow(got[d], more, t.str, source[d].q, source[d].n)
    <2>1. Flow(got[d], k.q \o SubSeq(b.str, 1, n), SubSeq(b.str, n + 1, Len(b.str)), source[d].q, source[d].n)
      BY ONLY <1>6, <1>7, <1>10, n \in Nat, FlowEmpty, Zenon
    <2> QED  BY ONLY <2>1, <1>9, <1>11, Zenon
  <1> HIDE DEF more, t, over
  <1>15. new \in Queues /\ new.q = more /\ new.ended = over /\ new.gone = k.gone
    <2> HIDE DEF k
    <2>1. new \in Queues  BY ONLY <1>6, <1>12, <1>13, Zenon DEF Queues
    <2> QED  BY ONLY <1>6, <1>12, <1>13, <2>1, Zenon DEF Queues
  <1> HIDE DEF d, len, data, new
  <1>16. sink'[d] = new /\ \A e \in Directions : e # d => sink'[e] = sink[e]  BY <1>3, <1>6
  <1>17. stream'[d] = t /\ \A e \in Directions : e # d => stream'[e] = stream[e]  BY <1>3, <1>6
  <1>18. (shut'[d] <=> shut[d] \/ over) /\ \A e \in Directions : e # d => shut'[e] = shut[e]
    <2> DEFINE x == shut[d] \/ over
    <2>1. shut' = [shut EXCEPT ![d] = x]  BY <1>4, Zenon
    <2> HIDE DEF x
    <2>2. shut'[d] = x  BY <1>6, <2>1, Zenon
    <2>3. \A e \in Directions : e # d => shut'[e] = shut[e]  BY <1>6, <2>1, Zenon
    <2>4. shut'[d] <=> x  BY <2>2
    <2> QED  BY <2>3, <2>4, Zenon DEF x
  <1>19. t \in StreamType(Nat)  BY <1>9, BufferFields, Zenon
  <1>20. /\ sink' \in [Directions -> Queues] /\ stream' \in [Directions -> StreamType(Nat)]
    BY <1>3, <1>6, <1>15, <1>19, Zenon
  <1>21. shut' \in [Directions -> BOOLEAN]
    <2>1. (shut[d] \/ over) \in BOOLEAN  OBVIOUS
    <2> QED  BY <1>4, <1>6, <2>1, Zenon
  <1>22. /\ fd' \in [Fds -> Flags] /\ \A e \in Fds : e # "output" => fd'[e] = fd[e]
         /\ fd' = fd \/ (over /\ d = "inbound")
    <2>1. CASE ~(over /\ d = "inbound")  BY <1>4, <1>6, <2>1
    <2>2. CASE over /\ d = "inbound"
      <3> DEFINE c == FileDescriptor_close(fd["output"])
      <3>1. c \in Flags  BY ONLY <1>6, CloseFlags, Zenon
      <3>2. fd' = [fd EXCEPT !["output"] = c]  BY <1>4, <2>2
      <3> HIDE DEF c
      <3>3. fd' \in [Fds -> Flags]  BY <1>6, <3>1, <3>2, Zenon
      <3>4. \A e \in Fds : e # "output" => fd'[e] = fd[e]  BY <1>6, <3>2
      <3> QED  BY <2>2, <3>3, <3>4
    <2> QED  BY <2>1, <2>2
  <1>23. pos' \in Nat \ {0} /\ pc' \in {"setup", "poll", "rules", "exit", "thrown"}
    BY <1>2, <1>5, <1>6
  <1>24. TypeInv' /\ Increasing(rules)'
    BY <1>1, <1>2, <1>20, <1>21, <1>22, <1>23, Zenon DEF TypeInv, Increasing
  <1>25. ASSUME NEW e \in Directions  PROVE FlowOK(e)'
    <2>1. CASE e = d  BY <2>1, <1>2, <1>9, <1>14, <1>15, <1>16, <1>17, Zenon DEF FlowOK
    <2>2. CASE e # d  BY <2>2, <1>1, <1>2, <1>16, <1>17, Zenon DEF FlowOK
    <2> QED  BY <2>1, <2>2
  <1>26. ASSUME faults' = 0  PROVE Control'
    <2>1. Control  BY <1>1, <1>2, <1>26, Zenon
    <2>2. FdsOK /\ \A e \in Directions : DirectionOK(e)  BY <2>1, Zenon DEF Control
    <2>3. ASSUME NEW e \in Directions  PROVE Drained(e)' <=> Drained(e)  BY <1>2, Zenon DEF Drained
    <2>4. ASSUME NEW e \in Directions
          PROVE  /\ stream[e].input_is_end => stream'[e].input_is_end
                 /\ shut[e] => shut'[e]
      BY <1>9, <1>17, <1>18, Zenon
    <2>5. ASSUME NEW e \in Directions  PROVE DirectionOK(e)'
      <3>1. CASE e # d  BY <3>1, <2>2, <2>3, <1>16, <1>17, <1>18, Zenon DEF DirectionOK
      <3>2. CASE e = d
        <4>1. k.ended = shut[d] /\ (b.input_is_end => Drained(d)) /\ ~k.gone
          BY <1>6, <2>2, Zenon DEF DirectionOK
        <4>2. shut'[d] <=> over  BY <1>8, <1>18, <4>1
        <4>3. sink'[d].ended = shut'[d]
          <5>1. sink'[d].ended \in BOOLEAN /\ shut'[d] \in BOOLEAN  BY <1>6, <1>13, <1>15, <1>16, <1>21
          <5> QED  BY <1>15, <1>16, <4>2, <5>1, Zenon
        <4>4. ByteStream_eof(stream'[d]) <=> over  BY <1>17, Zenon DEF over
        <4>5. ~sink'[d].gone  BY <1>15, <1>16, <4>1, Zenon
        <4>6. stream'[d].input_is_end => Drained(d)  BY <1>9, <1>17, <4>1, Zenon
        <4> QED  BY <3>2, <4>2, <4>3, <4>4, <4>5, <4>6, <2>3, Zenon DEF DirectionOK
      <3> QED  BY <3>1, <3>2
    <2>6. FdsOK'
      <3>1. "input" \in Fds /\ "socket" \in Fds /\ "outbound" \in Directions /\ "inbound" \in Directions
            /\ "input" # "output" /\ "socket" # "output"
        BY RuleTable DEF Fds
      <3>2. fd'["input"] = fd["input"] /\ fd'["socket"] = fd["socket"]  BY <1>22, <3>1
      <3>3. fd'["output"].closed => shut'["inbound"]
        <4>1. CASE fd' = fd  BY <4>1, <2>2, <2>4, <3>1, Zenon DEF FdsOK
        <4>2. CASE over /\ d = "inbound"  BY <4>2, <1>18, Zenon
        <4> QED  BY <4>1, <4>2, <1>22
      <3> QED  BY <2>2, <2>3, <3>1, <3>2, <3>3, Zenon DEF FdsOK
    <2>7. pc' \in {"rules", "thrown"}  BY <1>2, <1>5
    <2> QED  BY <1>2, <2>1, <2>3, <2>4, <2>5, <2>6, <2>7, CallbackControl, Zenon
  <1> QED  BY <1>24, <1>25, <1>26, Zenon DEF IInv

-----------------------------------------------------------------------------
LEMMA InitOK ==
    Init => IInv
  <1> SUFFICES ASSUME Init PROVE IInv  OBVIOUS
  <1>1. /\ pc = "setup" /\ rules = <<1, 2, 3, 4>> /\ asked = NoEvents /\ revents = NoEvents
        /\ pos = 1 /\ faults = 0
        /\ fd = [f \in Fds |-> NewFD]
        /\ stream = [d \in Directions |-> NewByteStream(BufferSize)]
        /\ shut = [d \in Directions |-> FALSE]
        /\ source = [d \in Directions |-> NewQueue]
        /\ sink = [d \in Directions |-> NewQueue]
        /\ got = [d \in Directions |-> <<>>]
    BY Zenon DEF Init, Fds
  <1>2. NoEvents \in [Rules -> SUBSET Events] /\ \A r \in Rules : NoEvents[r] = {}
    BY DEF NoEvents
  <1>3. /\ NewFD \in Flags /\ NewFD.eof = FALSE /\ NewFD.closed = FALSE
    BY Zenon DEF NewFD, Flags
  <1>4. /\ NewQueue.q = <<>> /\ NewQueue.n = 0 /\ NewQueue.ended = FALSE /\ NewQueue.gone = FALSE
    BY Zenon DEF NewQueue
  <1>5. NewQueue \in Queues
    <2>1. <<>> \in Seq(Nat) /\ 0 \in Nat  OBVIOUS
    <2> QED  BY <2>1, Zenon DEF NewQueue, Queues
  <1> DEFINE b == NewByteStream(BufferSize)
  <1>6. b.str = <<>> /\ b.input_is_end = FALSE /\ b.capacity = BufferSize /\ b.error = FALSE
    BY Zenon DEF NewByteStream
  <1>7. BufferOK(b)
    <2>1. BufferSize \in Nat /\ BufferSize < SizeMod  BY StreamCopyAssumption
    <2>2. StreamOK(b, Nat)  BY ONLY <2>1, NewStreamOK, Zenon
    <2> QED  BY <1>6, <2>2, Zenon DEF BufferOK
  <1>8. b \in StreamType(Nat)  BY <1>7, BufferFields, Zenon
  <1> HIDE DEF b
  <1>9. /\ \A f \in Fds : fd[f] = NewFD
        /\ \A d \in Directions : /\ stream[d] = b /\ shut[d] = FALSE /\ got[d] = <<>>
                                 /\ source[d] = NewQueue /\ sink[d] = NewQueue
    BY <1>1 DEF b
  <1>10. rules \in Seq(Rules) /\ Increasing(rules) /\ \A r \in Rules : Has(rules, r)
    <2>1. rules \in Seq(Rules) /\ Len(rules) = 4 /\ \A i \in 1 .. 4 : rules[i] = i
      BY <1>1 DEF Rules
    <2>2. Increasing(rules)  BY <2>1 DEF Increasing
    <2>3. \A r \in Rules : Has(rules, r)  BY <2>1 DEF Has, Rules
    <2> QED  BY <2>1, <2>2, <2>3
  <1>11. TypeInv
    <2>1. /\ fd \in [Fds -> Flags] /\ stream \in [Directions -> StreamType(Nat)]
          /\ shut \in [Directions -> BOOLEAN] /\ source \in [Directions -> Queues]
          /\ sink \in [Directions -> Queues]
      BY <1>1, <1>3, <1>5, <1>8, Zenon DEF b
    <2>2. /\ got \in [Directions -> Seq(Nat)] /\ pos \in Nat \ {0} /\ faults \in Nat
          /\ pc \in {"setup", "poll", "rules", "exit", "thrown"}
      BY <1>1
    <2> QED  BY <1>1, <1>2, <1>10, <2>1, <2>2, Zenon DEF TypeInv
  <1>12. ASSUME NEW d \in Directions  PROVE FlowOK(d)
    <2>1. Bytes(0, 0) = <<>>
      <3>1. 0 \in Nat /\ 0 <= 0  OBVIOUS
      <3>2. Bytes(0, 0) \in Seq(Nat) /\ Len(Bytes(0, 0)) = 0 - 0  BY ONLY <3>1, BytesType, Zenon
      <3> QED  BY <3>2
    <2>2. Flow(<<>>, <<>>, <<>>, <<>>, 0)
      <3>1. 0 \in 0 .. 0 /\ 0 <= 0  OBVIOUS
      <3> QED  BY <2>1, <3>1, Zenon DEF Flow
    <2> QED  BY <1>4, <1>6, <1>7, <1>9, <2>2, Zenon DEF FlowOK
  <1>13. Control
    <2>1. \A d \in Directions : DirectionOK(d)  BY <1>4, <1>6, <1>9, Zenon DEF DirectionOK
    <2>2. RulesOK  BY <1>10, Zenon DEF RulesOK
    <2>3. "input" \in Fds /\ "socket" \in Fds /\ "output" \in Fds  BY DEF Fds
    <2>4. FdsOK  BY <1>3, <1>9, <2>3, Zenon DEF FdsOK
    <2>5. AskedOK /\ CancelOnlyInput /\ Finished
      BY <1>1, <1>2 DEF AskedOK, CancelOnlyInput, Finished
    <2> QED  BY <2>1, <2>2, <2>4, <2>5, Zenon DEF Control
  <1> QED  BY <1>10, <1>11, <1>12, <1>13, Zenon DEF IInv

LEMMA StutterOK ==
    IInv /\ UNCHANGED vars => IInv'
  <1> SUFFICES ASSUME IInv, UNCHANGED vars PROVE IInv'  OBVIOUS
  <1>1. /\ TypeInv /\ Increasing(rules) /\ (\A e \in Directions : FlowOK(e))
        /\ (faults = 0 => Control)
    BY Zenon DEF IInv
  <1>2. UNCHANGED <<pc, rules, asked, revents, pos, fd, stream, shut, source, sink, got, faults>>
    BY DEF vars, local, kernel
  <1>3. TypeInv' /\ Increasing(rules)'  BY <1>1, <1>2, Zenon DEF TypeInv, Increasing
  <1>4. \A d \in Directions : FlowOK(d)'  BY <1>1, <1>2, FlowKept, Zenon
  <1>5. ASSUME faults' = 0  PROVE Control'
    <2>1. Control  BY <1>1, <1>2, <1>5
    <2>2. AskedOK'  BY <2>1, <1>2, Zenon DEF Control, AskedOK, Empties
    <2>3. CancelOnlyInput'  BY <2>1, <1>2, Zenon DEF Control, CancelOnlyInput, VerdictOn, Drained
    <2>4. Finished'  BY <2>1, <1>2, Zenon DEF Control, Finished, Drained
    <2> QED  BY <2>1, <2>2, <2>3, <2>4, <1>2, PlacesKept, Zenon
  <1> QED  BY <1>3, <1>4, <1>5, Zenon DEF IInv

LEMMA StepOK ==
    IInv /\ [Next]_vars => IInv'
  <1> SUFFICES ASSUME IInv, [Next]_vars PROVE IInv'  OBVIOUS
  <1>1. CASE Setup  BY <1>1, SetupOK
  <1>2. CASE Poll  BY <1>2, PollOK
  <1>3. CASE PassEnds  BY <1>3, PassEndsOK
  <1>4. ASSUME NEW r \in Rules, NEW n \in 0 .. BufferSize, RuleReads(r, n)  PROVE IInv'
    <2>1. n \in Nat  BY StreamCopyAssumption
    <2> QED  BY <1>4, <2>1, RuleReadsOK, Zenon
  <1>5. ASSUME NEW r \in Rules, NEW n \in 0 .. MaxCopyLength, RuleWrites(r, n)  PROVE IInv'
    <2>1. n \in Nat  BY StreamCopyAssumption
    <2> QED  BY <1>5, <2>1, RuleWritesOK, Zenon
  <1>6. ASSUME NEW r \in Rules, RuleThrows(r) \/ RuleCancelled(r) \/ RuleSkipped(r)  PROVE IInv'
    BY <1>6, RuleThrowsOK, RuleCancelledOK, RuleSkippedOK, Zenon
  <1>7. CASE Interrupted \/ PollFails  BY <1>7, PollFaultOK
  <1>8. ASSUME NEW d \in Directions, Produce(d) \/ End(d) \/ Consume(d) \/ Leave(d)  PROVE IInv'
    BY <1>8, ProduceOK, EndOK, ConsumeOK, LeaveOK, Zenon
  <1>9. CASE UNCHANGED vars  BY <1>9, StutterOK
  <1> QED  BY <1>1, <1>2, <1>3, <1>4, <1>5, <1>6, <1>7, <1>8, <1>9, Zenon DEF Next, Loop

LEMMA Invariance ==
    Spec => []IInv
  <1>1. Init => IInv  BY InitOK
  <1>2. IInv /\ [Next]_vars => IInv'  BY StepOK
  <1> QED  BY <1>1, <1>2, PTL DEF Spec

(***************************************************************************)
(* bidirectional_stream_copy.cc:33, 45-47, 61, 73-75: whatever the sizes   *)
(* of the buffers, however short the reads and writes, and whoever hangs   *)
(* up, every byte that a writer has sent is in exactly one place, and in   *)
(* order: with the far reader, on its way to it, in the loop's ByteStream, *)
(* or not yet read.                                                        *)
(***************************************************************************)
THEOREM AlwaysNoneLostOrReordered == Spec => []NoneLostOrReordered
  <1>1. IInv => NoneLostOrReordered
    <2> SUFFICES ASSUME IInv, NEW d \in Directions
                 PROVE  got[d] \o sink[d].q \o stream[d].str \o source[d].q = Bytes(0, source[d].n)
      BY Zenon DEF NoneLostOrReordered
    <2>1. TypeInv /\ FlowOK(d)  BY Zenon DEF IInv
    <2>2. source[d].n \in Nat  BY <2>1 DEF TypeInv, Queues
    <2>3. Flow(got[d], sink[d].q, stream[d].str, source[d].q, source[d].n)  BY <2>1, Zenon DEF FlowOK
    <2> DEFINE g == got[d]
               k == sink[d].q
               s == stream[d].str
               q == source[d].q
               n == source[d].n
    <2>4. n \in Nat /\ Flow(g, k, s, q, n)  BY <2>2, <2>3
    <2> HIDE DEF g, k, s, q, n
    <2>5. g \o k \o s \o q = Bytes(0, n)  BY ONLY <2>4, FlowIsStream
    <2> QED  BY <2>5, Zenon DEF g, k, s, q, n
  <1> QED  BY <1>1, Invariance, PTL

(***************************************************************************)
(* eventloop.cc:91-94 and bidirectional_stream_copy.cc:85-90 "loop until   *)
(* completion": unless a signal or a reader that leaves cuts it short, the *)
(* copying returns only when both writers are done, all their bytes are    *)
(* written and the ends of both streams passed on.                         *)
(***************************************************************************)
THEOREM AlwaysExitMeansDone == Spec => []ExitMeansDone
  <1>1. IInv => ExitMeansDone
    BY Zenon DEF IInv, Control, Finished, Drained, ExitMeansDone
  <1> QED  BY <1>1, Invariance, PTL
=============================================================================
