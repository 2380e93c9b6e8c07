--------------------------- MODULE SendingProofs ----------------------------
(***************************************************************************)
(* The bookkeeping of the TCPSender, for every stream length, window,      *)
(* payload size, timeout and initial sequence number, and for a peer that  *)
(* acknowledges anything.                                                  *)
(*                                                                         *)
(* InFlightAccounting is not inductive alone: that one iteration of        *)
(* fill_window adds to the chain exactly what it adds to the counters      *)
(* needs that the SYN flag of the reused segment object is never carried   *)
(* into a second iteration (BeforeSyn, FillInv): when the SYN goes out the *)
(* window is still one, so the loop ends there.  UnaInFront needs in       *)
(* addition that less than half the sequence numbers are in flight (the    *)
(* bound on bytes_in_flight in SenderInv), so that unwrap recovers the     *)
(* start of a segment from its raw number.                                 *)
(***************************************************************************)
EXTENDS Sending, PrimitiveProofs

\* A leaf is for SMT unless it names another prover.
USE SMTT(30)

SegType ==
    [seqno : RawSeqno, ackno : Nat, ack : BOOLEAN, rst : BOOLEAN, syn : BOOLEAN,
     fin : BOOLEAN, win : Nat, payload : Seq(Nat), abs : Nat]

TimerType == [ddl : Nat, cur : Nat, is_start : BOOLEAN]

SenderType ==
    [isn : RawSeqno, segments_out : Seq(SegType), initial_rto : Nat,
     stream : StreamType(Nat), next_seqno : Nat, window_size : Nat,
     bytes_in_flight : Nat, una_seqno : Nat, outstanding : Seq(SegType),
     timer : TimerType, cur_rto : Nat, consecutive_retrans : Nat,
     is_transmission_ended : BOOLEAN]

ActType ==
    [call : {"idle", "fill", "ack"},
     f : [window : Nat, syn : BOOLEAN, more : BOOLEAN], a : Nat]

\* Every byte read from the stream, the SYN and the FIN have one number each.
Counting(st, nxt, ended) ==
    /\ StreamOK(st, Nat)
    /\ st.bytes_written <= MaxBytes
    /\ nxt = 0 => st.bytes_read = 0 /\ ~ended
    /\ nxt > 0 => nxt = st.bytes_read + 1 + Bit(ended)

\* A segment in the queue has a length and carries its wrapped number; the
\* queue is a chain; before the SYN it is empty.
Queue(q, nxt, bif) ==
    /\ \A k \in 1 .. Len(q) : /\ length_in_sequence_space(q[k]) >= 1
                              /\ q[k].seqno = wrap(q[k].abs, Isn)
    /\ IsChain(q, nxt, bif)
    /\ nxt = 0 => q = <<>>

\* What holds of the sender in every loop iteration.
SenderInv(t) ==
    /\ t \in SenderType
    /\ t.isn = Isn
    /\ Counting(t.stream, t.next_seqno, t.is_transmission_ended)
    /\ Queue(t.outstanding, t.next_seqno, t.bytes_in_flight)
    /\ t.window_size <= MaxWindow
    /\ t.bytes_in_flight <= MaxWindow
    /\ t.una_seqno <= t.next_seqno

\* What holds of the sender in addition outside ack_received.
Quiet(t) ==
    /\ InFront(t.outstanding, t.una_seqno, t.next_seqno)
    /\ t.timer.is_start <=> t.outstanding # <<>>

\* The SYN goes out in an iteration that is the last one: before it the stream
\* is empty or the window is one.
BeforeSyn(t) == t.next_seqno = 0 => t.stream.cur_cap = 0 \/ t.window_size = 1

\* The loop of fill_window goes on only while there is room, and never after
\* the iteration that sets the SYN flag.
FillInv(t, f) ==
    /\ f.window = MaxOf(t.window_size, 1)
    /\ f.more => t.bytes_in_flight < f.window /\ ~f.syn
    /\ t.next_seqno = 0 => f.more

\* While ack_received pops, the new acknowledgment is at or behind the start
\* of the front.
AckInv(t, a) ==
    /\ a = t.una_seqno
    /\ a <= t.next_seqno
    /\ t.next_seqno > 0
    /\ t.outstanding # <<>> => t.outstanding[1].abs <= a
    /\ t.outstanding = <<>> => a = t.next_seqno

IInv ==
    /\ act \in ActType
    /\ SenderInv(s)
    /\ BeforeSyn(s)
    /\ act.call # "ack" => Quiet(s)
    /\ act.call = "idle" =>
           /\ act = Idle
           /\ s.next_seqno = 0 => s.window_size = 1 /\ s.stream.cur_cap = 0
    /\ act.call = "fill" => FillInv(s, act.f)
    /\ act.call = "ack" => AckInv(s, act.a)

-----------------------------------------------------------------------------
\* Segments and chains of segments.

LEMMA BitType == \A flag : Bit(flag) \in {0, 1}
  BY DEF Bit

LEMMA SegmentLength ==
    ASSUME NEW seg \in SegType
    PROVE  /\ length_in_sequence_space(seg) \in Nat
           /\ seg.abs \in Nat
           /\ SegEnd(seg) \in Nat
           /\ SegEnd(seg) = seg.abs + length_in_sequence_space(seg)
  <1>1. seg.abs \in Nat /\ seg.payload \in Seq(Nat)  BY DEF SegType
  <1>2. Len(seg.payload) \in Nat  BY <1>1
  <1>3. Bit(seg.syn) \in {0, 1} /\ Bit(seg.fin) \in {0, 1}  BY BitType
  <1> QED  BY ONLY <1>1, <1>2, <1>3, SMTT(30) DEF length_in_sequence_space, SegEnd

LEMMA ChainAppend ==
    ASSUME NEW q \in Seq(SegType), NEW nxt \in Nat, NEW bif \in Nat, NEW seg \in SegType,
           NEW nxt2 \in Nat, NEW bif2 \in Nat, IsChain(q, nxt, bif), seg.abs = nxt,
           nxt2 = nxt + length_in_sequence_space(seg),
           bif2 = bif + length_in_sequence_space(seg)
    PROVE  /\ Append(q, seg) \in Seq(SegType)
           /\ IsChain(Append(q, seg), nxt2, bif2)
  <1> DEFINE p == Append(q, seg)
  <1>1. p \in Seq(SegType) /\ Len(p) = Len(q) + 1 /\ p # <<>>
        /\ p[Len(q) + 1] = seg /\ \A k \in 1 .. Len(q) : p[k] = q[k]
    OBVIOUS
  <1>2. SegEnd(seg) = nxt2  BY DEF SegEnd
  <1> HIDE DEF p
  <1>3. ASSUME NEW k \in 1 .. Len(p) - 1  PROVE SegEnd(p[k]) = p[k + 1].abs
    <2>1. CASE k = Len(q)  BY <2>1, <1>1 DEF IsChain
    <2>2. CASE k # Len(q)  BY <2>2, <1>1 DEF IsChain
    <2> QED  BY <2>1, <2>2
  <1>4. bif2 = nxt2 - p[1].abs
    <2>0. length_in_sequence_space(seg) \in Nat  BY SegmentLength
    <2>1. CASE q = <<>>  BY <2>0, <2>1, <1>1 DEF IsChain
    <2>2. CASE q # <<>>
      <3>1. p[1] = q[1] /\ q[1] \in SegType  BY <2>2, <1>1
      <3>2. q[1].abs \in Nat  BY <3>1, SegmentLength, Zenon
      <3> QED  BY <3>1, <3>2, <2>0, <2>2 DEF IsChain
    <2> QED  BY <2>1, <2>2
  <1>5. SegEnd(p[Len(p)]) = nxt2  BY <1>1, <1>2
  <1>6. IsChain(p, nxt2, bif2)  BY <1>1, <1>3, <1>4, <1>5 DEF IsChain
  <1> QED  BY <1>1, <1>6 DEF p

LEMMA ChainTail ==
    ASSUME NEW q \in Seq(SegType), NEW nxt \in Nat, NEW bif \in Nat, q # <<>>,
           IsChain(q, nxt, bif)
    PROVE  /\ Tail(q) \in Seq(SegType)
           /\ IsChain(Tail(q), nxt, bif - length_in_sequence_space(q[1]))
           /\ Tail(q) # <<>> => Tail(q)[1].abs = SegEnd(q[1])
           /\ Tail(q) = <<>> => SegEnd(q[1]) = nxt
  <1> DEFINE p == Tail(q)
             n == length_in_sequence_space(q[1])
  <1>1. p \in Seq(SegType) /\ Len(p) = Len(q) - 1 /\ \A k \in 1 .. Len(p) : p[k] = q[k + 1]
    OBVIOUS
  <1>2. q[1] \in SegType /\ n \in Nat /\ SegEnd(q[1]) = q[1].abs + n /\ q[1].abs \in Nat
    <2>1. q[1] \in SegType  OBVIOUS
    <2> QED  BY <2>1, SegmentLength
  <1> HIDE DEF p, n
  <1>3. \A k \in 1 .. Len(p) - 1 : SegEnd(p[k]) = p[k + 1].abs
    BY <1>1 DEF IsChain
  <1>4. CASE p = <<>>
    <2>1. Len(q) = 1  BY <1>1, <1>4
    <2> QED  BY <2>1, <1>1, <1>2, <1>3, <1>4 DEF IsChain, p, n
  <1>5. CASE p # <<>>
    <2>1. Len(p) >= 1  BY <1>1, <1>5
    <2>2. p[1] = q[2] /\ SegEnd(q[1]) = q[2].abs  BY <2>1, <1>1 DEF IsChain
    <2>3. p[Len(p)] = q[Len(q)]  BY <2>1, <1>1
    <2>4. bif = nxt - q[1].abs /\ SegEnd(q[Len(q)]) = nxt  BY DEF IsChain
    <2>5. bif - n = nxt - p[1].abs  BY <2>2, <2>4, <1>2
    <2>6. IsChain(p, nxt, bif - n)  BY <2>3, <2>4, <2>5, <1>3, <1>5 DEF IsChain
    <2> QED  BY <2>2, <2>6, <1>1, <1>5 DEF p, n
  <1> QED  BY <1>4, <1>5

-----------------------------------------------------------------------------
\* The calls, as lemmas about one sender.

LEMMA Constants ==
    /\ Isn \in RawSeqno /\ MaxBytes \in Nat /\ SendCapacity \in Nat /\ MaxWindow \in Nat
    /\ MaxWindow >= 1 /\ RtTimeout \in Nat /\ MaxTick \in Nat
    /\ MaxWindow < HalfSeq /\ MaxBytes + 2 < AbsMod /\ SendCapacity < SizeMod
    /\ SeqnoMod \in Nat /\ SeqnoMod > 0 /\ AbsMod \in Nat /\ AbsMod > 0
    /\ MAX_PAYLOAD_SIZE \in Nat /\ MAX_PAYLOAD_SIZE >= 1
  BY SendingAssumption, SeqnoModAssumption, AbsModAssumption, MaxPayloadAssumption

LEMMA NewSenderInv ==
    LET t == NewTCPSender(SendCapacity, RtTimeout, Isn)
    IN  SenderInv(t) /\ Quiet(t) /\ BeforeSyn(t) /\ t.window_size = 1 /\ t.stream.cur_cap = 0
  <1> DEFINE st == NewByteStream(SendCapacity)
             t  == NewTCPSender(SendCapacity, RtTimeout, Isn)
  <1>1. StreamOK(st, Nat) /\ st.bytes_written = 0 /\ st.bytes_read = 0 /\ st.cur_cap = 0
    <2>1. StreamOK(st, Nat)  BY Constants, NewStreamOK
    <2> QED  BY <2>1 DEF NewByteStream
  <1>2. st \in StreamType(Nat)  BY <1>1 DEF StreamOK
  <1> HIDE DEF st
  <1>3. t = [isn |-> Isn, segments_out |-> <<>>, initial_rto |-> RtTimeout,
             stream |-> st, next_seqno |-> 0, window_size |-> 1,
             bytes_in_flight |-> 0, una_seqno |-> 0, outstanding |-> <<>>,
             timer |-> NewTimer, cur_rto |-> RtTimeout, consecutive_retrans |-> 0,
             is_transmission_ended |-> FALSE]
    BY DEF NewTCPSender, st
  <1> HIDE DEF t
  <1>4. NewTimer \in TimerType /\ NewTimer.is_start = FALSE  BY DEF NewTimer, TimerType
  <1>5. t \in SenderType  BY <1>2, <1>3, <1>4, Constants DEF SenderType
  <1>6. Counting(st, 0, FALSE)  BY <1>1, Constants DEF Counting
  <1>7. Queue(<<>>, 0, 0)  BY DEF Queue, IsChain
  <1>8. InFront(<<>>, 0, 0)  BY DEF InFront
  <1>9. SenderInv(t)
    <2>1. /\ t.isn = Isn /\ t.stream = st /\ t.next_seqno = 0 /\ t.bytes_in_flight = 0
          /\ t.outstanding = <<>> /\ t.is_transmission_ended = FALSE /\ t.window_size = 1
          /\ t.una_seqno = 0
      BY <1>3
    <2>2. /\ Counting(t.stream, t.next_seqno, t.is_transmission_ended)
          /\ Queue(t.outstanding, t.next_seqno, t.bytes_in_flight)
      BY <2>1, <1>6, <1>7, Zenon
    <2>3. /\ t.window_size <= MaxWindow /\ t.bytes_in_flight <= MaxWindow
          /\ t.una_seqno <= t.next_seqno
      BY <2>1, Constants
    <2> QED  BY <2>1, <2>2, <2>3, <1>5, Zenon DEF SenderInv
  <1> QED  BY <1>1, <1>3, <1>4, <1>8, <1>9 DEF Quiet, BeforeSyn, t

\* u differs from t at most in the segments to send and in the timer.
Alike(t, u) ==
    /\ u \in SenderType
    /\ u.isn = t.isn /\ u.stream = t.stream /\ u.next_seqno = t.next_seqno
    /\ u.window_size = t.window_size /\ u.bytes_in_flight = t.bytes_in_flight
    /\ u.una_seqno = t.una_seqno /\ u.outstanding = t.outstanding
    /\ u.is_transmission_ended = t.is_transmission_ended

LEMMA AlikeInv ==
    ASSUME NEW t, NEW u, SenderInv(t), Alike(t, u)
    PROVE  /\ SenderInv(u)
           /\ BeforeSyn(t) => BeforeSyn(u)
           /\ Quiet(t) /\ (u.timer.is_start <=> t.timer.is_start) => Quiet(u)
  BY Zenon DEF SenderInv, Alike, BeforeSyn, Quiet

LEMMA SetOut ==
    ASSUME NEW t \in SenderType, NEW out \in Seq(SegType)
    PROVE  LET u == [t EXCEPT !.segments_out = out]
           IN  Alike(t, u) /\ u.timer = t.timer
  <1> DEFINE u == [t EXCEPT !.segments_out = out]
  <1>1. u \in SenderType  BY Zenon DEF SenderType
  <1>2. /\ u.isn = t.isn /\ u.stream = t.stream /\ u.next_seqno = t.next_seqno
        /\ u.window_size = t.window_size /\ u.bytes_in_flight = t.bytes_in_flight
        /\ u.una_seqno = t.una_seqno /\ u.outstanding = t.outstanding
        /\ u.is_transmission_ended = t.is_transmission_ended /\ u.timer = t.timer
    BY DEF SenderType
  <1> QED  BY <1>1, <1>2 DEF Alike

LEMMA SetTimer ==
    ASSUME NEW t \in SenderType, NEW tm \in TimerType
    PROVE  LET u == [t EXCEPT !.timer = tm]
           IN  Alike(t, u) /\ u.timer = tm
  <1> DEFINE u == [t EXCEPT !.timer = tm]
  <1>1. u \in SenderType  BY DEF SenderType
  <1>2. /\ u.isn = t.isn /\ u.stream = t.stream /\ u.next_seqno = t.next_seqno
        /\ u.window_size = t.window_size /\ u.bytes_in_flight = t.bytes_in_flight
        /\ u.una_seqno = t.una_seqno /\ u.outstanding = t.outstanding
        /\ u.is_transmission_ended = t.is_transmission_ended /\ u.timer = tm
    BY DEF SenderType
  <1> QED  BY <1>1, <1>2 DEF Alike

LEMMA SetRto ==
    ASSUME NEW t \in SenderType, NEW rto \in Nat, NEW n \in Nat
    PROVE  LET u == [t EXCEPT !.consecutive_retrans = n, !.cur_rto = rto]
           IN  Alike(t, u) /\ u.timer = t.timer
  <1> DEFINE u == [t EXCEPT !.consecutive_retrans = n, !.cur_rto = rto]
  <1>1. u \in SenderType  BY Zenon DEF SenderType
  <1>2. /\ u.isn = t.isn /\ u.stream = t.stream /\ u.next_seqno = t.next_seqno
        /\ u.window_size = t.window_size /\ u.bytes_in_flight = t.bytes_in_flight
        /\ u.una_seqno = t.una_seqno /\ u.outstanding = t.outstanding
        /\ u.is_transmission_ended = t.is_transmission_ended /\ u.timer = t.timer
    BY DEF SenderType
  <1> QED  BY <1>1, <1>2 DEF Alike

\* The owner's taking of the segments changes nothing else.
LEMMA DrainedInv ==
    ASSUME NEW t, SenderInv(t)
    PROVE  LET u == Drained(t)
           IN  SenderInv(u) /\ Alike(t, u) /\ u.timer = t.timer
  <1> DEFINE q == <<>>
             u == Drained(t)
  <1>1. q \in Seq(SegType) /\ u = [t EXCEPT !.segments_out = q]  BY DEF Drained
  <1>2. t \in SenderType  BY DEF SenderInv
  <1> HIDE DEF q, u
  <1>3. Alike(t, u) /\ u.timer = t.timer  BY <1>1, <1>2, SetOut
  <1>4. SenderInv(u)  BY <1>3, AlikeInv
  <1> QED  BY <1>3, <1>4 DEF u

LEMMA BeginFill ==
    ASSUME NEW t, SenderInv(t)
    PROVE  /\ Filling(t) \in ActType
           /\ Filling(t).call = "fill"
           /\ FillInv(t, Filling(t).f)
  <1> DEFINE w == IF t.window_size = 0 THEN 1 ELSE t.window_size
             f == Filling(t).f
  <1>1. t.window_size \in Nat /\ t.bytes_in_flight \in Nat
    BY DEF SenderInv, SenderType
  <1>2. w \in Nat /\ w >= 1 /\ w = MaxOf(t.window_size, 1)  BY <1>1 DEF MaxOf
  <1>3. t.next_seqno = 0 => t.bytes_in_flight = 0  BY DEF SenderInv, Queue, IsChain
  <1> HIDE DEF w
  <1>4. Filling(t) = [call |-> "fill", a |-> 0,
                      f |-> [window |-> w, syn |-> FALSE, more |-> w > t.bytes_in_flight]]
    BY DEF Filling, fill_begin, w
  <1>5. Filling(t) \in ActType /\ Filling(t).call = "fill"  BY <1>2, <1>4 DEF ActType
  <1>6. f.window = w /\ f.syn = FALSE /\ f.more = (w > t.bytes_in_flight)  BY <1>4
  <1> HIDE DEF f
  <1>7. f.more => t.bytes_in_flight < f.window /\ ~f.syn  BY <1>1, <1>2, <1>6, Zenon
  <1>8. ASSUME t.next_seqno = 0  PROVE f.more
    <2>1. w > t.bytes_in_flight  BY <1>1, <1>2, <1>3, <1>8
    <2> QED  BY <2>1, <1>6, Zenon
  <1>9. FillInv(t, f)  BY <1>2, <1>6, <1>7, <1>8, Zenon DEF FillInv
  <1> QED  BY <1>5, <1>9 DEF f

\* A call that goes on with fill_window.
LEMMA EnterFill ==
    ASSUME SenderInv(s'), Quiet(s'), BeforeSyn(s'), act' = Filling(s')
    PROVE  IInv'
  <1>1. /\ Filling(s') \in ActType
        /\ Filling(s').call = "fill"
        /\ FillInv(s', Filling(s').f)
    BY BeginFill
  <1>2. act'.call # "idle" /\ act'.call # "ack" /\ act'.call = "fill"  BY <1>1
  <1> QED  BY <1>1, <1>2, Zenon DEF IInv

\* Between two calls.
LEMMA Resting ==
    ASSUME IInv, act = Idle
    PROVE  /\ SenderInv(s) /\ Quiet(s) /\ BeforeSyn(s)
           /\ s.next_seqno = 0 => s.window_size = 1 /\ s.stream.cur_cap = 0
  <1>1. act.call = "idle"  BY DEF Idle
  <1> QED  BY <1>1 DEF IInv

\* Another stream that is counted the same.
LEMMA SetStream ==
    ASSUME NEW t, SenderInv(t), NEW st,
           Counting(st, t.next_seqno, t.is_transmission_ended)
    PROVE  LET u == [t EXCEPT !.stream = st]
           IN  /\ SenderInv(u)
               /\ Quiet(t) => Quiet(u)
               /\ u.next_seqno = t.next_seqno /\ u.window_size = t.window_size
               /\ u.stream = st
  <1> DEFINE u == [t EXCEPT !.stream = st]
  <1>1. t \in SenderType  BY DEF SenderInv
  <1>2. st \in StreamType(Nat)  BY DEF Counting, StreamOK
  <1>3. u \in SenderType  BY <1>1, <1>2, Zenon DEF SenderType
  <1>4. /\ u.next_seqno = t.next_seqno /\ u.window_size = t.window_size
        /\ u.bytes_in_flight = t.bytes_in_flight /\ u.una_seqno = t.una_seqno
        /\ u.outstanding = t.outstanding /\ u.stream = st
        /\ u.timer = t.timer /\ u.isn = t.isn
        /\ u.is_transmission_ended = t.is_transmission_ended
    BY <1>1 DEF SenderType
  <1> HIDE DEF u
  <1>5. SenderInv(u)  BY <1>3, <1>4, Zenon DEF SenderInv
  <1>6. Quiet(t) => Quiet(u)  BY <1>4, Zenon DEF Quiet
  <1> QED  BY <1>4, <1>5, <1>6 DEF u

LEMMA FillWindowStep ==
    ASSUME IInv, FillWindow
    PROVE  IInv' /\ s'.next_seqno = s.next_seqno
  <1>1. /\ SenderInv(s) /\ Quiet(s) /\ BeforeSyn(s)
        /\ s' = Drained(s) /\ act' = Filling(s')
    BY Resting DEF FillWindow
  <1>2. SenderInv(s') /\ Alike(s, s') /\ s'.timer = s.timer  BY <1>1, DrainedInv
  <1>3. Quiet(s') /\ BeforeSyn(s')  BY <1>1, <1>2, AlikeInv
  <1> QED  BY <1>1, <1>2, <1>3, EnterFill DEF Alike

LEMMA BytesSeq ==
    ASSUME NEW i \in Nat, NEW j \in Nat, i <= j
    PROVE  Bytes(i, j) \in Seq(Nat) /\ Len(Bytes(i, j)) = j - i
  BY DEF Bytes

LEMMA WriteStep ==
    ASSUME IInv, NEW n \in 1 .. MaxBytes, Write(n)
    PROVE  IInv' /\ s'.next_seqno = s.next_seqno
  <1> DEFINE u  == Drained(s)
             i  == s.stream.bytes_written
             st == ByteStream_write(s.stream, Bytes(i, i + n))
  <1>1. /\ SenderInv(s) /\ Quiet(s)
        /\ s.next_seqno = 0 => s.window_size = 1 /\ s.stream.cur_cap = 0
        /\ act = Idle
    BY Resting DEF Write
  <1>2. /\ SenderInv(u)
        /\ u.next_seqno = s.next_seqno /\ u.window_size = s.window_size
        /\ u.una_seqno = s.una_seqno /\ u.outstanding = s.outstanding
        /\ u.stream = s.stream /\ u.timer = s.timer
        /\ u.is_transmission_ended = s.is_transmission_ended
    BY <1>1, DrainedInv DEF Alike
  <1>3. Counting(s.stream, s.next_seqno, s.is_transmission_ended)  BY <1>1 DEF SenderInv
  <1>4. i \in Nat /\ n \in Nat /\ i + n <= MaxBytes /\ i <= i + n /\ i + n \in Nat
    <2>1. i \in Nat  BY <1>3 DEF Counting, StreamOK, StreamType
    <2>2. i + n <= MaxBytes  BY Zenon DEF Write
    <2> HIDE DEF i
    <2> QED  BY <2>1, <2>2, Constants
  <1>5. s' = [u EXCEPT !.stream = st] /\ act' = Filling(s')
    BY <1>2 DEF Write
  <1> DEFINE d == Bytes(i, i + n)
             k == ByteStream_accepted(s.stream, d)
  <1>6. d \in Seq(Nat) /\ Len(d) = n
    <2> DEFINE j == i + n
    <2>1. j \in Nat /\ i <= j /\ j - i = n  BY <1>4
    <2> HIDE DEF j, i
    <2>2. Bytes(i, j) \in Seq(Nat) /\ Len(Bytes(i, j)) = j - i  BY <2>1, <1>4, BytesSeq, Zenon
    <2> QED  BY <2>1, <2>2 DEF j
  <1> HIDE DEF u, i, d
  <1>7. /\ k \in 0 .. n /\ StreamOK(st, Nat) /\ st.bytes_written = i + k
        /\ st.bytes_read = s.stream.bytes_read
    <2>1. StreamOK(s.stream, Nat)  BY <1>3 DEF Counting
    <2>2. st = ByteStream_write(s.stream, d)  BY DEF d
    <2>3. /\ k \in 0 .. Len(d) /\ StreamOK(st, Nat)
          /\ st.bytes_written = s.stream.bytes_written + k
          /\ st.bytes_read = s.stream.bytes_read
      BY <2>1, <2>2, <1>6, WriteOK
    <2> QED  BY <2>3, <1>6 DEF i
  <1> HIDE DEF st, k
  <1>8. Counting(st, s.next_seqno, s.is_transmission_ended)
    <2>1. st.bytes_written <= MaxBytes  BY <1>4, <1>7, Constants
    <2> QED  BY <2>1, <1>3, <1>7, Zenon DEF Counting
  <1>9. /\ SenderInv(s') /\ s'.next_seqno = s.next_seqno
        /\ s'.window_size = s.window_size /\ s'.stream = st
        /\ Quiet(u) => Quiet(s')
    <2>1. Counting(st, u.next_seqno, u.is_transmission_ended)  BY <1>2, <1>8, Zenon
    <2> QED  BY <2>1, <1>2, <1>5, SetStream
  <1>10. Quiet(s')  BY <1>1, <1>2, <1>9, Zenon DEF Quiet
  <1>11. BeforeSyn(s')  BY <1>1, <1>9 DEF BeforeSyn
  <1> QED  BY <1>5, <1>9, <1>10, <1>11, EnterFill

LEMMA EndInputStep ==
    ASSUME IInv, EndInput
    PROVE  IInv' /\ s'.next_seqno = s.next_seqno
  <1> DEFINE u  == Drained(s)
             st == ByteStream_end_input(s.stream)
  <1>1. SenderInv(s) /\ Quiet(s) /\ BeforeSyn(s)  BY Resting DEF EndInput
  <1>2. /\ SenderInv(u)
        /\ u.next_seqno = s.next_seqno /\ u.window_size = s.window_size
        /\ u.una_seqno = s.una_seqno /\ u.outstanding = s.outstanding
        /\ u.stream = s.stream /\ u.timer = s.timer
        /\ u.is_transmission_ended = s.is_transmission_ended
    BY <1>1, DrainedInv DEF Alike
  <1>3. s' = [u EXCEPT !.stream = st] /\ act' = Filling(s')
    BY <1>2 DEF EndInput
  <1>4. Counting(s.stream, s.next_seqno, s.is_transmission_ended)  BY <1>1 DEF SenderInv
  <1>5. /\ StreamOK(st, Nat) /\ st.bytes_written = s.stream.bytes_written
        /\ st.bytes_read = s.stream.bytes_read /\ st.cur_cap = s.stream.cur_cap
    BY <1>4, EndInputOK DEF Counting
  <1> HIDE DEF u, st
  <1>6. Counting(st, u.next_seqno, u.is_transmission_ended)
    BY <1>2, <1>4, <1>5, Zenon DEF Counting
  <1>7. /\ SenderInv(s') /\ s'.next_seqno = s.next_seqno
        /\ s'.window_size = s.window_size /\ s'.stream = st
        /\ Quiet(u) => Quiet(s')
    BY <1>2, <1>3, <1>6, SetStream
  <1>8. Quiet(s')  BY <1>1, <1>2, <1>7, Zenon DEF Quiet
  <1>9. BeforeSyn(s')  BY <1>1, <1>5, <1>7, Zenon DEF BeforeSyn
  <1> QED  BY <1>3, <1>7, <1>8, <1>9, EnterFill

LEMMA UnwrapType ==
    ASSUME NEW n \in RawSeqno, NEW isn \in RawSeqno, NEW c \in Nat
    PROVE  unwrap(n, isn, c) \in Int
  <1> DEFINE o   == Offset(n, isn)
             res == (c - (c % SeqnoMod)) + o
             up  == (res + SeqnoMod) % AbsMod
  <1>1. SeqnoMod \in Nat \ {0} /\ AbsMod \in Nat \ {0}
    BY SeqnoModAssumption, AbsModAssumption
  <1>2. o \in Int
    <2>1. n \in Int /\ isn \in Int  BY <1>1 DEF RawSeqno
    <2>2. o = (n - isn) % SeqnoMod  BY OffsetIsRemainder
    <2> HIDE DEF o
    <2> QED  BY <2>1, <2>2, <1>1
  <1>3. unwrap(n, isn, c) \in {res, up, res - SeqnoMod}  BY DEF unwrap
  <1> HIDE DEF o
  <1>4. c % SeqnoMod \in Int  BY <1>1
  <1>5. res \in Int  BY <1>2, <1>4
  <1>6. unwrap(n, isn, c) \in {res, up, res - SeqnoMod}  BY <1>3
  <1> HIDE DEF res
  <1>7. up \in Int /\ res - SeqnoMod \in Int  BY <1>1, <1>5
  <1> HIDE DEF up
  <1> QED  BY <1>5, <1>6, <1>7

LEMMA NextBound ==
    ASSUME NEW t, SenderInv(t)
    PROVE  t.next_seqno \in 0 .. MaxBytes + 2
  <1>1. t.next_seqno \in Nat  BY DEF SenderInv, SenderType
  <1>2. t.next_seqno # 0 =>
            t.next_seqno = t.stream.bytes_read + 1 + Bit(t.is_transmission_ended)
    BY <1>1 DEF SenderInv, Counting
  <1>3. /\ t.stream.bytes_read \in Nat /\ t.stream.cur_cap \in Nat
        /\ t.stream.bytes_written = t.stream.bytes_read + t.stream.cur_cap
        /\ t.stream.bytes_written <= MaxBytes
    BY DEF SenderInv, Counting, StreamOK, StreamType
  <1>4. Bit(t.is_transmission_ended) \in {0, 1}  BY BitType
  <1> QED  BY <1>1, <1>2, <1>3, <1>4, Constants

\* unwrap recovers the start of a segment of the queue.
LEMMA FrontNumber ==
    ASSUME NEW t, SenderInv(t), t.outstanding # <<>>
    PROVE  LET seg == t.outstanding[1]
           IN  /\ seg = Head(t.outstanding)
               /\ seg \in SegType
               /\ seg.abs \in Nat /\ t.next_seqno \in Nat /\ t.bytes_in_flight \in Nat
               /\ t.bytes_in_flight = t.next_seqno - seg.abs
               /\ unwrap(seg.seqno, t.isn, t.next_seqno) = seg.abs
  <1> DEFINE seg == t.outstanding[1]
  <1>1. /\ t.outstanding \in Seq(SegType) /\ t.next_seqno \in Nat
        /\ t.bytes_in_flight \in Nat
    BY DEF SenderInv, SenderType
  <1>2. Len(t.outstanding) >= 1 /\ seg \in SegType /\ seg = Head(t.outstanding)  BY <1>1
  <1>3. seg.abs \in Nat  BY <1>2, SegmentLength
  <1>4. /\ t.bytes_in_flight = t.next_seqno - seg.abs
        /\ seg.seqno = wrap(seg.abs, Isn)
        /\ t.next_seqno # 0
    BY <1>2 DEF SenderInv, Queue, IsChain
  <1> HIDE DEF seg
  <1>5. t.next_seqno <= MaxBytes + 2  BY NextBound
  <1>6. t.bytes_in_flight <= MaxWindow /\ t.isn = Isn  BY DEF SenderInv
  <1>7. /\ seg.abs \in AbsSeqno /\ t.next_seqno \in AbsSeqno
        /\ Distance(seg.abs, t.next_seqno) < HalfSeq
    <2>1. HalfSeq \in Int  BY Constants DEF HalfSeq
    <2>2. seg.abs <= t.next_seqno  BY <1>1, <1>3, <1>4
    <2>3. seg.abs \in AbsSeqno /\ t.next_seqno \in AbsSeqno
      BY <2>2, <1>1, <1>3, <1>5, Constants DEF AbsSeqno
    <2> QED  BY ONLY <2>1, <2>2, <2>3, <1>1, <1>3, <1>4, <1>6, Constants, SMTT(30) DEF Distance
  <1>8. unwrap(seg.seqno, t.isn, t.next_seqno) = seg.abs
    BY <1>4, <1>6, <1>7, Constants, RoundTrip
  <1> QED  BY <1>1, <1>2, <1>3, <1>4, <1>8 DEF seg

\* The first part of ack_received.
LEMMA AckBegin ==
    ASSUME NEW t, SenderInv(t), Quiet(t), NEW a \in Int, NEW w \in 0 .. MaxWindow
    PROVE  LET u == ack_begin(t, a, w)
           IN  /\ SenderInv(u)
               /\ acceptable(t, a) => a \in Nat /\ AckInv(u, a)
               /\ ~acceptable(t, a) => Quiet(u)
               /\ u.next_seqno = t.next_seqno /\ u.stream = t.stream
  <1> DEFINE ok  == acceptable(t, a)
             una == IF ok THEN a ELSE t.una_seqno
             u   == ack_begin(t, a, w)
  <1>1. /\ t \in SenderType /\ t.una_seqno \in Nat /\ t.next_seqno \in Nat
        /\ t.outstanding \in Seq(SegType)
    BY DEF SenderInv, SenderType
  <1>2. w \in Nat /\ w <= MaxWindow  BY Constants
  <1>3. una \in Nat /\ (ok => a \in Nat /\ a > t.una_seqno /\ a <= t.next_seqno)
    BY <1>1 DEF acceptable
  <1>4. u = [t EXCEPT !.window_size = w, !.una_seqno = una]
    <2>1. CASE ok  BY <2>1, <1>1 DEF ack_begin, SenderType
    <2>2. CASE ~ok
      <3>1. u = [t EXCEPT !.window_size = w]  BY <2>2 DEF ack_begin
      <3>2. una = t.una_seqno  BY <2>2
      <3> HIDE DEF una, u
      <3> QED  BY <3>1, <3>2, <1>1, Zenon DEF SenderType
    <2> QED  BY <2>1, <2>2
  <1>5. (ok => una = a) /\ (~ok => una = t.una_seqno)  OBVIOUS
  <1> HIDE DEF u, una
  <1>6. u \in SenderType  BY <1>1, <1>2, <1>3, <1>4, Zenon DEF SenderType
  <1>7. /\ u.next_seqno = t.next_seqno /\ u.window_size = w
        /\ u.bytes_in_flight = t.bytes_in_flight /\ u.una_seqno = una
        /\ u.outstanding = t.outstanding /\ u.stream = t.stream
        /\ u.timer = t.timer /\ u.isn = t.isn
        /\ u.is_transmission_ended = t.is_transmission_ended
    BY <1>1, <1>4 DEF SenderType
  <1>8. SenderInv(u)
    <2>1. una <= t.next_seqno  BY <1>3, <1>5 DEF SenderInv
    <2> QED  BY <2>1, <1>2, <1>6, <1>7, Zenon DEF SenderInv
  <1>9. ASSUME ok  PROVE AckInv(u, a)
    <2>1. InFront(t.outstanding, t.una_seqno, t.next_seqno)  BY DEF Quiet
    <2>2. /\ t.outstanding # <<>> => t.outstanding[1].abs <= a
          /\ t.outstanding = <<>> => a = t.next_seqno
      <3>1. ASSUME t.outstanding # <<>>  PROVE t.outstanding[1].abs \in Nat
        BY <3>1, FrontNumber
      <3> QED  BY <2>1, <3>1, <1>1, <1>3, <1>9 DEF InFront
    <2>3. t.next_seqno > 0  BY <1>1, <1>3, <1>9
    <2> QED  BY <2>2, <2>3, <1>3, <1>5, <1>7, <1>9 DEF AckInv
  <1>10. ASSUME ~ok  PROVE Quiet(u)
    BY <1>5, <1>7, <1>10, Zenon DEF Quiet
  <1> QED  BY <1>3, <1>7, <1>8, <1>9, <1>10 DEF u

LEMMA AckReceivedStep ==
    ASSUME IInv, NEW ackno \in RawSeqno, NEW window \in 0 .. MaxWindow,
           AckReceived(ackno, window)
    PROVE  IInv' /\ s'.next_seqno = s.next_seqno
  <1> DEFINE u == Drained(s)
             a == ackno_abs(s, ackno)
  <1>1. /\ SenderInv(s) /\ Quiet(s)
        /\ s.next_seqno = 0 => s.window_size = 1 /\ s.stream.cur_cap = 0
    BY Resting DEF AckReceived
  <1>2. /\ SenderInv(u)
        /\ u.next_seqno = s.next_seqno /\ u.una_seqno = s.una_seqno
        /\ u.outstanding = s.outstanding /\ u.stream = s.stream /\ u.timer = s.timer
    BY <1>1, DrainedInv DEF Alike
  <1>3. a \in Int
    <2>1. s.isn \in RawSeqno /\ s.next_seqno \in Nat  BY <1>1 DEF SenderInv, SenderType
    <2> QED  BY <2>1, UnwrapType DEF ackno_abs
  <1>4. /\ s' = ack_begin(u, a, window)
        /\ act' = IF acceptable(s, a) THEN Acking(a) ELSE Filling(s')
    BY DEF AckReceived
  <1> HIDE DEF u, a
  <1>5. Quiet(u)  BY <1>1, <1>2, Zenon DEF Quiet
  <1>6. acceptable(u, a) <=> acceptable(s, a)  BY <1>2, Zenon DEF acceptable
  <1>7. /\ SenderInv(s')
        /\ acceptable(u, a) => a \in Nat /\ AckInv(s', a)
        /\ ~acceptable(u, a) => Quiet(s')
        /\ s'.next_seqno = u.next_seqno /\ s'.stream = u.stream
    BY <1>2, <1>3, <1>4, <1>5, AckBegin
  <1>8. BeforeSyn(s')  BY <1>1, <1>2, <1>7 DEF BeforeSyn
  <1>9. ASSUME acceptable(s, a)  PROVE IInv'
    <2>1. act' = Acking(a) /\ a \in Nat /\ AckInv(s', a)  BY <1>4, <1>6, <1>7, <1>9
    <2>2. act' \in ActType /\ act'.call = "ack" /\ act'.a = a
      BY <2>1 DEF Acking, NoFill, ActType
    <2>3. AckInv(s', act'.a)  BY <2>1, <2>2
    <2>4. act'.call # "idle" /\ act'.call # "fill"  BY <2>2
    <2> QED  BY <2>2, <2>3, <2>4, <1>7, <1>8, Zenon DEF IInv
  <1>10. ASSUME ~acceptable(s, a)  PROVE IInv'
    BY <1>4, <1>6, <1>7, <1>8, <1>10, EnterFill
  <1> QED  BY <1>2, <1>7, <1>9, <1>10

LEMMA AckPopStep ==
    ASSUME IInv, AckPop
    PROVE  IInv' /\ s'.next_seqno = s.next_seqno
  <1> DEFINE q   == s.outstanding
             len == length_in_sequence_space(q[1])
             bif == s.bytes_in_flight - len
             nxt == s.next_seqno
  <1>1. /\ SenderInv(s) /\ AckInv(s, act.a) /\ BeforeSyn(s) /\ act \in ActType
        /\ act.call = "ack" /\ act' = act
        /\ q # <<>> /\ s' = ack_pop(s)
    BY DEF IInv, AckPop, fully_acked
  <1>2. /\ q[1] = Head(q) /\ q[1] \in SegType /\ q[1].abs \in Nat
        /\ nxt \in Nat /\ s.bytes_in_flight \in Nat
        /\ unwrap(q[1].seqno, s.isn, nxt) = q[1].abs
    BY <1>1, FrontNumber
  <1>3. len \in Nat /\ SegEnd(q[1]) = q[1].abs + len  BY <1>2, SegmentLength
  <1>4. act.a >= SegEnd(q[1])
    BY <1>1, <1>2, <1>3 DEF AckPop, fully_acked
  <1>5. s \in SenderType /\ q \in Seq(SegType) /\ Queue(q, nxt, s.bytes_in_flight)
    BY <1>1 DEF SenderInv, SenderType
  <1>6. /\ Tail(q) \in Seq(SegType) /\ IsChain(Tail(q), nxt, bif)
        /\ Tail(q) # <<>> => Tail(q)[1].abs = SegEnd(q[1])
        /\ Tail(q) = <<>> => SegEnd(q[1]) = nxt
    BY <1>1, <1>2, <1>5, ChainTail, Zenon DEF Queue
  <1>7. act.a \in Nat /\ act.a <= nxt /\ nxt > 0 /\ act.a = s.una_seqno
    BY <1>1 DEF AckInv, ActType
  <1>8. bif \in Nat /\ bif <= MaxWindow
    <2>1. bif \in Int /\ bif <= s.bytes_in_flight /\ s.bytes_in_flight <= MaxWindow
      BY <1>1, <1>2, <1>3 DEF SenderInv
    <2>2. bif >= 0
      <3> HIDE DEF bif
      <3>1. CASE Tail(q) = <<>>  BY <3>1, <1>6 DEF IsChain
      <3>2. CASE Tail(q) # <<>>
        <4>1. bif = nxt - SegEnd(q[1])  BY <3>2, <1>6 DEF IsChain
        <4>2. SegEnd(q[1]) \in Nat  BY <1>2, <1>3
        <4> QED  BY <4>1, <4>2, <1>2, <1>4, <1>7
      <3> QED  BY <3>1, <3>2
    <2> HIDE DEF bif
    <2> QED  BY <2>1, <2>2, <1>2, Constants
  <1>9. \A k \in 1 .. Len(Tail(q)) : Tail(q)[k] = q[k + 1] /\ k + 1 \in 1 .. Len(q)
    BY <1>1, <1>5
  <1>10. Queue(Tail(q), nxt, bif)
    <2>1. \A k \in 1 .. Len(Tail(q)) :
             /\ length_in_sequence_space(Tail(q)[k]) >= 1
             /\ Tail(q)[k].seqno = wrap(Tail(q)[k].abs, Isn)
      <3>1. \A k \in 1 .. Len(q) : /\ length_in_sequence_space(q[k]) >= 1
                                   /\ q[k].seqno = wrap(q[k].abs, Isn)
        BY <1>5, Zenon DEF Queue
      <3> HIDE DEF q
      <3> QED  BY <3>1, <1>9, Zenon
    <2>2. nxt # 0  BY <1>2, <1>7
    <2> HIDE DEF q, bif, nxt
    <2> QED  BY <2>1, <2>2, <1>6, Zenon DEF Queue
  <1> DEFINE p == Tail(q)
  <1>11. s' = [s EXCEPT !.bytes_in_flight = bif, !.outstanding = p]
    BY <1>1, <1>2 DEF ack_pop
  <1>12. p \in Seq(SegType) /\ bif \in Nat /\ Queue(p, nxt, bif)
         /\ (p # <<>> => p[1].abs = SegEnd(q[1])) /\ (p = <<>> => SegEnd(q[1]) = nxt)
    BY <1>6, <1>8, <1>10
  <1> HIDE DEF p, bif
  <1>13. s' \in SenderType  BY <1>5, <1>11, <1>12, Zenon DEF SenderType
  <1>14. /\ s'.next_seqno = nxt /\ s'.window_size = s.window_size
         /\ s'.bytes_in_flight = bif /\ s'.una_seqno = s.una_seqno
         /\ s'.outstanding = p /\ s'.stream = s.stream /\ s'.isn = s.isn
         /\ s'.is_transmission_ended = s.is_transmission_ended
    BY <1>5, <1>11 DEF SenderType
  <1>15. SenderInv(s')
    BY <1>1, <1>8, <1>12, <1>13, <1>14, Zenon DEF SenderInv
  <1>16. AckInv(s', act.a)
    <2>1. SegEnd(q[1]) \in Nat  BY <1>2, <1>3
    <2>2. p # <<>> => p[1].abs <= act.a  BY <2>1, <1>4, <1>7, <1>12
    <2>3. p = <<>> => act.a = nxt  BY <2>1, <1>2, <1>4, <1>7, <1>12
    <2> QED  BY <2>2, <2>3, <1>7, <1>14, Zenon DEF AckInv
  <1>17. BeforeSyn(s')  BY <1>1, <1>14, Zenon DEF BeforeSyn
  <1>18. act'.call = "ack" /\ act'.call # "idle" /\ act'.call # "fill" /\ act'.a = act.a
    BY <1>1
  <1>19. IInv'  BY <1>1, <1>15, <1>16, <1>17, <1>18, Zenon DEF IInv
  <1> QED  BY <1>14, <1>19

LEMMA TimerOps ==
    ASSUME NEW tm \in TimerType, NEW n \in Nat
    PROVE  /\ Timer_stop(tm) \in TimerType /\ ~Timer_stop(tm).is_start
           /\ Timer_start(tm, n) \in TimerType /\ Timer_start(tm, n).is_start
           /\ Timer_start(Timer_stop(tm), n) \in TimerType
           /\ Timer_start(Timer_stop(tm), n).is_start
           /\ Timer_tick(tm, n) \in TimerType
           /\ Timer_tick(tm, n).is_start <=> tm.is_start
  BY DEF TimerType, Timer_stop, Timer_start, Timer_tick, NewTimer

LEMMA AckFinishStep ==
    ASSUME IInv, AckFinish
    PROVE  IInv' /\ s'.next_seqno = s.next_seqno
  <1> DEFINE q  == s.outstanding
             tm == IF q = <<>> THEN Timer_stop(s.timer)
                   ELSE Timer_start(Timer_stop(s.timer), s.initial_rto)
             rto == s.initial_rto
  <1>1. /\ SenderInv(s) /\ AckInv(s, act.a) /\ BeforeSyn(s) /\ act \in ActType
        /\ act' = Filling(s') /\ s' = ack_finish(s) /\ ~fully_acked(s, act.a)
    BY DEF IInv, AckFinish
  <1>2. /\ s \in SenderType /\ s.timer \in TimerType /\ rto \in Nat
        /\ s.una_seqno \in Nat /\ s.next_seqno \in Nat
    BY <1>1 DEF SenderInv, SenderType
  <1>3. tm \in TimerType /\ (tm.is_start <=> q # <<>>)  BY <1>2, TimerOps
  <1>4. s' = [s EXCEPT !.cur_rto = rto, !.consecutive_retrans = 0, !.timer = tm]
    BY <1>1 DEF ack_finish
  <1> HIDE DEF tm, rto
  <1>5. Alike(s, s') /\ s'.timer = tm
    <2>1. s' \in SenderType  BY <1>2, <1>3, <1>4, Zenon DEF SenderType
    <2>2. /\ s'.isn = s.isn /\ s'.stream = s.stream /\ s'.next_seqno = s.next_seqno
          /\ s'.window_size = s.window_size /\ s'.bytes_in_flight = s.bytes_in_flight
          /\ s'.una_seqno = s.una_seqno /\ s'.outstanding = s.outstanding
          /\ s'.is_transmission_ended = s.is_transmission_ended /\ s'.timer = tm
      BY <1>2, <1>4 DEF SenderType
    <2> QED  BY <2>1, <2>2 DEF Alike
  <1>6. SenderInv(s') /\ BeforeSyn(s')  BY <1>1, <1>5, AlikeInv
  <1>7. InFront(q, s.una_seqno, s.next_seqno)
    <2>1. CASE q = <<>>  BY <2>1, <1>1 DEF AckInv, InFront
    <2>2. CASE q # <<>>
      <3>1. /\ q[1] = Head(q) /\ q[1] \in SegType /\ q[1].abs \in Nat
            /\ unwrap(q[1].seqno, s.isn, s.next_seqno) = q[1].abs
        BY <2>2, <1>1, FrontNumber
      <3>2. SegEnd(q[1]) \in Nat /\ SegEnd(q[1]) = q[1].abs + length_in_sequence_space(q[1])
        BY <3>1, SegmentLength
      <3>3. ~(act.a >= SegEnd(q[1]))  BY <3>1, <3>2, <2>2, <1>1, Zenon DEF fully_acked
      <3>4. act.a = s.una_seqno /\ q[1].abs <= act.a  BY <2>2, <1>1 DEF AckInv
      <3> QED  BY <3>2, <3>3, <3>4, <2>2, <1>2 DEF InFront
    <2> QED  BY <2>1, <2>2
  <1>8. Quiet(s')  BY <1>3, <1>5, <1>7, Zenon DEF Quiet, Alike
  <1> QED  BY <1>1, <1>5, <1>6, <1>8, EnterFill DEF Alike

LEMMA FillReturnStep ==
    ASSUME IInv, FillReturn
    PROVE  IInv' /\ s'.next_seqno = s.next_seqno
  <1>1. /\ SenderInv(s) /\ Quiet(s) /\ BeforeSyn(s) /\ FillInv(s, act.f)
        /\ ~act.f.more /\ act' = Idle /\ s' = s
    BY DEF IInv, FillReturn
  <1>2. s.next_seqno # 0  BY <1>1 DEF FillInv
  <1>3. Idle \in ActType /\ Idle.call = "idle"  BY DEF Idle, NoFill, ActType
  <1>4. act'.call # "fill" /\ act'.call # "ack" /\ act'.call = "idle"  BY <1>1, <1>3
  <1>5. IInv'  BY <1>1, <1>2, <1>3, <1>4, Zenon DEF IInv
  <1> QED  BY <1>1, <1>5

\* A call that returns at once.
LEMMA StayIdle ==
    ASSUME IInv, act = Idle, act' = act, SenderInv(s'), Quiet(s'),
           s'.next_seqno = s.next_seqno, s'.window_size = s.window_size,
           s'.stream = s.stream
    PROVE  IInv'
  <1>1. BeforeSyn(s) /\ (s.next_seqno = 0 => s.window_size = 1 /\ s.stream.cur_cap = 0)
    BY Resting
  <1>2. BeforeSyn(s')  BY <1>1, Zenon DEF BeforeSyn
  <1>3. Idle \in ActType /\ Idle.call = "idle"  BY DEF Idle, NoFill, ActType
  <1>4. act'.call # "fill" /\ act'.call # "ack" /\ act'.call = "idle"  BY <1>3
  <1> QED  BY <1>1, <1>2, <1>3, <1>4, Zenon DEF IInv

LEMMA AlikeTrans ==
    ASSUME NEW t, NEW u, NEW v, Alike(t, u), Alike(u, v)
    PROVE  Alike(t, v)
  BY Zenon DEF Alike

LEMMA TickAlike ==
    ASSUME NEW t, SenderInv(t), Quiet(t), NEW ms \in Nat
    PROVE  LET u == TCPSender_tick(t, ms)
           IN  Alike(t, u) /\ (u.timer.is_start <=> t.timer.is_start)
  <1> DEFINE tm == Timer_tick(t.timer, ms)
             t1 == [t EXCEPT !.timer = tm]
             t2 == retransmit(t1)
             t3 == backoff(t2)
             t4 == [t3 EXCEPT !.timer = Timer_start(Timer_stop(t3.timer), t3.cur_rto)]
             u  == TCPSender_tick(t, ms)
  <1>1. t \in SenderType /\ t.timer \in TimerType  BY DEF SenderInv, SenderType
  <1>2. tm \in TimerType /\ (tm.is_start <=> t.timer.is_start)  BY <1>1, TimerOps, Zenon
  <1>3. Alike(t, t1) /\ t1.timer = tm
    <2> HIDE DEF tm
    <2> QED  BY <1>1, <1>2, SetTimer
  <1>4. CASE ~(Timer_expired(t1.timer) /\ t1.outstanding # <<>>)
    <2>1. u = t1  BY <1>4 DEF TCPSender_tick
    <2> HIDE DEF u, t1, tm
    <2> QED  BY <2>1, <1>2, <1>3 DEF u
  <1>5. CASE Timer_expired(t1.timer) /\ t1.outstanding # <<>>
    <2>0. u = t4  BY <1>5 DEF TCPSender_tick
    <2>1. t2 = [t1 EXCEPT !.segments_out = Append(t1.segments_out, Head(t1.outstanding))]
      BY DEF retransmit
    <2>2. t3 = IF t2.window_size = 0 THEN t2
               ELSE [t2 EXCEPT !.consecutive_retrans = t2.consecutive_retrans + 1,
                               !.cur_rto = 2 * t2.cur_rto]
      BY DEF backoff
    <2>3. t4 = [t3 EXCEPT !.timer = Timer_start(Timer_stop(t3.timer), t3.cur_rto)]
      OBVIOUS
    <2>4. t.timer.is_start
      <3>1. t1.outstanding = t.outstanding  BY <1>3 DEF Alike
      <3> HIDE DEF t1
      <3> QED  BY <3>1, <1>5 DEF Quiet
    <2> HIDE DEF t1, t2, t3, t4, tm, u
    <2>5. Alike(t1, t2)
      <3>1. t1 \in SenderType  BY <1>3 DEF Alike
      <3>2. t1.segments_out \in Seq(SegType) /\ t1.outstanding \in Seq(SegType)
        BY <3>1 DEF SenderType
      <3> DEFINE out == Append(t1.segments_out, Head(t1.outstanding))
      <3>3. out \in Seq(SegType)  BY <3>2, <1>5
      <3> HIDE DEF out
      <3>4. t2 = [t1 EXCEPT !.segments_out = out]  BY <2>1 DEF out
      <3> QED  BY <3>1, <3>3, <3>4, SetOut
    <2>6. Alike(t2, t3)
      <3>1. t2 \in SenderType  BY <2>5 DEF Alike
      <3>2. t2.consecutive_retrans \in Nat /\ t2.cur_rto \in Nat  BY <3>1 DEF SenderType
      <3>3. CASE t2.window_size = 0  BY <3>1, <3>3, <2>2 DEF Alike
      <3>4. CASE t2.window_size # 0
        <4> DEFINE n   == t2.consecutive_retrans + 1
                   rto == 2 * t2.cur_rto
        <4>1. n \in Nat /\ rto \in Nat  BY <3>2
        <4>2. t3 = [t2 EXCEPT !.consecutive_retrans = n, !.cur_rto = rto]  BY <3>4, <2>2
        <4> HIDE DEF n, rto
        <4> QED  BY <4>1, <4>2, <3>1, SetRto, Zenon
      <3> QED  BY <3>3, <3>4
    <2>7. Alike(t3, t4) /\ t4.timer.is_start
      <3>1. t3 \in SenderType  BY <2>6 DEF Alike
      <3>2. t3.timer \in TimerType /\ t3.cur_rto \in Nat  BY <3>1 DEF SenderType
      <3> DEFINE tm4 == Timer_start(Timer_stop(t3.timer), t3.cur_rto)
      <3>3. tm4 \in TimerType /\ tm4.is_start  BY <3>2, TimerOps
      <3>4. t4 = [t3 EXCEPT !.timer = tm4]  BY <2>3
      <3> HIDE DEF tm4
      <3>5. Alike(t3, t4) /\ t4.timer = tm4  BY <3>1, <3>3, <3>4, SetTimer
      <3> QED  BY <3>3, <3>5
    <2>8. Alike(t, t4)  BY <1>3, <2>5, <2>6, <2>7, AlikeTrans
    <2> QED  BY <2>0, <2>4, <2>7, <2>8 DEF u
  <1> QED  BY <1>4, <1>5

LEMMA TickStep ==
    ASSUME IInv, NEW ms \in 1 .. MaxTick, Tick(ms)
    PROVE  IInv' /\ s'.next_seqno = s.next_seqno
  <1> DEFINE u == Drained(s)
  <1>1. /\ SenderInv(s) /\ Quiet(s) /\ act = Idle /\ act' = act
        /\ s' = TCPSender_tick(u, ms)
    BY Resting DEF Tick
  <1>2. SenderInv(u) /\ Alike(s, u) /\ u.timer = s.timer  BY <1>1, DrainedInv
  <1>3. ms \in Nat  BY Constants
  <1> HIDE DEF u
  <1>4. Quiet(u)  BY <1>1, <1>2, AlikeInv
  <1>5. Alike(u, s') /\ (s'.timer.is_start <=> u.timer.is_start)
    BY <1>1, <1>2, <1>3, <1>4, TickAlike
  <1>6. SenderInv(s') /\ Quiet(s')  BY <1>2, <1>4, <1>5, AlikeInv
  <1>7. /\ s'.next_seqno = s.next_seqno /\ s'.window_size = s.window_size
        /\ s'.stream = s.stream
    BY <1>2, <1>5, Zenon DEF Alike
  <1> QED  BY <1>1, <1>6, <1>7, StayIdle

LEMMA NewSegType == NewTCPSegment \in SegType
  <1> DEFINE p == <<>>
  <1>1. 0 \in RawSeqno /\ p \in Seq(Nat)  BY Constants DEF RawSeqno
  <1>2. NewTCPSegment
          = [seqno |-> 0, ackno |-> 0, ack |-> FALSE, rst |-> FALSE, syn |-> FALSE,
             fin |-> FALSE, win |-> 0, payload |-> p, abs |-> 0]
    BY DEF NewTCPSegment
  <1> HIDE DEF p
  <1> QED  BY <1>1, <1>2 DEF SegType

LEMMA EmptySegType ==
    ASSUME NEW n \in Nat
    PROVE  [NewTCPSegment EXCEPT !.seqno = wrap(n, Isn), !.abs = n] \in SegType
  <1> DEFINE w == wrap(n, Isn)
  <1>1. w \in RawSeqno  BY Constants, OffsetOfWrap
  <1> HIDE DEF w
  <1>2. [NewTCPSegment EXCEPT !.seqno = w, !.abs = n] \in SegType
    BY <1>1, NewSegType, Zenon DEF SegType
  <1> QED  BY <1>2 DEF w

LEMMA SendEmptySegmentStep ==
    ASSUME IInv, SendEmptySegment
    PROVE  IInv' /\ s'.next_seqno = s.next_seqno
  <1> DEFINE u   == Drained(s)
             seg == [NewTCPSegment EXCEPT !.seqno = wrap(u.next_seqno, u.isn),
                                          !.abs = u.next_seqno]
             out == Append(u.segments_out, seg)
  <1>1. SenderInv(s) /\ Quiet(s) /\ act = Idle /\ act' = act
    BY Resting DEF SendEmptySegment
  <1>2. SenderInv(u) /\ Alike(s, u) /\ u.timer = s.timer  BY <1>1, DrainedInv
  <1>3. s' = [u EXCEPT !.segments_out = out]
    BY DEF SendEmptySegment, TCPSender_send_empty_segment
  <1> HIDE DEF u
  <1>4. /\ u \in SenderType /\ u.isn = Isn /\ u.next_seqno \in Nat
        /\ u.segments_out \in Seq(SegType)
    BY <1>2 DEF SenderInv, SenderType
  <1>5. seg \in SegType  BY <1>4, EmptySegType, Zenon
  <1> HIDE DEF seg
  <1>6. out \in Seq(SegType)  BY <1>4, <1>5
  <1> HIDE DEF out
  <1>7. Alike(u, s') /\ s'.timer = u.timer  BY <1>3, <1>4, <1>6, SetOut
  <1>8. SenderInv(s') /\ Quiet(s')  BY <1>1, <1>2, <1>7, AlikeInv
  <1>9. /\ s'.next_seqno = s.next_seqno /\ s'.window_size = s.window_size
        /\ s'.stream = s.stream
    BY <1>2, <1>7, Zenon DEF Alike
  <1> QED  BY <1>1, <1>8, <1>9, StayIdle

\* The record of an activation of fill_window.
FillType == [window : Nat, syn : BOOLEAN, more : BOOLEAN]

\* The numbers of one iteration: what it takes fits in the window, and the
\* stream, the counters and the segment agree on it.
LEMMA FillNumbers ==
    ASSUME NEW t, SenderInv(t), BeforeSyn(t), NEW f \in FillType, FillInv(t, f), f.more,
           ~t.is_transmission_ended
    PROVE  LET first == t.next_seqno = 0
               took  == Bit(first)
               got   == ByteStream_read(t.stream,
                                        read_size(f.window, t.bytes_in_flight + took))
               used  == took + Len(got.data)
               fin   == fin_now(got.stream, f.window, t.bytes_in_flight + used)
               all   == used + Bit(fin)
           IN  /\ got.data \in Seq(Nat) /\ Len(got.data) \in Nat
               /\ all \in Nat /\ all = Len(got.data) + Bit(first) + Bit(fin)
               /\ t.bytes_in_flight + all <= f.window
               /\ first => all >= 1
               /\ first => \/ got.stream.cur_cap = 0
                           \/ t.bytes_in_flight + all = f.window
               /\ Counting(got.stream, t.next_seqno + all, fin)
  <1> DEFINE first == t.next_seqno = 0
             took  == Bit(first)
             bif   == t.bytes_in_flight
             room  == read_size(f.window, bif + took)
             st    == t.stream
             got   == ByteStream_read(st, room)
             n     == Len(got.data)
             used  == took + n
             fin   == fin_now(got.stream, f.window, bif + used)
             all   == used + Bit(fin)
  <1>1. /\ bif \in Nat /\ t.next_seqno \in Nat /\ t.window_size \in Nat
        /\ t.window_size <= MaxWindow
    BY DEF SenderInv, SenderType
  <1>2. /\ f.window \in Nat /\ bif < f.window /\ f.window = MaxOf(t.window_size, 1)
    BY DEF FillInv, FillType
  <1>3. /\ StreamOK(st, Nat) /\ st.bytes_written <= MaxBytes
        /\ st.cur_cap \in Nat /\ st.bytes_read \in Nat
    BY DEF SenderInv, Counting, StreamOK, StreamType
  <1>4. /\ first => st.bytes_read = 0
        /\ ~first => t.next_seqno = st.bytes_read + 1
    <2>1. Bit(t.is_transmission_ended) = 0  BY DEF Bit
    <2> QED  BY <2>1, <1>1, <1>3 DEF SenderInv, Counting
  <1>5. took \in {0, 1} /\ (first => took = 1) /\ (~first => took = 0)  BY DEF Bit
  <1>6. first => bif = 0  BY DEF SenderInv, Queue, IsChain
  <1>7. first => st.cur_cap = 0 \/ f.window = 1
    BY <1>1, <1>2 DEF BeforeSyn, MaxOf
  <1> HIDE DEF took, first
  <1>8. room \in Nat /\ room <= f.window - (bif + took)
    BY <1>1, <1>2, <1>5, Constants DEF read_size, MinOf
  <1> HIDE DEF room
  <1>9. /\ got.data \in Seq(Nat) /\ n = MinOf(room, st.cur_cap)
        /\ StreamOK(got.stream, Nat)
        /\ got.stream.bytes_read = st.bytes_read + n
        /\ got.stream.bytes_written = st.bytes_written
        /\ got.stream.cur_cap = st.cur_cap - n
    <2> DEFINE m == MinOf(room, st.cur_cap)
    <2> HIDE DEF st
    <2>1. /\ got.data \in Seq(Nat) /\ Len(got.data) = m
          /\ StreamOK(got.stream, Nat)
          /\ got.stream.bytes_read = st.bytes_read + m
          /\ got.stream.bytes_written = st.bytes_written
          /\ got.stream.cur_cap = st.cur_cap - m
      BY <1>3, <1>8, ReadOK
    <2> HIDE DEF got, m
    <2> QED  BY <2>1 DEF m
  <1>10. n \in Nat /\ n <= room /\ n <= st.cur_cap
    <2> HIDE DEF got, n, st
    <2> QED  BY <1>3, <1>8, <1>9 DEF MinOf
  <1>11. Bit(fin) \in {0, 1} /\ (fin => Bit(fin) = 1) /\ (~fin => Bit(fin) = 0)
    <2> HIDE DEF fin
    <2> QED  BY DEF Bit
  <1>12. fin => f.window - (bif + used) # 0  BY DEF fin_now
  <1> HIDE DEF got, n, st, fin
  <1>13. used \in Nat /\ bif + used <= f.window  BY <1>1, <1>2, <1>5, <1>8, <1>10
  <1>14. all \in Nat /\ all = n + took + Bit(fin)  BY <1>5, <1>10, <1>11
  <1>15. bif + all <= f.window  BY <1>1, <1>2, <1>11, <1>12, <1>13
  <1>16. first => all >= 1  BY <1>5, <1>10, <1>11
  <1>17. first => got.stream.cur_cap = 0 \/ bif + all = f.window
    <2>1. st.cur_cap = 0 => got.stream.cur_cap = 0  BY <1>3, <1>9, <1>10
    <2> HIDE DEF all
    <2> QED  BY ONLY <2>1, <1>1, <1>2, <1>6, <1>7, <1>14, <1>15, <1>16, SMTT(30)
  <1>18. Counting(got.stream, t.next_seqno + all, fin)
    <2>1. t.next_seqno + all = got.stream.bytes_read + 1 + Bit(fin)
      <3>1. CASE first
        <4>1. t.next_seqno = 0  BY <3>1 DEF first
        <4> QED  BY <4>1, <3>1, <1>3, <1>4, <1>5, <1>9, <1>10, <1>11
      <3>2. CASE ~first  BY <3>2, <1>3, <1>4, <1>5, <1>9, <1>10, <1>11
      <3> QED  BY <3>1, <3>2
    <2>2. t.next_seqno + all # 0
      <3>1. CASE first  BY <3>1, <1>1, <1>14, <1>16
      <3>2. CASE ~first  BY <3>2, <1>1, <1>3, <1>4, <1>14
      <3> QED  BY <3>1, <3>2
    <2>3. got.stream.bytes_written <= MaxBytes  BY <1>3, <1>9
    <2> HIDE DEF all
    <2> QED  BY <2>1, <2>2, <2>3, <1>9, Zenon DEF Counting
  <1> QED  BY <1>9, <1>10, <1>14, <1>15, <1>16, <1>17, <1>18, Zenon
           DEF first, took, room, got, n, fin, st

\* A segment behind the last one keeps the queue in order.
LEMMA QueueAppend ==
    ASSUME NEW q \in Seq(SegType), NEW nxt \in Nat, NEW bif \in Nat, NEW una \in Nat,
           NEW seg \in SegType, NEW nxt2 \in Nat, NEW bif2 \in Nat,
           Queue(q, nxt, bif), InFront(q, una, nxt),
           seg.abs = nxt, seg.seqno = wrap(nxt, Isn), length_in_sequence_space(seg) >= 1,
           nxt2 = nxt + length_in_sequence_space(seg),
           bif2 = bif + length_in_sequence_space(seg)
    PROVE  LET p == Append(q, seg)
           IN  /\ p \in Seq(SegType) /\ p # <<>>
               /\ Queue(p, nxt2, bif2)
               /\ InFront(p, una, nxt2)
  <1> DEFINE p == Append(q, seg)
             len == length_in_sequence_space(seg)
  <1>0. len \in Nat /\ SegEnd(seg) = nxt + len  BY SegmentLength
  <1>1. p \in Seq(SegType) /\ IsChain(p, nxt2, bif2)  BY ChainAppend DEF Queue
  <1>2. /\ Len(p) = Len(q) + 1 /\ p # <<>> /\ p[Len(q) + 1] = seg
        /\ \A k \in 1 .. Len(q) : p[k] = q[k]
    OBVIOUS
  <1> HIDE DEF p, len
  <1>3. ASSUME NEW k \in 1 .. Len(p)
        PROVE  length_in_sequence_space(p[k]) >= 1 /\ p[k].seqno = wrap(p[k].abs, Isn)
    <2>1. CASE k = Len(q) + 1  BY <2>1, <1>2
    <2>2. CASE k # Len(q) + 1
      <3>1. k \in 1 .. Len(q) /\ p[k] = q[k]  BY <2>2, <1>2
      <3> QED  BY <3>1, Zenon DEF Queue
    <2> QED  BY <2>1, <2>2
  <1>4. nxt2 # 0  BY <1>0 DEF len
  <1>5. Queue(p, nxt2, bif2)  BY <1>1, <1>3, <1>4, Zenon DEF Queue
  <1>6. InFront(p, una, nxt2)
    <2>1. CASE q = <<>>
      <3>1. p[1] = seg /\ una = nxt  BY <2>1, <1>2 DEF InFront
      <3>2. nxt < SegEnd(seg) /\ nxt <= nxt  BY <1>0 DEF len
      <3> QED  BY <3>1, <3>2, <1>2, Zenon DEF InFront
    <2>2. CASE q # <<>>
      <3>1. p[1] = q[1]  BY <2>2, <1>2
      <3> QED  BY <3>1, <2>2, <1>2, Zenon DEF InFront
    <2> QED  BY <2>1, <2>2
  <1> QED  BY <1>1, <1>2, <1>5, <1>6 DEF p

\* The segment of an iteration.
LEMMA FillSegment ==
    ASSUME NEW t, t \in SenderType, t.isn = Isn, NEW syn \in BOOLEAN, NEW fin \in BOOLEAN,
           NEW payload \in Seq(Nat)
    PROVE  LET seg == fill_segment(t, syn, payload, fin)
           IN  /\ seg \in SegType
               /\ seg.abs = t.next_seqno
               /\ seg.seqno = wrap(t.next_seqno, Isn)
               /\ length_in_sequence_space(seg) = Len(payload) + Bit(syn) + Bit(fin)
  <1> DEFINE w   == wrap(t.next_seqno, t.isn)
             n   == t.next_seqno
             seg == fill_segment(t, syn, payload, fin)
  <1>1. n \in Nat  BY DEF SenderType
  <1>2. w \in RawSeqno /\ w = wrap(n, Isn)  BY <1>1, Constants, OffsetOfWrap
  <1>3. seg = [NewTCPSegment EXCEPT !.seqno = w, !.syn = syn, !.payload = payload,
                                    !.fin = fin, !.abs = n]
    BY DEF fill_segment
  <1> HIDE DEF w, n, seg
  <1>4. seg \in SegType  BY <1>1, <1>2, <1>3, NewSegType, Zenon DEF SegType
  <1>5. seg.abs = n /\ seg.seqno = w /\ seg.payload = payload /\ seg.syn = syn /\ seg.fin = fin
    BY <1>3, NewSegType DEF SegType
  <1>6. length_in_sequence_space(seg) = Len(payload) + Bit(syn) + Bit(fin)
    BY <1>5, Zenon DEF length_in_sequence_space
  <1> QED  BY <1>2, <1>4, <1>5, <1>6 DEF n, seg

\* One iteration of fill_window.
LEMMA FillOnce ==
    ASSUME NEW t, SenderInv(t), Quiet(t), BeforeSyn(t), NEW f \in FillType,
           FillInv(t, f), f.more, ~t.is_transmission_ended
    PROVE  LET r == fill_once(t, f)
           IN  /\ SenderInv(r.s) /\ Quiet(r.s) /\ BeforeSyn(r.s)
               /\ r.f \in FillType /\ FillInv(r.s, r.f)
               /\ r.s.window_size = t.window_size
               /\ r.s.bytes_in_flight <= MaxOf(t.window_size, 1)
  <1> DEFINE first == t.next_seqno = 0
             syn   == f.syn \/ first
             took  == Bit(first)
             got   == ByteStream_read(t.stream,
                                      read_size(f.window, t.bytes_in_flight + took))
             used  == took + Len(got.data)
             fin   == fin_now(got.stream, f.window, t.bytes_in_flight + used)
             all   == used + Bit(fin)
             nxt   == t.next_seqno + all
             bif   == t.bytes_in_flight + all
             ended == t.is_transmission_ended \/ fin
             data  == got.data
             st    == got.stream
             q     == t.outstanding
             seg   == fill_segment(t, syn, data, fin)
             moved == [t EXCEPT !.stream = st, !.next_seqno = nxt, !.bytes_in_flight = bif,
                                !.is_transmission_ended = ended]
             sent  == [moved EXCEPT !.segments_out = Append(moved.segments_out, seg),
                                    !.outstanding = Append(moved.outstanding, seg),
                                    !.timer = Timer_start(moved.timer, t.cur_rto)]
             more  == ~ByteStream_buffer_empty(st) /\ f.window - bif # 0
             r     == fill_once(t, f)
  <1>1. /\ data \in Seq(Nat) /\ Len(data) \in Nat
        /\ all \in Nat /\ all = Len(data) + Bit(first) + Bit(fin)
        /\ bif <= f.window
        /\ first => all >= 1
        /\ first => st.cur_cap = 0 \/ bif = f.window
        /\ Counting(st, nxt, fin)
    BY FillNumbers, Zenon
  <1>2. /\ r.s = IF data # <<>> \/ syn \/ fin THEN sent ELSE moved
        /\ r.f = [f EXCEPT !.syn = syn, !.more = more]
    BY Zenon DEF fill_once
  <1>3. fin \in BOOLEAN /\ syn \in BOOLEAN /\ more \in BOOLEAN /\ ended \in BOOLEAN
        /\ (ended <=> fin)
    BY DEF fin_now
  <1>4. syn <=> first  BY DEF FillInv
  <1>5. /\ t \in SenderType /\ t.isn = Isn /\ t.next_seqno \in Nat
        /\ t.bytes_in_flight \in Nat /\ t.window_size \in Nat /\ t.una_seqno \in Nat
        /\ t.cur_rto \in Nat /\ t.timer \in TimerType
        /\ q \in Seq(SegType) /\ t.segments_out \in Seq(SegType)
        /\ t.window_size <= MaxWindow /\ Queue(q, t.next_seqno, t.bytes_in_flight)
    BY DEF SenderInv, SenderType
  <1>6. nxt \in Nat /\ bif \in Nat /\ nxt = t.next_seqno + all
        /\ bif = t.bytes_in_flight + all
    <2>1. all \in Nat /\ t.next_seqno \in Nat /\ t.bytes_in_flight \in Nat
      BY <1>1, <1>5, Zenon
    <2> HIDE DEF all
    <2> QED  BY <2>1
  <1>7. more => ~(st.cur_cap = 0) /\ f.window - bif # 0
    BY Zenon DEF ByteStream_buffer_empty, ByteStream_buffer_size
  <1>8. moved = [t EXCEPT !.stream = st, !.next_seqno = nxt, !.bytes_in_flight = bif,
                          !.is_transmission_ended = ended]
    OBVIOUS
  <1>9. sent = [moved EXCEPT !.segments_out = Append(moved.segments_out, seg),
                             !.outstanding = Append(moved.outstanding, seg),
                             !.timer = Timer_start(moved.timer, t.cur_rto)]
    OBVIOUS
  <1>10. seg = fill_segment(t, syn, data, fin)  OBVIOUS
  <1>11. first <=> t.next_seqno = 0  OBVIOUS
  <1> HIDE DEF first, syn, got, used, fin, all, nxt, bif, ended, data, st, seg, moved, sent,
               more, r
  <1>12. Counting(st, nxt, ended)
    <2>1. ended = fin  BY <1>3
    <2> QED  BY <2>1, <1>1, Zenon
  <1>13. st \in StreamType(Nat)  BY <1>12 DEF Counting, StreamOK
  <1>14. /\ moved \in SenderType
         /\ moved.isn = t.isn /\ moved.stream = st /\ moved.next_seqno = nxt
         /\ moved.window_size = t.window_size /\ moved.bytes_in_flight = bif
         /\ moved.una_seqno = t.una_seqno /\ moved.outstanding = q
         /\ moved.is_transmission_ended = ended /\ moved.timer = t.timer
         /\ moved.segments_out = t.segments_out
    <2>1. moved \in SenderType  BY <1>3, <1>5, <1>6, <1>8, <1>13, Zenon DEF SenderType
    <2> QED  BY <2>1, <1>5, <1>8 DEF SenderType
  <1>15. f.window \in Nat /\ f.window = MaxOf(t.window_size, 1) /\ f.window <= MaxWindow
    <2>1. f.window \in Nat /\ f.window = MaxOf(t.window_size, 1)  BY DEF FillInv, FillType
    <2> QED  BY <2>1, <1>5, Constants DEF MaxOf
  <1>16. bif <= MaxWindow  BY <1>1, <1>6, <1>15, Constants
  <1>17. nxt # 0
    <2>1. CASE first
      <3>1. all \in Nat /\ all >= 1  BY <2>1, <1>1, Zenon
      <3> QED  BY <3>1, <1>5, <1>6
    <2>2. CASE ~first  BY ONLY <2>2, <1>1, <1>5, <1>6, <1>11, SMTT(30)
    <2> QED  BY <2>1, <2>2
  <1>18. /\ r.s \in SenderType
         /\ r.s.isn = Isn /\ r.s.stream = st /\ r.s.next_seqno = nxt
         /\ r.s.window_size = t.window_size /\ r.s.bytes_in_flight = bif
         /\ r.s.una_seqno = t.una_seqno /\ r.s.is_transmission_ended = ended
         /\ Queue(r.s.outstanding, nxt, bif)
         /\ InFront(r.s.outstanding, t.una_seqno, nxt)
         /\ r.s.timer.is_start <=> r.s.outstanding # <<>>
    <2>1. CASE ~(data # <<>> \/ syn \/ fin)
      <3>1. all = 0
        <4>1. Bit(first) = 0 /\ Bit(fin) = 0 /\ Len(data) = 0  BY <2>1, <1>4 DEF Bit
        <4> QED  BY <4>1, <1>1
      <3>2. nxt = t.next_seqno /\ bif = t.bytes_in_flight  BY <3>1, <1>5, <1>6
      <3>3. r.s = moved  BY <2>1, <1>2
      <3>4. Queue(q, nxt, bif) /\ InFront(q, t.una_seqno, nxt)
        BY <3>2, <1>5, Zenon DEF Quiet
      <3>5. t.timer.is_start <=> q # <<>>  BY Zenon DEF Quiet
      <3> QED  BY <3>3, <3>4, <3>5, <1>5, <1>14, Zenon
    <2>2. CASE data # <<>> \/ syn \/ fin
      <3>1. r.s = sent  BY <2>2, <1>2
      <3>2. /\ seg \in SegType /\ seg.abs = t.next_seqno
            /\ seg.seqno = wrap(t.next_seqno, Isn)
            /\ length_in_sequence_space(seg) = Len(data) + Bit(syn) + Bit(fin)
        BY <1>1, <1>3, <1>5, <1>10, FillSegment
      <3>3. length_in_sequence_space(seg) = all
        <4>1. Bit(syn) = Bit(first)  BY <1>4 DEF Bit
        <4> QED  BY <4>1, <3>2, <1>1
      <3>4. all >= 1
        <4>0. Bit(fin) \in {0, 1} /\ Bit(first) \in {0, 1}  BY BitType
        <4>1. CASE data # <<>>
          <5>1. Len(data) >= 1  BY <4>1, <1>1
          <5> QED  BY <5>1, <4>0, <1>1
        <4>2. CASE syn
          <5>1. first  BY <4>2, <1>4
          <5> QED  BY <5>1, <1>1, Zenon
        <4>3. CASE fin
          <5>1. Bit(fin) = 1  BY <4>3 DEF Bit
          <5> QED  BY <5>1, <4>0, <1>1
        <4> QED  BY <4>1, <4>2, <4>3, <2>2
      <3> DEFINE p   == Append(q, seg)
                 out == Append(t.segments_out, seg)
                 tm  == Timer_start(t.timer, t.cur_rto)
      <3>5. /\ p \in Seq(SegType) /\ p # <<>> /\ Queue(p, nxt, bif)
            /\ InFront(p, t.una_seqno, nxt)
        <4>1. InFront(q, t.una_seqno, t.next_seqno)  BY DEF Quiet
        <4>2. /\ length_in_sequence_space(seg) >= 1
              /\ nxt = t.next_seqno + length_in_sequence_space(seg)
              /\ bif = t.bytes_in_flight + length_in_sequence_space(seg)
          BY <3>3, <3>4, <1>6
        <4> QED  BY <4>1, <4>2, <3>2, <1>5, <1>6, QueueAppend, Zenon
      <3>6. out \in Seq(SegType)  BY <3>2, <1>5
      <3>7. tm \in TimerType /\ tm.is_start  BY <1>5, TimerOps, Zenon
      <3>8. sent = [moved EXCEPT !.segments_out = out, !.outstanding = p, !.timer = tm]
        BY <1>9, <1>14
      <3> HIDE DEF p, out, tm
      <3>9. sent \in SenderType  BY <3>5, <3>6, <3>7, <3>8, <1>14, Zenon DEF SenderType
      <3>10. /\ sent.isn = moved.isn /\ sent.stream = moved.stream
             /\ sent.next_seqno = moved.next_seqno
             /\ sent.window_size = moved.window_size
             /\ sent.bytes_in_flight = moved.bytes_in_flight
             /\ sent.una_seqno = moved.una_seqno
             /\ sent.is_transmission_ended = moved.is_transmission_ended
             /\ sent.outstanding = p /\ sent.timer = tm
        BY <3>8, <1>14 DEF SenderType
      <3> QED  BY <3>1, <3>5, <3>7, <3>9, <3>10, <1>5, <1>14, Zenon
    <2> QED  BY <2>1, <2>2
  <1>19. SenderInv(r.s) /\ Quiet(r.s)
    <2>1. t.una_seqno <= t.next_seqno  BY DEF SenderInv
    <2>2. t.una_seqno <= nxt  BY <2>1, <1>1, <1>5, <1>6
    <2> QED  BY <2>2, <1>5, <1>12, <1>16, <1>18, Zenon DEF SenderInv, Quiet
  <1>20. BeforeSyn(r.s)  BY <1>17, <1>18, Zenon DEF BeforeSyn
  <1>21. r.f \in FillType /\ r.f.window = f.window /\ r.f.syn = syn /\ r.f.more = more
    BY <1>2, <1>3, Zenon DEF FillType
  <1>22. more => bif < f.window  BY <1>1, <1>6, <1>7, <1>15
  <1>23. more => ~syn  BY <1>1, <1>4, <1>6, <1>7, <1>15
  <1>24. FillInv(r.s, r.f)
    BY <1>15, <1>17, <1>18, <1>21, <1>22, <1>23, Zenon DEF FillInv
  <1> QED  BY <1>1, <1>15, <1>18, <1>19, <1>20, <1>21, <1>24 DEF r

\* What is in flight reaches from the oldest unacknowledged number or before.
LEMMA InFlightReach ==
    ASSUME NEW t, SenderInv(t), Quiet(t), NEW w \in Nat, t.bytes_in_flight <= w
    PROVE  t.next_seqno <= t.una_seqno + w
  <1>1. t.next_seqno \in Nat /\ t.una_seqno \in Nat /\ t.bytes_in_flight \in Nat
    BY DEF SenderInv, SenderType
  <1>2. CASE t.outstanding = <<>>  BY <1>1, <1>2 DEF Quiet, InFront
  <1>3. CASE t.outstanding # <<>>
    <2>1. /\ t.outstanding[1].abs \in Nat
          /\ t.bytes_in_flight = t.next_seqno - t.outstanding[1].abs
      BY <1>3, FrontNumber
    <2>2. t.outstanding[1].abs <= t.una_seqno  BY <1>3 DEF Quiet, InFront
    <2> QED  BY <2>1, <2>2, <1>1
  <1> QED  BY <1>2, <1>3

InWindow == s'.next_seqno > s.next_seqno =>
                s'.next_seqno <= s'.una_seqno + MaxOf(s'.window_size, 1)

LEMMA FillStepStep ==
    ASSUME IInv, FillStep
    PROVE  IInv' /\ InWindow
  <1> DEFINE f == act.f
             r == fill_once(s, f)
  <1>1. /\ SenderInv(s) /\ Quiet(s) /\ BeforeSyn(s) /\ FillInv(s, f) /\ f.more
        /\ act \in ActType /\ act.call = "fill"
        /\ s' = r.s /\ act' = [act EXCEPT !.f = r.f]
    BY DEF IInv, FillStep
  <1>2. f \in FillType  BY <1>1 DEF ActType, FillType
  <1>3. s.next_seqno \in Nat /\ s.window_size \in Nat  BY <1>1 DEF SenderInv, SenderType
  <1>4. /\ SenderInv(s') /\ Quiet(s') /\ BeforeSyn(s')
        /\ r.f \in FillType /\ FillInv(s', r.f) /\ InWindow
    <2>1. CASE s.is_transmission_ended
      <3>1. s' = s /\ r.f = [f EXCEPT !.more = FALSE]
        BY <2>1, <1>1, Zenon DEF fill_once
      <3>2. s.next_seqno # 0  BY <2>1, <1>1 DEF SenderInv, Counting
      <3> HIDE DEF f, r
      <3>3. r.f \in FillType /\ r.f.window = f.window /\ r.f.more = FALSE
        BY <3>1, <1>2, Zenon DEF FillType
      <3>4. ~r.f.more  BY <3>3
      <3>5. FillInv(s', r.f)  BY <3>1, <3>2, <3>3, <3>4, <1>1, Zenon DEF FillInv
      <3>6. InWindow  BY <3>1, <1>3 DEF InWindow
      <3> QED  BY <3>1, <3>3, <3>5, <3>6, <1>1
    <2>2. CASE ~s.is_transmission_ended
      <3> HIDE DEF f
      <3>1. /\ SenderInv(r.s) /\ Quiet(r.s) /\ BeforeSyn(r.s)
            /\ r.f \in FillType /\ FillInv(r.s, r.f)
            /\ r.s.window_size = s.window_size
            /\ r.s.bytes_in_flight <= MaxOf(s.window_size, 1)
        BY <2>2, <1>1, <1>2, FillOnce
      <3> HIDE DEF r
      <3>2. MaxOf(s.window_size, 1) \in Nat  BY <1>3 DEF MaxOf
      <3>3. s'.next_seqno <= s'.una_seqno + MaxOf(s'.window_size, 1)
        BY <3>1, <3>2, <1>1, InFlightReach
      <3> QED  BY <3>1, <3>3, <1>1 DEF InWindow
    <2> QED  BY <2>1, <2>2
  <1> HIDE DEF r
  <1>5. act' \in ActType /\ act'.call = "fill" /\ act'.f = r.f
    BY <1>1, <1>4 DEF ActType, FillType
  <1>6. act'.call # "idle" /\ act'.call # "ack"  BY <1>5
  <1>7. FillInv(s', act'.f)  BY <1>4, <1>5
  <1>8. IInv'  BY <1>4, <1>5, <1>6, <1>7, Zenon DEF IInv
  <1> QED  BY <1>4, <1>8

-----------------------------------------------------------------------------
(***************************************************************************)
(* Every call of the sender, iteration by iteration, keeps the invariant   *)
(* and sends nothing beyond the window.                                    *)
(***************************************************************************)
LEMMA Inductive ==
    ASSUME IInv, [Next]_vars
    PROVE  IInv' /\ InWindow
  <1>0. s.next_seqno \in Nat  BY DEF IInv, SenderInv, SenderType
  <1>1. ASSUME IInv' /\ s'.next_seqno = s.next_seqno  PROVE IInv' /\ InWindow
    BY <1>0, <1>1 DEF InWindow
  <1>2. CASE FillWindow  BY <1>1, <1>2, FillWindowStep
  <1>3. ASSUME NEW n \in 1 .. MaxBytes, Write(n)  PROVE IInv' /\ InWindow
    BY <1>1, <1>3, WriteStep
  <1>4. CASE EndInput  BY <1>1, <1>4, EndInputStep
  <1>5. ASSUME NEW ackno \in RawSeqno, NEW window \in 0 .. MaxWindow,
               AckReceived(ackno, window)
        PROVE  IInv' /\ InWindow
    BY <1>1, <1>5, AckReceivedStep
  <1>6. CASE AckPop  BY <1>1, <1>6, AckPopStep
  <1>7. CASE AckFinish  BY <1>1, <1>7, AckFinishStep
  <1>8. CASE FillStep  BY <1>8, FillStepStep
  <1>9. CASE FillReturn  BY <1>1, <1>9, FillReturnStep
  <1>10. ASSUME NEW ms \in 1 .. MaxTick, Tick(ms)  PROVE IInv' /\ InWindow
    BY <1>1, <1>10, TickStep
  <1>11. CASE SendEmptySegment  BY <1>1, <1>11, SendEmptySegmentStep
  <1>12. CASE UNCHANGED vars
    <2>1. s' = s /\ act' = act  BY <1>12 DEF vars
    <2>2. IInv'  BY <2>1, Zenon DEF IInv
    <2> QED  BY <2>1, <2>2, <1>1
  <1> QED  BY <1>2, <1>3, <1>4, <1>5, <1>6, <1>7, <1>8, <1>9, <1>10, <1>11, <1>12 DEF Next

LEMMA InitIInv == Init => IInv
  <1> SUFFICES ASSUME Init PROVE IInv
    OBVIOUS
  <1>1. /\ SenderInv(s) /\ Quiet(s) /\ BeforeSyn(s) /\ s.window_size = 1
        /\ s.stream.cur_cap = 0
    BY NewSenderInv DEF Init
  <1>2. act = Idle /\ Idle \in ActType /\ Idle.call = "idle"
    BY DEF Init, Idle, NoFill, ActType
  <1>3. act.call # "fill" /\ act.call # "ack"  BY <1>2
  <1> QED  BY <1>1, <1>2, <1>3, Zenon DEF IInv

(***************************************************************************)
(* The queue of outstanding segments is a gapless chain up to _next_seqno  *)
(* and _bytes_in_flight (tcp_sender.cc:61-62, 96-98) is its length.        *)
(***************************************************************************)
THEOREM InFlightAccountingAlways == Spec => []InFlightAccounting
  <1>1. IInv => InFlightAccounting
    BY DEF IInv, SenderInv, Queue, InFlightAccounting
  <1>2. IInv /\ [Next]_vars => IInv'  BY Inductive
  <1> QED  BY <1>1, <1>2, InitIInv, PTL DEF Spec

(***************************************************************************)
(* Outside ack_received, _una_seqno lies in the oldest outstanding segment *)
(* (tcp_sender.cc:92-104).                                                 *)
(***************************************************************************)
THEOREM UnaInFrontAlways == Spec => []UnaInFront
  <1>1. IInv => UnaInFront  BY DEF IInv, Quiet, UnaInFront
  <1>2. IInv /\ [Next]_vars => IInv'  BY Inductive
  <1> QED  BY <1>1, <1>2, InitIInv, PTL DEF Spec

(***************************************************************************)
(* Outside ack_received, the retransmission timer runs exactly when        *)
(* something is outstanding (tcp_sender.cc:76, 112-117, 132-133).          *)
(***************************************************************************)
THEOREM TimerRunsAlways == Spec => []TimerRuns
  <1>1. IInv => TimerRuns  BY DEF IInv, Quiet, TimerRuns
  <1>2. IInv /\ [Next]_vars => IInv'  BY Inductive
  <1> QED  BY <1>1, <1>2, InitIInv, PTL DEF Spec

(***************************************************************************)
(* No new segment goes beyond the last advertised window, a closed window  *)
(* counting as one (tcp_sender.cc:35-42, 57, 65, 78).                      *)
(***************************************************************************)
THEOREM WindowAlwaysRespected == Spec => WindowRespected
  <1>1. IInv /\ [Next]_vars => IInv'  BY Inductive
  <1>2. IInv /\ [Next]_vars =>
          [s'.next_seqno > s.next_seqno =>
               s'.next_seqno <= s'.una_seqno + MaxOf(s'.window_size, 1)]_vars
    BY Inductive DEF InWindow
  <1> QED  BY <1>1, <1>2, InitIInv, PTL DEF Spec, WindowRespected

-----------------------------------------------------------------------------
\* The type invariant needs a bound on the retransmissions in addition.

Retx == s.consecutive_retrans \in 0 .. MAX_RETX_ATTEMPTS + 1

LEMMA RetxStep ==
    ASSUME IInv, Retx, [Next]_vars
    PROVE  Retx'
  <1> DEFINE n == s.consecutive_retrans
             u == Drained(s)
  <1>0. MAX_RETX_ATTEMPTS \in Nat  BY SendingAssumption, Zenon
  <1>1. s \in SenderType /\ n \in Nat  BY DEF IInv, SenderInv, SenderType
  <1>2. u \in SenderType /\ u.consecutive_retrans = n
    <2> DEFINE q == <<>>
    <2>1. q \in Seq(SegType) /\ u = [s EXCEPT !.segments_out = q]  BY DEF Drained
    <2> HIDE DEF q, u
    <2> QED  BY <2>1, <1>1, Zenon DEF SenderType
  <1>3. ASSUME s'.consecutive_retrans = n \/ s'.consecutive_retrans = 0  PROVE Retx'
    BY <1>0, <1>3 DEF Retx
  <1> HIDE DEF u
  <1>4. CASE FillWindow  BY <1>2, <1>3, <1>4 DEF FillWindow, u
  <1>5. ASSUME NEW k \in 1 .. MaxBytes, Write(k)  PROVE Retx'
    <2> DEFINE st == ByteStream_write(u.stream, Bytes(u.stream.bytes_written,
                                                      u.stream.bytes_written + k))
    <2>1. s' = [u EXCEPT !.stream = st]  BY <1>5 DEF Write, u
    <2> HIDE DEF st
    <2> QED  BY <2>1, <1>2, <1>3 DEF SenderType
  <1>6. CASE EndInput
    <2> DEFINE st == ByteStream_end_input(u.stream)
    <2>1. s' = [u EXCEPT !.stream = st]  BY <1>6 DEF EndInput, u
    <2> HIDE DEF st
    <2> QED  BY <2>1, <1>2, <1>3 DEF SenderType
  <1>7. ASSUME NEW ackno \in RawSeqno, NEW window \in 0 .. MaxWindow,
               AckReceived(ackno, window)
        PROVE  Retx'
    <2> DEFINE a == ackno_abs(s, ackno)
    <2>1. s' = ack_begin(u, a, window)  BY <1>7 DEF AckReceived, u
    <2> HIDE DEF a
    <2>2. \/ s' = [u EXCEPT !.window_size = window]
          \/ s' = [[u EXCEPT !.window_size = window] EXCEPT !.una_seqno = a]
      BY <2>1 DEF ack_begin
    <2> QED  BY <2>2, <1>2, <1>3, Zenon DEF SenderType
  <1>8. CASE AckPop
    <2>1. s'.consecutive_retrans = n  BY <1>1, <1>8 DEF AckPop, ack_pop, SenderType
    <2> QED  BY <2>1, <1>3
  <1>9. CASE AckFinish
    <2>1. s'.consecutive_retrans = 0  BY <1>1, <1>9 DEF AckFinish, ack_finish, SenderType
    <2> QED  BY <2>1, <1>3
  <1>10. CASE FillStep
    <2>1. s' = fill_once(s, act.f).s  BY <1>10 DEF FillStep
    <2>2. fill_once(s, act.f).s.consecutive_retrans = n
      BY <1>1 DEF fill_once, SenderType
    <2> QED  BY <2>1, <2>2, <1>3
  <1>11. CASE FillReturn  BY <1>3, <1>11 DEF FillReturn
  <1>12. ASSUME NEW ms \in 1 .. MaxTick, Tick(ms)  PROVE Retx'
    <2> DEFINE t1 == [u EXCEPT !.timer = Timer_tick(u.timer, ms)]
               t2 == retransmit(t1)
               t3 == backoff(t2)
               t4 == [t3 EXCEPT !.timer = Timer_start(Timer_stop(t3.timer), t3.cur_rto)]
    <2>1. n <= MAX_RETX_ATTEMPTS /\ s' = TCPSender_tick(u, ms)  BY <1>12 DEF Tick, u
    <2>2. s' = t1 \/ s' = t4  BY <2>1 DEF TCPSender_tick
    <2>3. t1.consecutive_retrans = n  BY <1>2 DEF SenderType
    <2>4. t2.consecutive_retrans = t1.consecutive_retrans
      BY <1>2 DEF retransmit, SenderType
    <2>5. t4.consecutive_retrans = t3.consecutive_retrans
      BY <1>2 DEF backoff, retransmit, SenderType
    <2>6. t3.consecutive_retrans \in {t2.consecutive_retrans, t2.consecutive_retrans + 1}
      BY <1>2 DEF backoff, retransmit, SenderType
    <2> HIDE DEF t1, t2, t3, t4
    <2>7. s'.consecutive_retrans \in {n, n + 1}  BY <2>2, <2>3, <2>4, <2>5, <2>6
    <2> QED  BY <2>1, <2>7, <1>0, <1>1 DEF Retx
  <1>13. CASE SendEmptySegment
    <2> DEFINE out == Append(u.segments_out,
                             [NewTCPSegment EXCEPT !.seqno = wrap(u.next_seqno, u.isn),
                                                   !.abs = u.next_seqno])
    <2>1. s' = [u EXCEPT !.segments_out = out]
      BY <1>13 DEF SendEmptySegment, TCPSender_send_empty_segment, u
    <2> HIDE DEF out
    <2> QED  BY <2>1, <1>2, <1>3 DEF SenderType
  <1>14. CASE UNCHANGED vars  BY <1>3, <1>14 DEF vars
  <1> QED
    BY <1>4, <1>5, <1>6, <1>7, <1>8, <1>9, <1>10, <1>11, <1>12, <1>13, <1>14, Zenon DEF Next

(***************************************************************************)
(* The ranges of the sender's counters: the numbers stay within the        *)
(* stream's, the window and what is in flight within MaxWindow, and the    *)
(* retransmissions within one of MAX_RETX_ATTEMPTS.                        *)
(***************************************************************************)
THEOREM TypeOKAlways == Spec => []TypeOK
  <1>1. IInv /\ Retx => TypeOK
    <2> SUFFICES ASSUME IInv, Retx PROVE TypeOK
      OBVIOUS
    <2>1. SenderInv(s) /\ act \in ActType  BY DEF IInv
    <2>2. s.next_seqno \in 0 .. MaxBytes + 2  BY <2>1, NextBound
    <2>3. /\ s.una_seqno \in Nat /\ s.una_seqno <= s.next_seqno
          /\ s.window_size \in Nat /\ s.window_size <= MaxWindow
          /\ s.bytes_in_flight \in Nat /\ s.bytes_in_flight <= MaxWindow
          /\ s.is_transmission_ended \in BOOLEAN
      BY <2>1 DEF SenderInv, SenderType
    <2>4. act.call \in {"idle", "fill", "ack"}  BY <2>1 DEF ActType
    <2>5. /\ s.una_seqno \in 0 .. MaxBytes + 2
          /\ s.window_size \in 0 .. MaxWindow /\ s.bytes_in_flight \in 0 .. MaxWindow
      BY <2>2, <2>3, Constants
    <2> QED  BY <2>2, <2>3, <2>4, <2>5, Zenon DEF TypeOK, Retx
  <1>2. Init => Retx
    <2>1. Init => s.consecutive_retrans = 0  BY DEF Init, NewTCPSender
    <2> QED  BY <2>1, SendingAssumption DEF Retx
  <1>3. IInv /\ [Next]_vars => IInv'  BY Inductive
  <1>4. IInv /\ Retx /\ [Next]_vars => Retx'  BY RetxStep
  <1> QED  BY <1>1, <1>2, <1>3, <1>4, InitIInv, PTL DEF Spec

-----------------------------------------------------------------------------
\* The retransmission timeout.

Rto(t) ==
    t.initial_rto = RtTimeout /\ t.cur_rto = RtTimeout * 2 ^ t.consecutive_retrans

Deadline(t) == t.timer.is_start => t.timer.ddl = t.cur_rto

BInv ==
    /\ Retx
    /\ Rto(s)
    /\ act.call # "ack" => Deadline(s)

\* A call that touches neither the timer nor the timeout.
SameTimer(t, u) ==
    /\ u.initial_rto = t.initial_rto /\ u.cur_rto = t.cur_rto
    /\ u.consecutive_retrans = t.consecutive_retrans /\ u.timer = t.timer

\* Only an acknowledgment begins at the initial timeout again.
LEMMA AckFinishTimeout ==
    ASSUME NEW t \in SenderType, t.initial_rto = RtTimeout
    PROVE  Rto(ack_finish(t)) /\ Deadline(ack_finish(t))
  <1> DEFINE tm == IF t.outstanding = <<>> THEN Timer_stop(t.timer)
                   ELSE Timer_start(Timer_stop(t.timer), t.initial_rto)
             u  == ack_finish(t)
  <1>0. RtTimeout \in Nat /\ 2 ^ 0 = 1  BY Constants
  <1>1. tm.is_start => tm.ddl = t.initial_rto
    BY DEF Timer_stop, Timer_start, NewTimer
  <1>2. /\ u.initial_rto = t.initial_rto /\ u.cur_rto = t.initial_rto
        /\ u.consecutive_retrans = 0 /\ u.timer = tm
    BY DEF ack_finish, SenderType
  <1> HIDE DEF u, tm
  <1>3. Rto(u)  BY <1>0, <1>2 DEF Rto
  <1>4. Deadline(u)  BY <1>1, <1>2 DEF Deadline
  <1> QED  BY <1>3, <1>4 DEF u

\* One iteration of fill_window starts an idle timer with the timeout.
LEMMA FillTimeout ==
    ASSUME NEW t \in SenderType, NEW f, Rto(t), Deadline(t)
    PROVE  Rto(fill_once(t, f).s) /\ Deadline(fill_once(t, f).s)
  <1> DEFINE u == fill_once(t, f).s
  <1>1. /\ u.initial_rto = t.initial_rto /\ u.cur_rto = t.cur_rto
        /\ u.consecutive_retrans = t.consecutive_retrans
    BY DEF fill_once, SenderType
  <1>2. u.timer = t.timer \/ u.timer = Timer_start(t.timer, t.cur_rto)
    BY DEF fill_once, SenderType
  <1>3. Timer_start(t.timer, t.cur_rto).ddl = IF t.timer.is_start THEN t.timer.ddl
                                              ELSE t.cur_rto
    BY DEF Timer_start
  <1> HIDE DEF u
  <1>4. Rto(u)  BY <1>1 DEF Rto
  <1>5. Deadline(u)  BY <1>1, <1>2, <1>3 DEF Deadline
  <1> QED  BY <1>4, <1>5 DEF u

\* An expired timer is started again with the timeout just doubled, or with
\* the same one when the window is closed.
LEMMA TickTimeout ==
    ASSUME NEW t \in SenderType, NEW ms \in Nat, Rto(t), Deadline(t),
           t.consecutive_retrans \in 0 .. MAX_RETX_ATTEMPTS
    PROVE  Rto(TCPSender_tick(t, ms)) /\ Deadline(TCPSender_tick(t, ms))
  <1> DEFINE n  == t.consecutive_retrans
             t1 == [t EXCEPT !.timer = Timer_tick(t.timer, ms)]
             t2 == retransmit(t1)
             t3 == backoff(t2)
             t4 == [t3 EXCEPT !.timer = Timer_start(Timer_stop(t3.timer), t3.cur_rto)]
             u  == TCPSender_tick(t, ms)
  <1>0. RtTimeout \in Nat /\ 2 ^ n \in Nat /\ 2 ^ (n + 1) = 2 * 2 ^ n
    BY Constants, DoublingAssumption
  <1>1. t.timer \in TimerType  BY DEF SenderType
  <1>2. /\ Timer_tick(t.timer, ms).is_start <=> t.timer.is_start
        /\ Timer_tick(t.timer, ms).ddl = t.timer.ddl
    BY <1>1 DEF Timer_tick, TimerType
  <1>3. /\ t1.initial_rto = t.initial_rto /\ t1.cur_rto = t.cur_rto
        /\ t1.consecutive_retrans = n /\ t1.timer = Timer_tick(t.timer, ms)
    BY DEF SenderType
  <1>4. /\ t2.initial_rto = t1.initial_rto /\ t2.cur_rto = t1.cur_rto
        /\ t2.consecutive_retrans = t1.consecutive_retrans
    BY DEF retransmit, SenderType
  <1>5. /\ t3.initial_rto = t2.initial_rto
        /\ \/ t3.cur_rto = t2.cur_rto /\ t3.consecutive_retrans = t2.consecutive_retrans
           \/ /\ t3.cur_rto = 2 * t2.cur_rto
              /\ t3.consecutive_retrans = t2.consecutive_retrans + 1
    BY DEF backoff, retransmit, SenderType
  <1>6. /\ t4.initial_rto = t3.initial_rto /\ t4.cur_rto = t3.cur_rto
        /\ t4.consecutive_retrans = t3.consecutive_retrans
        /\ t4.timer = Timer_start(Timer_stop(t3.timer), t3.cur_rto)
    BY DEF backoff, retransmit, SenderType
  <1>7. Timer_start(Timer_stop(t3.timer), t3.cur_rto).ddl = t3.cur_rto
    BY DEF Timer_start, Timer_stop, NewTimer
  <1>8. u = t1 \/ u = t4  BY DEF TCPSender_tick
  <1> HIDE DEF n, t1, t2, t3, t4, u
  <1>9. Rto(t1) /\ Deadline(t1)  BY <1>2, <1>3 DEF Rto, Deadline, n
  <1>10. Rto(t4)
    <2> DEFINE p == 2 ^ n
    <2>1. t1.initial_rto = RtTimeout /\ t1.cur_rto = RtTimeout * p
      BY <1>3, <1>9 DEF Rto
    <2>2. CASE t3.cur_rto = t2.cur_rto /\ t3.consecutive_retrans = t2.consecutive_retrans
      BY <2>1, <2>2, <1>3, <1>4, <1>5, <1>6 DEF Rto
    <2>3. CASE /\ t3.cur_rto = 2 * t2.cur_rto
               /\ t3.consecutive_retrans = t2.consecutive_retrans + 1
      <3>1. 2 ^ (n + 1) = 2 * p /\ p \in Nat  BY <1>0
      <3>2. t4.cur_rto = 2 * (RtTimeout * p) /\ t4.consecutive_retrans = n + 1
            /\ t4.initial_rto = RtTimeout
        BY <2>1, <2>3, <1>3, <1>4, <1>5, <1>6, Zenon
      <3> HIDE DEF p
      <3>3. 2 * (RtTimeout * p) = RtTimeout * (2 * p)  BY <3>1, <1>0
      <3> QED  BY <3>1, <3>2, <3>3 DEF Rto
    <2> QED  BY <2>2, <2>3, <1>5
  <1>11. Deadline(t4)  BY <1>6, <1>7, Zenon DEF Deadline
  <1> QED  BY <1>8, <1>9, <1>10, <1>11 DEF u

LEMMA BackoffStep ==
    ASSUME IInv, BInv, [Next]_vars
    PROVE  BInv'
  <1> DEFINE u == Drained(s)
  <1>0. Retx'  BY RetxStep, Zenon DEF BInv
  <1>1. s \in SenderType /\ Rto(s) /\ act \in ActType /\ Idle.call = "idle"
    BY DEF IInv, SenderInv, BInv, Idle
  <1>2. u \in SenderType /\ SameTimer(s, u)
    <2> DEFINE q == <<>>
    <2>1. q \in Seq(SegType) /\ u = [s EXCEPT !.segments_out = q]  BY DEF Drained
    <2> HIDE DEF q, u
    <2> QED  BY <2>1, <1>1, Zenon DEF SenderType, SameTimer
  <1>3. ASSUME Rto(s'), act'.call # "ack" => Deadline(s')  PROVE BInv'
    BY <1>0, <1>3 DEF BInv, Rto, Deadline
  <1>4. ASSUME NEW v, SameTimer(s, v)
        PROVE  Rto(v) /\ (Deadline(s) => Deadline(v))
    BY <1>1, <1>4 DEF SameTimer, Rto, Deadline
  <1>5. ASSUME SameTimer(s, s'), act'.call # "ack" => act.call # "ack"  PROVE BInv'
    BY <1>3, <1>4, <1>5 DEF BInv
  <1>6. ASSUME act = Idle  PROVE Deadline(s) /\ act.call # "ack"
    BY <1>1, <1>6 DEF BInv
  <1>7. ASSUME act = Idle, SameTimer(s, s')  PROVE BInv'
    BY <1>5, <1>6, <1>7
  <1> HIDE DEF u
  <1>8. CASE FillWindow  BY <1>2, <1>7, <1>8 DEF FillWindow, u
  <1>9. ASSUME NEW k \in 1 .. MaxBytes, Write(k)  PROVE BInv'
    <2> DEFINE st == ByteStream_write(u.stream, Bytes(u.stream.bytes_written,
                                                      u.stream.bytes_written + k))
    <2>1. act = Idle /\ s' = [u EXCEPT !.stream = st]  BY <1>9 DEF Write, u
    <2> HIDE DEF st
    <2>2. SameTimer(s, s')  BY <2>1, <1>2 DEF SameTimer, SenderType
    <2> QED  BY <2>1, <2>2, <1>7
  <1>10. CASE EndInput
    <2> DEFINE st == ByteStream_end_input(u.stream)
    <2>1. act = Idle /\ s' = [u EXCEPT !.stream = st]  BY <1>10 DEF EndInput, u
    <2> HIDE DEF st
    <2>2. SameTimer(s, s')  BY <2>1, <1>2 DEF SameTimer, SenderType
    <2> QED  BY <2>1, <2>2, <1>7
  <1>11. ASSUME NEW ackno \in RawSeqno, NEW window \in 0 .. MaxWindow,
                AckReceived(ackno, window)
         PROVE  BInv'
    <2> DEFINE a == ackno_abs(s, ackno)
    <2>1. act = Idle /\ s' = ack_begin(u, a, window)  BY <1>11 DEF AckReceived, u
    <2> HIDE DEF a
    <2>2. \/ s' = [u EXCEPT !.window_size = window]
          \/ s' = [[u EXCEPT !.window_size = window] EXCEPT !.una_seqno = a]
      BY <2>1 DEF ack_begin
    <2>3. SameTimer(s, s')  BY <2>2, <1>2, Zenon DEF SameTimer, SenderType
    <2> QED  BY <2>1, <2>3, <1>7
  <1>12. CASE AckPop
    <2>1. SameTimer(s, s') /\ act' = act
      BY <1>1, <1>12 DEF AckPop, ack_pop, SameTimer, SenderType
    <2> QED  BY <2>1, <1>5
  <1>13. CASE AckFinish
    <2>1. s' = ack_finish(s) /\ s.initial_rto = RtTimeout
      BY <1>1, <1>13 DEF AckFinish, Rto
    <2>2. Rto(ack_finish(s)) /\ Deadline(ack_finish(s))
      BY ONLY <1>1, <2>1, AckFinishTimeout
    <2> QED  BY <2>1, <2>2, <1>3
  <1>14. CASE FillStep
    <2>1. s' = fill_once(s, act.f).s /\ Deadline(s)  BY <1>14 DEF FillStep, BInv
    <2>2. Rto(fill_once(s, act.f).s) /\ Deadline(fill_once(s, act.f).s)
      BY ONLY <1>1, <2>1, FillTimeout
    <2> QED  BY <2>1, <2>2, <1>3
  <1>15. CASE FillReturn
    <2>1. act.call = "fill" /\ s' = s  BY <1>15 DEF FillReturn
    <2>2. SameTimer(s, s')  BY <2>1 DEF SameTimer
    <2> QED  BY <2>1, <2>2, <1>5
  <1>16. ASSUME NEW ms \in 1 .. MaxTick, Tick(ms)  PROVE BInv'
    <2>1. /\ act = Idle /\ s.consecutive_retrans <= MAX_RETX_ATTEMPTS
          /\ s' = TCPSender_tick(u, ms)
      BY <1>16 DEF Tick, u
    <2>2. u.consecutive_retrans \in 0 .. MAX_RETX_ATTEMPTS /\ ms \in Nat
      BY <2>1, <1>2, Constants, SendingAssumption DEF BInv, Retx, SameTimer
    <2>3. Rto(u) /\ Deadline(u)  BY <2>1, <1>2, <1>4, <1>6
    <2>4. Rto(TCPSender_tick(u, ms)) /\ Deadline(TCPSender_tick(u, ms))
      BY ONLY <1>2, <2>2, <2>3, TickTimeout
    <2> QED  BY <2>1, <2>4, <1>3
  <1>17. CASE SendEmptySegment
    <2> DEFINE out == Append(u.segments_out,
                             [NewTCPSegment EXCEPT !.seqno = wrap(u.next_seqno, u.isn),
                                                   !.abs = u.next_seqno])
    <2>1. act = Idle /\ s' = [u EXCEPT !.segments_out = out]
      BY <1>17 DEF SendEmptySegment, TCPSender_send_empty_segment, u
    <2> HIDE DEF out
    <2>2. SameTimer(s, s')  BY <2>1, <1>2 DEF SameTimer, SenderType
    <2> QED  BY <2>1, <2>2, <1>7
  <1>18. CASE UNCHANGED vars
    <2>1. SameTimer(s, s') /\ act' = act  BY <1>18 DEF vars, SameTimer
    <2> QED  BY <2>1, <1>5
  <1> QED
    BY <1>8, <1>9, <1>10, <1>11, <1>12, <1>13, <1>14, <1>15, <1>16, <1>17, <1>18 DEF Next

(***************************************************************************)
(* The timeout is the initial one doubled once per counted retransmission, *)
(* and a timer that runs outside ack_received runs to it                   *)
(* (tcp_sender.cc:107-108, 128-133).                                       *)
(***************************************************************************)
THEOREM BackoffAlways == Spec => []Backoff
  <1>1. BInv => Backoff  BY DEF BInv, Rto, Deadline, Backoff
  <1>2. Init => BInv
    <2> SUFFICES ASSUME Init PROVE BInv
      OBVIOUS
    <2>1. /\ s.consecutive_retrans = 0 /\ s.initial_rto = RtTimeout
          /\ s.cur_rto = RtTimeout /\ ~s.timer.is_start
      BY DEF Init, NewTCPSender, NewTimer
    <2>2. RtTimeout \in Nat /\ 2 ^ 0 = 1  BY Constants
    <2> QED  BY ONLY <2>1, <2>2, SendingAssumption, SMTT(30) DEF BInv, Retx, Rto, Deadline
  <1>3. IInv /\ [Next]_vars => IInv'  BY Inductive
  <1>4. IInv /\ BInv /\ [Next]_vars => BInv'  BY BackoffStep
  <1> QED  BY <1>1, <1>2, <1>3, <1>4, InitIInv, PTL DEF Spec

-----------------------------------------------------------------------------
(***************************************************************************)
(* What the TCPSender sends is the stream, and it does not stop before the *)
(* end.  On top of the invariant so far: the buffer holds the bytes        *)
(* between the two counters of the stream, a stream whose FIN is out has   *)
(* ended and is empty, so that no later write can move the place of the    *)
(* FIN, and a fill_window that comes to an end has left something          *)
(* outstanding or nothing to send.                                         *)
(***************************************************************************)

\* seg is a piece of a stream of which rd bytes have been read and wr
\* written, and whose FIN is out if ended.
PieceOf(seg, rd, wr, ended) ==
    /\ seg.seqno = wrap(seg.abs, Isn)
    /\ seg.syn <=> seg.abs = 0
    /\ seg.payload = Bytes(PayloadAt(seg), PayloadAt(seg) + Len(seg.payload))
    /\ PayloadAt(seg) + Len(seg.payload) <= rd
    /\ seg.fin => ended /\ SegEnd(seg) = wr + 2

Piece(seg, t) ==
    PieceOf(seg, t.stream.bytes_read, t.stream.bytes_written, t.is_transmission_ended)

Pieces(q, t) == \A k \in 1 .. Len(q) : Piece(q[k], t)

\* Among the segments to send there are empty ones as well.
Sendable(seg, t) == length_in_sequence_space(seg) > 0 => Piece(seg, t)

AllSendable(q, t) == \A k \in 1 .. Len(q) : Sendable(q[k], t)

StreamInv(st, ended) ==
    /\ st.str = Bytes(st.bytes_read, st.bytes_written)
    /\ ended => st.input_is_end /\ st.cur_cap = 0

DataInv(t) ==
    /\ StreamInv(t.stream, t.is_transmission_ended)
    /\ Pieces(t.outstanding, t)
    /\ AllSendable(t.segments_out, t)

\* With nothing outstanding, there is nothing to send.
Done(t) ==
    t.outstanding = <<>> =>
        /\ t.stream.cur_cap = 0
        /\ t.stream.input_is_end => t.is_transmission_ended

PInv ==
    /\ DataInv(s)
    /\ act.call = "idle" => Done(s)
    /\ act.call = "fill" /\ ~act.f.more => Done(s)

-----------------------------------------------------------------------------
\* The bytes of the stream.

LEMMA StreamNats ==
    ASSUME NEW st, StreamOK(st, Nat)
    PROVE  /\ st.bytes_read \in Nat /\ st.bytes_written \in Nat /\ st.cur_cap \in Nat
           /\ st.bytes_written = st.bytes_read + st.cur_cap
           /\ st.bytes_read <= st.bytes_written
           /\ st.str \in Seq(Nat)
  <1>1. /\ st.bytes_read \in Nat /\ st.bytes_written \in Nat /\ st.cur_cap \in Nat
        /\ st.bytes_written = st.bytes_read + st.cur_cap
        /\ st.str \in Seq(Nat)
    BY DEF StreamOK, StreamType
  <1> QED  BY <1>1

\* Written bytes are the next ones of the application's stream.
LEMMA WrittenBytes ==
    ASSUME NEW st, StreamOK(st, Nat), StreamInv(st, FALSE), NEW n \in Nat, NEW c,
           c = ByteStream_write(st, Bytes(st.bytes_written, st.bytes_written + n))
    PROVE  StreamInv(c, FALSE) /\ c.bytes_read = st.bytes_read
  <1> DEFINE rd == st.bytes_read
             wr == st.bytes_written
             e  == wr + n
             d  == Bytes(wr, e)
             k  == ByteStream_accepted(st, d)
             p  == Substr(d, 0, k)
             u  == st.str \o p
  <1>1. /\ rd \in Nat /\ wr \in Nat /\ rd <= wr /\ st.str \in Seq(Nat)
        /\ st.str = Bytes(rd, wr)
    BY StreamNats DEF StreamInv
  <1>2. e \in Nat /\ wr <= e /\ e - wr = n  BY <1>1
  <1>3. c = ByteStream_write(st, d)  OBVIOUS
  <1> HIDE DEF rd, wr, e
  <1>4. d \in Seq(Nat) /\ Len(d) = n /\ \A x \in 1 .. n : d[x] = wr + x - 1
    BY <1>1, <1>2, BytesType, Zenon
  <1> HIDE DEF d
  <1>5. /\ k \in 0 .. Len(d) /\ c.bytes_written = st.bytes_written + k
        /\ c.bytes_read = st.bytes_read /\ c.str = u
    <2>1. StreamOK(st, Nat) /\ d \in Seq(Nat)  BY <1>4
    <2> DEFINE w == ByteStream_write(st, d)
    <2>2. k \in 0 .. Len(d)  BY ONLY <2>1, WriteOK, ZenonT(60)
    <2>3. w.bytes_written = st.bytes_written + k  BY ONLY <2>1, WriteOK, ZenonT(60)
    <2>4. w.bytes_read = st.bytes_read  BY ONLY <2>1, WriteOK, ZenonT(60)
    <2>5. w.str = u  BY ONLY <2>1, WriteOK, ZenonT(60)
    <2> HIDE DEF w
    <2>6. c = w  BY <1>3 DEF w
    <2> QED  BY ONLY <2>2, <2>3, <2>4, <2>5, <2>6, SMTT(30)
  <1> HIDE DEF k
  <1>6. k \in Nat /\ k <= n /\ k <= Len(d)  BY <1>4, <1>5
  <1>7. p \in Seq(Nat) /\ Len(p) = k /\ \A x \in 1 .. k : p[x] = d[x]
    BY <1>4, <1>6, SubstrPrefix
  <1> HIDE DEF p
  <1>8. /\ Len(st.str) = wr - rd /\ \A x \in 1 .. wr - rd : st.str[x] = rd + x - 1
    BY <1>1, BytesType
  <1>9. /\ u \in Seq(Nat) /\ Len(u) = Len(st.str) + Len(p)
        /\ \A x \in 1 .. Len(st.str) + Len(p) :
               u[x] = IF x <= Len(st.str) THEN st.str[x] ELSE p[x - Len(st.str)]
    BY <1>1, <1>7, ConcatProperties, ZenonT(30)
  <1> HIDE DEF u
  <1> DEFINE z == wr + k
  <1>10. z \in Nat /\ rd <= z /\ Len(u) = z - rd  BY <1>1, <1>6, <1>7, <1>8, <1>9
  <1>11. ASSUME NEW x \in 1 .. z - rd  PROVE u[x] = rd + x - 1
    <2>1. CASE x <= wr - rd
      <3>1. x \in 1 .. wr - rd /\ u[x] = st.str[x]  BY <2>1, <1>1, <1>6, <1>7, <1>8, <1>9
      <3> QED  BY <3>1, <1>8
    <2>2. CASE x > wr - rd
      <3> DEFINE y == x - (wr - rd)
      <3>1. y \in 1 .. k /\ y \in 1 .. n /\ u[x] = p[y]
        BY ONLY <2>2, <1>1, <1>6, <1>7, <1>8, <1>9, SMTT(30)
      <3>2. p[y] = d[y] /\ d[y] = wr + y - 1  BY <3>1, <1>4, <1>7
      <3> QED  BY ONLY <3>1, <3>2, <1>1, SMTT(30)
    <2> QED  BY <2>1, <2>2, <1>1, <1>10
  <1> HIDE DEF z
  <1>12. u = Bytes(rd, z)  BY <1>1, <1>9, <1>10, <1>11, BytesUnique, Zenon
  <1>13. c.str = Bytes(c.bytes_read, c.bytes_written)  BY <1>5, <1>12, Zenon DEF rd, wr, z
  <1> QED  BY <1>5, <1>13 DEF StreamInv

\* What is read is the next piece, and what is left is the rest.
LEMMA ReadBytes ==
    ASSUME NEW st, StreamOK(st, Nat), StreamInv(st, FALSE), NEW len \in Nat,
           NEW got, got = ByteStream_read(st, len)
    PROVE  /\ got.data = Bytes(st.bytes_read, got.stream.bytes_read)
           /\ got.stream.bytes_read = st.bytes_read + Len(got.data)
           /\ got.stream.bytes_written = st.bytes_written
           /\ got.stream.input_is_end = st.input_is_end
           /\ got.stream.str = Bytes(got.stream.bytes_read, got.stream.bytes_written)
           /\ StreamOK(got.stream, Nat)
  <1> DEFINE rd  == st.bytes_read
             wr  == st.bytes_written
             cap == st.cur_cap
             str == st.str
             n   == MinOf(len, cap)
             m   == rd + n
             a   == got.data
             b   == got.stream.str
  <1>1. /\ rd \in Nat /\ wr \in Nat /\ cap \in Nat /\ wr = rd + cap
        /\ str \in Seq(Nat) /\ str = Bytes(rd, wr)
    BY StreamNats, ZenonT(30) DEF StreamInv
  <1>2. /\ n \in 0 .. cap
        /\ a \in Seq(Nat) /\ Len(a) = n /\ \A i \in 1 .. n : a[i] = str[i]
        /\ StreamOK(got.stream, Nat)
        /\ got.stream.bytes_read = rd + n
        /\ got.stream.bytes_written = wr
        /\ got.stream.input_is_end = st.input_is_end
        /\ Len(b) = cap - n
        /\ \A i \in 1 .. cap - n : b[i] = str[n + i]
    BY ReadOK
  <1>3. b \in Seq(Nat)  BY <1>2 DEF StreamOK, StreamType
  <1> HIDE DEF rd, wr, cap, str, n, a, b
  <1>4. rd <= wr /\ wr - rd = cap  BY <1>1
  <1>5. \A i \in 1 .. cap : str[i] = rd + i - 1
    <2>1. \A i \in 1 .. wr - rd : Bytes(rd, wr)[i] = rd + i - 1
      BY ONLY <1>1, <1>4, BytesType, Zenon
    <2> QED  BY ONLY <2>1, <1>1, <1>4, SMTT(30)
  <1>6. n \in Nat /\ n <= cap /\ m \in Nat /\ rd <= m /\ m <= wr
        /\ m - rd = n /\ wr - m = cap - n
    BY <1>1, <1>2, <1>4
  <1>7. ASSUME NEW i \in 1 .. m - rd  PROVE a[i] = rd + i - 1
    <2>1. i \in 1 .. n /\ i \in 1 .. cap  BY <1>1, <1>6
    <2> QED  BY <2>1, <1>2, <1>5, Zenon
  <1>8. ASSUME NEW i \in 1 .. wr - m  PROVE b[i] = m + i - 1
    <2>1. i \in 1 .. cap - n /\ n + i \in 1 .. cap  BY ONLY <1>1, <1>6, SMTT(30)
    <2>2. b[i] = str[n + i] /\ str[n + i] = rd + (n + i) - 1  BY <2>1, <1>2, <1>5, Zenon
    <2> QED  BY <2>2, <1>1, <1>6
  <1>9. got.stream.bytes_read = m  BY <1>2
  <1>10. Len(a) = m - rd /\ Len(b) = wr - m  BY <1>2, <1>6, Zenon
  <1> HIDE DEF m
  <1>11. a = Bytes(rd, m)  BY <1>1, <1>2, <1>6, <1>7, <1>10, BytesUnique, Zenon
  <1>12. b = Bytes(m, wr)  BY <1>1, <1>3, <1>6, <1>8, <1>10, BytesUnique, Zenon
  <1>13. got.stream.bytes_read = rd + Len(a)  BY <1>2
  <1> QED  BY <1>2, <1>9, <1>11, <1>12, <1>13, Zenon DEF rd, wr, a, b

-----------------------------------------------------------------------------
\* Segments that stay or come.

\* A piece stays one while bytes are read, and written if no FIN is out.
LEMMA PieceKept ==
    ASSUME NEW seg \in SegType, NEW rd \in Nat, NEW rd2 \in Nat, rd <= rd2,
           NEW wr, NEW wr2, NEW ended, NEW ended2,
           ended => ended2 /\ wr2 = wr, PieceOf(seg, rd, wr, ended)
    PROVE  PieceOf(seg, rd2, wr2, ended2)
  <1> DEFINE e == PayloadAt(seg) + Len(seg.payload)
  <1>1. seg.abs \in Nat /\ seg.payload \in Seq(Nat)  BY DEF SegType
  <1>2. PayloadAt(seg) \in Int /\ Len(seg.payload) \in Nat  BY <1>1 DEF PayloadAt
  <1>3. e \in Int /\ e <= rd  BY <1>2 DEF PieceOf
  <1> HIDE DEF e
  <1>4. e <= rd2  BY <1>3
  <1> QED  BY <1>4, Zenon DEF PieceOf, e

\* The stream of u is that of t or a later one.
Grown(t, u) ==
    /\ StreamInv(u.stream, u.is_transmission_ended)
    /\ t.stream.bytes_read <= u.stream.bytes_read
    /\ t.is_transmission_ended => /\ u.is_transmission_ended
                                  /\ u.stream.bytes_written = t.stream.bytes_written

\* A segment of u comes from the queue of t, or is a piece by itself.
Origin(seg, t, u) ==
    (\E l \in 1 .. Len(t.outstanding) : seg = t.outstanding[l]) \/ Piece(seg, u)

Descends(t, u) ==
    /\ Grown(t, u)
    /\ \A k \in 1 .. Len(u.outstanding) : Origin(u.outstanding[k], t, u)
    /\ \A k \in 1 .. Len(u.segments_out) :
           \/ length_in_sequence_space(u.segments_out[k]) = 0
           \/ Origin(u.segments_out[k], t, u)
           \/ \E l \in 1 .. Len(t.segments_out) : u.segments_out[k] = t.segments_out[l]

LEMMA Descend ==
    ASSUME NEW t, NEW u, SenderInv(t), SenderInv(u), DataInv(t), Descends(t, u)
    PROVE  DataInv(u)
  <1>1. /\ t.outstanding \in Seq(SegType) /\ t.segments_out \in Seq(SegType)
        /\ t.stream.bytes_read \in Nat /\ u.stream.bytes_read \in Nat
    <2>1. StreamOK(t.stream, Nat) /\ StreamOK(u.stream, Nat)  BY DEF SenderInv, Counting
    <2> QED  BY <2>1, StreamNats, Zenon DEF SenderInv, SenderType
  <1>2. Grown(t, u)  BY DEF Descends
  <1>3. ASSUME NEW seg \in SegType, Piece(seg, t)  PROVE Piece(seg, u)
    <2> DEFINE rd == t.stream.bytes_read
               rd2 == u.stream.bytes_read
               wr == t.stream.bytes_written
               wr2 == u.stream.bytes_written
               e == t.is_transmission_ended
               e2 == u.is_transmission_ended
    <2>1. /\ rd \in Nat /\ rd2 \in Nat /\ rd <= rd2 /\ (e => e2 /\ wr2 = wr)
          /\ PieceOf(seg, rd, wr, e)
      BY <1>1, <1>2, <1>3 DEF Grown, Piece
    <2> HIDE DEF rd, rd2, wr, wr2, e, e2
    <2>2. PieceOf(seg, rd2, wr2, e2)  BY <2>1, PieceKept
    <2> QED  BY <2>2 DEF rd2, wr2, e2, Piece
  <1>4. ASSUME NEW seg, Origin(seg, t, u)  PROVE Piece(seg, u)
    <2>1. CASE Piece(seg, u)  BY <2>1
    <2>2. ASSUME NEW l \in 1 .. Len(t.outstanding), seg = t.outstanding[l]
          PROVE  Piece(seg, u)
      <3>1. seg \in SegType  BY <2>2, <1>1
      <3>2. Piece(seg, t)  BY <2>2 DEF DataInv, Pieces
      <3> QED  BY <3>1, <3>2, <1>3
    <2> QED  BY <2>1, <2>2, <1>4 DEF Origin
  <1>5. Pieces(u.outstanding, u)  BY <1>4 DEF Descends, Pieces
  <1>6. ASSUME NEW k \in 1 .. Len(u.segments_out)  PROVE Sendable(u.segments_out[k], u)
    <2> DEFINE seg == u.segments_out[k]
    <2>1. CASE length_in_sequence_space(seg) = 0  BY <2>1 DEF Sendable
    <2>2. CASE Origin(seg, t, u)  BY <2>2, <1>4 DEF Sendable
    <2>3. ASSUME NEW l \in 1 .. Len(t.segments_out), seg = t.segments_out[l]
          PROVE  Sendable(seg, u)
      <3>1. seg \in SegType  BY <2>3, <1>1
      <3>2. Sendable(seg, t)  BY <2>3 DEF DataInv, AllSendable
      <3> QED  BY <3>1, <3>2, <1>3 DEF Sendable
    <2> QED  BY <2>1, <2>2, <2>3 DEF Descends
  <1> QED  BY <1>2, <1>5, <1>6 DEF DataInv, AllSendable, Grown

\* The queue and the stream stay, and nothing is sent but the front of the
\* queue or an empty segment.
LEMMA Unmoved ==
    ASSUME NEW t, NEW u, SenderInv(t), SenderInv(u), DataInv(t),
           u.stream = t.stream, u.is_transmission_ended = t.is_transmission_ended,
           u.outstanding = t.outstanding,
           \A k \in 1 .. Len(u.segments_out) :
               \/ length_in_sequence_space(u.segments_out[k]) = 0
               \/ \E l \in 1 .. Len(t.outstanding) : u.segments_out[k] = t.outstanding[l]
               \/ \E l \in 1 .. Len(t.segments_out) : u.segments_out[k] = t.segments_out[l]
    PROVE  DataInv(u)
  <1>1. t.stream.bytes_read \in Nat
    BY StreamNats DEF SenderInv, Counting
  <1>2. t.stream.bytes_read <= t.stream.bytes_read  BY <1>1
  <1>3. Grown(t, u)  BY <1>2, Zenon DEF Grown, DataInv
  <1>4. Descends(t, u)  BY <1>3, Zenon DEF Descends, Origin
  <1> QED  BY <1>4, Descend, Zenon

-----------------------------------------------------------------------------
\* The calls.

LEMMA DrainedOut ==
    ASSUME NEW t, SenderInv(t), DataInv(t)
    PROVE  LET u == Drained(t)
           IN  /\ SenderInv(u) /\ DataInv(u) /\ Alike(t, u) /\ u.segments_out = <<>>
  <1> DEFINE u == Drained(t)
  <1>1. t \in SenderType  BY DEF SenderInv
  <1>2. u.segments_out = <<>>  BY <1>1 DEF Drained, SenderType
  <1>3. SenderInv(u) /\ Alike(t, u)  BY DrainedInv
  <1> HIDE DEF u
  <1>4. DataInv(u)
    <2>1. /\ u.stream = t.stream /\ u.is_transmission_ended = t.is_transmission_ended
          /\ u.outstanding = t.outstanding
      BY <1>3 DEF Alike
    <2>2. 1 .. Len(u.segments_out) = {}  BY <1>2
    <2> QED  BY <2>1, <2>2, <1>3, Unmoved
  <1> QED  BY <1>2, <1>3, <1>4 DEF u

\* Before the first iteration something is in flight, or there will be one.
LEMMA FillBegins ==
    ASSUME NEW t, SenderInv(t)
    PROVE  Filling(t).call = "fill" /\ (~Filling(t).f.more => Done(t))
  <1> DEFINE w == IF t.window_size = 0 THEN 1 ELSE t.window_size
  <1>1. t.window_size \in Nat /\ t.bytes_in_flight \in Nat  BY DEF SenderInv, SenderType
  <1>2. w \in Nat /\ w >= 1  BY <1>1
  <1>3. Filling(t).call = "fill" /\ Filling(t).f.more = (w > t.bytes_in_flight)
    BY DEF Filling, fill_begin
  <1> HIDE DEF w
  <1>4. t.outstanding = <<>> => t.bytes_in_flight = 0  BY DEF SenderInv, Queue, IsChain
  <1>5. ASSUME ~Filling(t).f.more  PROVE t.outstanding # <<>>
    <2>1. ~(w > t.bytes_in_flight)  BY <1>3, <1>5, Zenon
    <2> QED  BY <2>1, <1>1, <1>2, <1>4
  <1> QED  BY <1>3, <1>5 DEF Done

LEMMA ToFill ==
    ASSUME SenderInv(s'), DataInv(s'), act' = Filling(s')
    PROVE  PInv'
  <1>1. act'.call = "fill" /\ (~act'.f.more => Done(s'))  BY FillBegins
  <1>2. act'.call # "idle"  BY <1>1
  <1> QED  BY <1>1, <1>2, Zenon DEF PInv

LEMMA FillWindowPieces ==
    ASSUME IInv, PInv, FillWindow
    PROVE  PInv'
  <1>1. SenderInv(s) /\ DataInv(s)  BY DEF IInv, PInv
  <1>2. s' = Drained(s) /\ act' = Filling(s')  BY DEF FillWindow
  <1>3. SenderInv(s') /\ DataInv(s')  BY <1>1, <1>2, DrainedOut
  <1> QED  BY <1>2, <1>3, ToFill

\* Another stream, which is that of t or a later one.
LEMMA NewStream ==
    ASSUME NEW t, SenderInv(t), DataInv(t), t.segments_out = <<>>,
           NEW u, SenderInv(u), NEW st, u = [t EXCEPT !.stream = st],
           StreamInv(st, t.is_transmission_ended),
           st.bytes_read = t.stream.bytes_read,
           t.is_transmission_ended => st.bytes_written = t.stream.bytes_written
    PROVE  DataInv(u)
  <1>1. t \in SenderType  BY DEF SenderInv
  <1>2. /\ u.stream = st /\ u.outstanding = t.outstanding /\ u.segments_out = <<>>
        /\ u.is_transmission_ended = t.is_transmission_ended
    BY <1>1 DEF SenderType
  <1>3. t.stream.bytes_read \in Nat  BY StreamNats DEF SenderInv, Counting
  <1>4. t.stream.bytes_read <= st.bytes_read  BY <1>3
  <1>5. Grown(t, u)  BY <1>2, <1>4, Zenon DEF Grown
  <1>6. 1 .. Len(u.segments_out) = {}  BY <1>2
  <1>7. Descends(t, u)  BY <1>2, <1>5, <1>6, Zenon DEF Descends, Origin
  <1> QED  BY <1>7, Descend

LEMMA WritePieces ==
    ASSUME IInv, PInv, NEW n \in 1 .. MaxBytes, Write(n)
    PROVE  PInv'
  <1> DEFINE u  == Drained(s)
             st == ByteStream_write(s.stream, Bytes(s.stream.bytes_written,
                                                    s.stream.bytes_written + n))
  <1>1. SenderInv(s) /\ DataInv(s)  BY DEF IInv, PInv
  <1>2. /\ SenderInv(u) /\ DataInv(u) /\ u.segments_out = <<>> /\ u.stream = s.stream
        /\ u.is_transmission_ended = s.is_transmission_ended
    BY <1>1, DrainedOut DEF Alike
  <1>3. s' = [u EXCEPT !.stream = st] /\ act' = Filling(s') /\ ~s.stream.input_is_end
    BY <1>2, Zenon DEF Write, ByteStream_input_ended
  <1>4. StreamOK(s.stream, Nat) /\ StreamInv(s.stream, s.is_transmission_ended)
    BY <1>1 DEF SenderInv, Counting, DataInv
  <1>5. ~s.is_transmission_ended  BY <1>3, <1>4 DEF StreamInv
  <1>6. StreamInv(s.stream, FALSE)  BY <1>4 DEF StreamInv
  <1>7. n \in Nat  BY Constants
  <1>8. StreamInv(st, FALSE) /\ st.bytes_read = s.stream.bytes_read
    BY <1>4, <1>6, <1>7, WrittenBytes, Zenon
  <1> HIDE DEF u, st
  <1>9. StreamInv(st, u.is_transmission_ended)  BY <1>2, <1>5, <1>8, Zenon DEF StreamInv
  <1>10. SenderInv(s')  BY WriteStep DEF IInv
  <1>11. DataInv(s')
    <2>1. st.bytes_read = u.stream.bytes_read /\ ~u.is_transmission_ended
      BY <1>2, <1>5, <1>8, Zenon
    <2> QED  BY <2>1, <1>2, <1>3, <1>9, <1>10, NewStream, Zenon
  <1> QED  BY <1>3, <1>10, <1>11, ToFill, Zenon

LEMMA EndInputPieces ==
    ASSUME IInv, PInv, EndInput
    PROVE  PInv'
  <1> DEFINE u  == Drained(s)
             st == ByteStream_end_input(s.stream)
  <1>1. SenderInv(s) /\ DataInv(s)  BY DEF IInv, PInv
  <1>2. /\ SenderInv(u) /\ DataInv(u) /\ u.segments_out = <<>> /\ u.stream = s.stream
        /\ u.is_transmission_ended = s.is_transmission_ended
    BY <1>1, DrainedOut DEF Alike
  <1>3. s' = [u EXCEPT !.stream = st] /\ act' = Filling(s')
    BY <1>2, Zenon DEF EndInput
  <1>4. StreamOK(s.stream, Nat) /\ StreamInv(s.stream, s.is_transmission_ended)
    BY <1>1 DEF SenderInv, Counting, DataInv
  <1>5. /\ st.bytes_written = s.stream.bytes_written
        /\ st.bytes_read = s.stream.bytes_read
        /\ st.cur_cap = s.stream.cur_cap /\ st.str = s.stream.str
    BY <1>4, EndInputOK
  <1>6. st.input_is_end = TRUE
    BY <1>4 DEF ByteStream_end_input, StreamOK, StreamType
  <1> HIDE DEF u, st
  <1>7. StreamInv(st, u.is_transmission_ended)
    BY <1>2, <1>4, <1>5, <1>6, Zenon DEF StreamInv
  <1>8. SenderInv(s')  BY EndInputStep DEF IInv
  <1>9. DataInv(s')
    <2>1. st.bytes_read = u.stream.bytes_read /\ st.bytes_written = u.stream.bytes_written
      BY <1>2, <1>5, Zenon
    <2> QED  BY <2>1, <1>2, <1>3, <1>7, <1>8, NewStream, Zenon
  <1> QED  BY <1>3, <1>8, <1>9, ToFill, Zenon

LEMMA AckReceivedPieces ==
    ASSUME IInv, PInv, NEW ackno \in RawSeqno, NEW window \in 0 .. MaxWindow,
           AckReceived(ackno, window)
    PROVE  PInv'
  <1> DEFINE u == Drained(s)
             a == ackno_abs(s, ackno)
  <1>1. SenderInv(s) /\ DataInv(s)  BY Zenon DEF IInv, PInv
  <1>2. SenderInv(u) /\ DataInv(u) /\ u.segments_out = <<>>  BY <1>1, DrainedOut
  <1>3. /\ s' = ack_begin(u, a, window)
        /\ act' = IF acceptable(s, a) THEN Acking(a) ELSE Filling(s')
    BY DEF AckReceived
  <1> HIDE DEF u, a
  <1>4. SenderInv(s')  BY AckReceivedStep, Zenon DEF IInv
  <1>5. u \in SenderType  BY <1>2 DEF SenderInv
  <1>6. /\ s'.stream = u.stream /\ s'.is_transmission_ended = u.is_transmission_ended
        /\ s'.outstanding = u.outstanding /\ s'.segments_out = u.segments_out
    BY <1>3, <1>5, Zenon DEF ack_begin, SenderType
  <1>7. DataInv(s')
    <2>1. 1 .. Len(s'.segments_out) = {}  BY <1>2, <1>6
    <2> QED  BY <2>1, <1>2, <1>4, <1>6, Unmoved, Zenon
  <1>8. CASE acceptable(s, a)
    <2>1. act'.call = "ack"  BY <1>3, <1>8 DEF Acking
    <2>2. act'.call # "idle" /\ act'.call # "fill"  BY <2>1
    <2> QED  BY <2>2, <1>7, Zenon DEF PInv
  <1>9. CASE ~acceptable(s, a)  BY <1>3, <1>4, <1>7, <1>9, ToFill
  <1> QED  BY <1>8, <1>9, Zenon

LEMMA AckPopPieces ==
    ASSUME IInv, PInv, AckPop
    PROVE  PInv'
  <1> DEFINE q == s.outstanding
  <1>1. SenderInv(s) /\ DataInv(s)  BY DEF IInv, PInv
  <1>2. s' = ack_pop(s) /\ act' = act /\ act.call = "ack" /\ q # <<>>
    BY DEF AckPop, fully_acked
  <1>3. SenderInv(s')  BY AckPopStep DEF IInv
  <1>4. s \in SenderType /\ q \in Seq(SegType)
    <2>1. s \in SenderType  BY <1>1, Zenon DEF SenderInv
    <2> QED  BY ONLY <2>1, Zenon DEF SenderType
  <1>5. /\ s'.stream = s.stream /\ s'.is_transmission_ended = s.is_transmission_ended
        /\ s'.outstanding = Tail(q) /\ s'.segments_out = s.segments_out
    BY <1>2, <1>4, Zenon DEF ack_pop, SenderType
  <1>6. \A k \in 1 .. Len(Tail(q)) : Tail(q)[k] = q[k + 1] /\ k + 1 \in 1 .. Len(q)
    BY ONLY <1>2, <1>4, SMTT(30)
  <1>7. s.stream.bytes_read \in Nat  BY <1>1, StreamNats DEF SenderInv, Counting
  <1>8. s.stream.bytes_read <= s.stream.bytes_read  BY <1>7
  <1>9. Grown(s, s')  BY <1>1, <1>5, <1>8, Zenon DEF Grown, DataInv
  <1> HIDE DEF q
  <1>10. \A k \in 1 .. Len(s'.outstanding) : Origin(s'.outstanding[k], s, s')
    BY <1>5, <1>6, Zenon DEF Origin, q
  <1>11. Descends(s, s')  BY <1>5, <1>9, <1>10, Zenon DEF Descends
  <1>12. DataInv(s')  BY <1>1, <1>3, <1>11, Descend
  <1>13. act'.call # "idle" /\ act'.call # "fill"  BY <1>2
  <1> QED  BY <1>12, <1>13, Zenon DEF PInv

LEMMA AckFinishPieces ==
    ASSUME IInv, PInv, AckFinish
    PROVE  PInv'
  <1>1. SenderInv(s) /\ DataInv(s)  BY DEF IInv, PInv
  <1>2. s' = ack_finish(s) /\ act' = Filling(s')  BY DEF AckFinish
  <1>3. SenderInv(s')  BY AckFinishStep DEF IInv
  <1>4. s \in SenderType  BY <1>1 DEF SenderInv
  <1>5. /\ s'.stream = s.stream /\ s'.is_transmission_ended = s.is_transmission_ended
        /\ s'.outstanding = s.outstanding /\ s'.segments_out = s.segments_out
    BY <1>2, <1>4, Zenon DEF ack_finish, SenderType
  <1>6. DataInv(s')  BY <1>1, <1>3, <1>5, Unmoved
  <1> QED  BY <1>2, <1>3, <1>6, ToFill, Zenon

LEMMA FillReturnPieces ==
    ASSUME IInv, PInv, FillReturn
    PROVE  PInv'
  <1>1. act.call = "fill" /\ ~act.f.more /\ act' = Idle /\ s' = s  BY DEF FillReturn
  <1>2. act'.call = "idle" /\ act'.call # "fill"  BY <1>1 DEF Idle
  <1>3. Done(s) /\ DataInv(s)  BY <1>1 DEF PInv
  <1>4. Done(s') /\ DataInv(s')  BY <1>1, <1>3
  <1> QED  BY <1>2, <1>4, Zenon DEF PInv

\* Between two calls nothing that matters changes.
LEMMA Rest ==
    ASSUME IInv, PInv, act = Idle, act' = act, SenderInv(s'), DataInv(s'), Alike(s, s')
    PROVE  PInv'
  <1>1. act.call = "idle"  BY DEF Idle
  <1>2. act'.call # "fill"  BY <1>1
  <1>3. Done(s)  BY <1>1 DEF PInv
  <1>4. Done(s')  BY <1>3, Zenon DEF Done, Alike
  <1> QED  BY <1>2, <1>4, Zenon DEF PInv

\* tick sends the front of the queue or nothing.
LEMMA TickOut ==
    ASSUME NEW t, t \in SenderType, NEW ms \in Nat
    PROVE  LET u == TCPSender_tick(t, ms)
           IN  \/ u.segments_out = t.segments_out
               \/ /\ t.outstanding # <<>>
                  /\ u.segments_out = Append(t.segments_out, Head(t.outstanding))
  <1> DEFINE t1 == [t EXCEPT !.timer = Timer_tick(t.timer, ms)]
             t2 == retransmit(t1)
             t3 == backoff(t2)
             t4 == [t3 EXCEPT !.timer = Timer_start(Timer_stop(t3.timer), t3.cur_rto)]
             u  == TCPSender_tick(t, ms)
             out == Append(t.segments_out, Head(t.outstanding))
  <1>1. /\ t.timer \in TimerType /\ t.segments_out \in Seq(SegType)
        /\ t.outstanding \in Seq(SegType)
    BY DEF SenderType
  <1>2. t1 \in SenderType /\ t1.segments_out = t.segments_out /\ t1.outstanding = t.outstanding
    <2> DEFINE tm == Timer_tick(t.timer, ms)
    <2>1. tm \in TimerType  BY <1>1, TimerOps, Zenon
    <2>2. t1 = [t EXCEPT !.timer = tm]  OBVIOUS
    <2> HIDE DEF tm, t1
    <2> QED  BY <2>1, <2>2, Zenon DEF SenderType
  <1>3. u = IF Timer_expired(t1.timer) /\ t1.outstanding # <<>> THEN t4 ELSE t1
    BY DEF TCPSender_tick
  <1>4. t2 = [t1 EXCEPT !.segments_out = Append(t1.segments_out, Head(t1.outstanding))]
    BY DEF retransmit
  <1>5. t3 = IF t2.window_size = 0 THEN t2
             ELSE [t2 EXCEPT !.consecutive_retrans = t2.consecutive_retrans + 1,
                             !.cur_rto = 2 * t2.cur_rto]
    BY DEF backoff
  <1>6. t4 = [t3 EXCEPT !.timer = Timer_start(Timer_stop(t3.timer), t3.cur_rto)]  OBVIOUS
  <1> HIDE DEF t1, t2, t3, t4, u
  <1>7. ASSUME t.outstanding # <<>>  PROVE t4.segments_out = out
    <2>1. out \in Seq(SegType)  BY <1>1, <1>7
    <2>2. t2 = [t1 EXCEPT !.segments_out = out]  BY <1>2, <1>4
    <2> HIDE DEF out
    <2>3. t2 \in SenderType /\ t2.segments_out = out  BY <2>1, <2>2, <1>2, Zenon DEF SenderType
    <2>4. t3 \in SenderType /\ t3.segments_out = out
      <3>1. CASE t2.window_size = 0  BY <3>1, <2>3, <1>5, Zenon
      <3>2. CASE t2.window_size # 0
        <4> DEFINE n == t2.consecutive_retrans + 1
                   rto == 2 * t2.cur_rto
        <4>0. t2.consecutive_retrans \in Nat /\ t2.cur_rto \in Nat  BY <2>3 DEF SenderType
        <4>1. n \in Nat /\ rto \in Nat  BY <4>0
        <4>2. t3 = [t2 EXCEPT !.consecutive_retrans = n, !.cur_rto = rto]  BY <3>2, <1>5, Zenon
        <4> HIDE DEF n, rto
        <4> QED  BY <4>1, <4>2, <2>3, Zenon DEF SenderType
      <3> QED  BY <3>1, <3>2
    <2> QED  BY <2>4, <1>6 DEF SenderType
  <1>8. CASE Timer_expired(t1.timer) /\ t1.outstanding # <<>>
    BY <1>2, <1>3, <1>7, <1>8, Zenon DEF u
  <1>9. CASE ~(Timer_expired(t1.timer) /\ t1.outstanding # <<>>)
    BY <1>2, <1>3, <1>9 DEF u
  <1> QED  BY <1>8, <1>9

LEMMA TickPieces ==
    ASSUME IInv, PInv, NEW ms \in 1 .. MaxTick, Tick(ms)
    PROVE  PInv'
  <1> DEFINE u == Drained(s)
  <1>1. SenderInv(s) /\ DataInv(s) /\ Quiet(s) /\ act = Idle /\ act' = act
    BY Resting DEF PInv, Tick
  <1>2. s' = TCPSender_tick(u, ms)  BY DEF Tick
  <1>3. SenderInv(u) /\ DataInv(u) /\ Alike(s, u) /\ u.segments_out = <<>>  BY <1>1, DrainedOut
  <1>4. u.timer = s.timer  BY <1>1, DrainedInv, Zenon
  <1>5. ms \in Nat  BY ONLY Constants, SMTT(30)
  <1> HIDE DEF u
  <1>6. Quiet(u)  BY <1>1, <1>3, <1>4, AlikeInv, Zenon
  <1>7. Alike(u, s')  BY <1>2, <1>3, <1>5, <1>6, TickAlike, Zenon
  <1>8. SenderInv(s')  BY <1>3, <1>7, AlikeInv, Zenon
  <1>9. u \in SenderType /\ u.outstanding \in Seq(SegType)
    BY <1>3, Zenon DEF SenderInv, SenderType
  <1>10. \/ s'.segments_out = <<>>
         \/ u.outstanding # <<>> /\ s'.segments_out = Append(<<>>, Head(u.outstanding))
    BY <1>2, <1>3, <1>5, <1>9, TickOut, Zenon
  <1>11. ASSUME NEW k \in 1 .. Len(s'.segments_out)
         PROVE  \E l \in 1 .. Len(u.outstanding) : s'.segments_out[k] = u.outstanding[l]
    <2>1. u.outstanding # <<>> /\ s'.segments_out = <<Head(u.outstanding)>>
      BY <1>10, <1>11
    <2>2. s'.segments_out[k] = u.outstanding[1] /\ 1 \in 1 .. Len(u.outstanding)
      BY ONLY <2>1, <1>9, <1>11, SMTT(30)
    <2> QED  BY <2>2, Zenon
  <1>12. DataInv(s')
    <2>1. /\ s'.stream = u.stream /\ s'.is_transmission_ended = u.is_transmission_ended
          /\ s'.outstanding = u.outstanding
      BY <1>7 DEF Alike
    <2> QED  BY <2>1, <1>3, <1>8, <1>11, Unmoved, Zenon
  <1>13. Alike(s, s')  BY <1>3, <1>7, AlikeTrans, Zenon
  <1> QED  BY <1>1, <1>8, <1>12, <1>13, Rest, Zenon

LEMMA SendEmptySegmentPieces ==
    ASSUME IInv, PInv, SendEmptySegment
    PROVE  PInv'
  <1> DEFINE u   == Drained(s)
             seg == [NewTCPSegment EXCEPT !.seqno = wrap(u.next_seqno, u.isn),
                                          !.abs = u.next_seqno]
             out == Append(u.segments_out, seg)
  <1>1. SenderInv(s) /\ DataInv(s) /\ act = Idle /\ act' = act
    BY Zenon DEF IInv, PInv, SendEmptySegment
  <1>2. SenderInv(u) /\ DataInv(u) /\ Alike(s, u) /\ u.segments_out = <<>>  BY <1>1, DrainedOut
  <1>3. s' = [u EXCEPT !.segments_out = out]
    BY DEF SendEmptySegment, TCPSender_send_empty_segment
  <1>4. length_in_sequence_space(seg) = 0
    <2>1. seg.payload = <<>> /\ seg.syn = FALSE /\ seg.fin = FALSE  BY DEF NewTCPSegment
    <2> HIDE DEF seg
    <2> QED  BY <2>1 DEF length_in_sequence_space, Bit
  <1>5. SenderInv(s')  BY SendEmptySegmentStep DEF IInv
  <1> HIDE DEF u, seg
  <1>6. u \in SenderType  BY <1>2 DEF SenderInv
  <1>7. out = <<seg>>  BY <1>2
  <1> HIDE DEF out
  <1>8. /\ s'.isn = u.isn /\ s'.stream = u.stream /\ s'.next_seqno = u.next_seqno
        /\ s'.window_size = u.window_size /\ s'.bytes_in_flight = u.bytes_in_flight
        /\ s'.una_seqno = u.una_seqno /\ s'.outstanding = u.outstanding
        /\ s'.is_transmission_ended = u.is_transmission_ended /\ s'.segments_out = out
    BY <1>3, <1>6, Zenon DEF SenderType
  <1>9. \A k \in 1 .. Len(s'.segments_out) : length_in_sequence_space(s'.segments_out[k]) = 0
    BY ONLY <1>4, <1>7, <1>8, SMTT(30)
  <1>10. DataInv(s')  BY <1>2, <1>5, <1>8, <1>9, Unmoved, Zenon
  <1>11. Alike(u, s')  BY <1>5, <1>8 DEF Alike, SenderInv
  <1>12. Alike(s, s')  BY <1>2, <1>11, AlikeTrans, Zenon
  <1> QED  BY <1>1, <1>5, <1>10, <1>12, Rest, Zenon

\* One iteration of fill_window: the new segment is the next piece, and the
\* last iteration leaves something outstanding or nothing to send.
LEMMA FillPieces ==
    ASSUME NEW t, SenderInv(t), BeforeSyn(t), NEW f \in FillType, FillInv(t, f), f.more,
           ~t.is_transmission_ended, DataInv(t), SenderInv(fill_once(t, f).s)
    PROVE  LET r == fill_once(t, f)
           IN  DataInv(r.s) /\ (~r.f.more => Done(r.s))
  <1> DEFINE first == t.next_seqno = 0
             syn   == f.syn \/ first
             took  == Bit(first)
             size  == read_size(f.window, t.bytes_in_flight + took)
             got   == ByteStream_read(t.stream, size)
             used  == took + Len(got.data)
             fin   == fin_now(got.stream, f.window, t.bytes_in_flight + used)
             all   == used + Bit(fin)
             nxt   == t.next_seqno + all
             bif   == t.bytes_in_flight + all
             ended == t.is_transmission_ended \/ fin
             data  == got.data
             st    == got.stream
             q     == t.outstanding
             seg   == fill_segment(t, syn, data, fin)
             moved == [t EXCEPT !.stream = st, !.next_seqno = nxt, !.bytes_in_flight = bif,
                                !.is_transmission_ended = ended]
             sent  == [moved EXCEPT !.segments_out = Append(moved.segments_out, seg),
                                    !.outstanding = Append(moved.outstanding, seg),
                                    !.timer = Timer_start(moved.timer, t.cur_rto)]
             more  == ~ByteStream_buffer_empty(st) /\ f.window - bif # 0
             r     == fill_once(t, f)
             u     == r.s
             rd    == t.stream.bytes_read
  <1> HIDE DEF first, syn, took, size, got, used, fin, all, nxt, bif, ended, data, st, seg,
               moved, sent, more, r, rd
  <1>1. /\ data \in Seq(Nat) /\ Len(data) \in Nat
        /\ all \in Nat /\ all = Len(data) + Bit(first) + Bit(fin)
        /\ bif <= f.window
        /\ Counting(st, nxt, fin)
    BY FillNumbers, Zenon
       DEF first, took, size, got, used, fin, all, nxt, bif, data, st
  <1>2. /\ u = IF data # <<>> \/ syn \/ fin THEN sent ELSE moved
        /\ r.f = [f EXCEPT !.syn = syn, !.more = more]
    BY Zenon
       DEF fill_once, first, syn, took, size, got, used, fin, all, nxt, bif, ended, data, st,
           seg, moved, sent, more, r
  <1>3. fin \in BOOLEAN /\ syn \in BOOLEAN /\ more \in BOOLEAN /\ (ended <=> fin)
    BY Zenon DEF fin_now, fin, syn, first, more, ended, FillType
  <1>4. syn <=> first  BY Zenon DEF FillInv, syn
  <1>5. /\ t \in SenderType /\ t.isn = Isn /\ t.next_seqno \in Nat
        /\ t.bytes_in_flight \in Nat /\ q \in Seq(SegType) /\ t.segments_out \in Seq(SegType)
        /\ StreamOK(t.stream, Nat) /\ f.window \in Nat /\ t.bytes_in_flight < f.window
    BY Zenon DEF SenderInv, SenderType, Counting, FillInv, FillType
  <1>6. rd \in Nat /\ StreamInv(t.stream, FALSE)
    BY <1>5, StreamNats, Zenon DEF DataInv, StreamInv, rd
  <1>7. t.next_seqno = 0 => rd = 0
    BY Zenon DEF SenderInv, Counting, rd
  <1>8. t.next_seqno # 0 => t.next_seqno = rd + 1
    <2>1. Bit(t.is_transmission_ended) = 0  BY DEF Bit
    <2>2. t.next_seqno # 0 => t.next_seqno = rd + 1 + Bit(t.is_transmission_ended)
      <3>1. Counting(t.stream, t.next_seqno, t.is_transmission_ended)  BY Zenon DEF SenderInv
      <3>2. t.next_seqno \in Nat  BY <1>5, Zenon
      <3> QED  BY ONLY <3>1, <3>2, SMTT(30) DEF Counting, rd
    <2> QED  BY ONLY <2>1, <2>2, <1>6, SMTT(30)
  <1>9. size \in Nat
    <2>1. took \in {0, 1}  BY BitType DEF took
    <2>2. t.bytes_in_flight + took <= f.window /\ t.bytes_in_flight + took \in Nat
      BY <2>1, <1>5
    <2>3. f.window \in Nat /\ MAX_PAYLOAD_SIZE \in Nat  BY <1>5, Constants, Zenon
    <2> QED  BY ONLY <2>2, <2>3, SMTT(30) DEF size, read_size, MinOf
  <1>10. /\ data = Bytes(rd, st.bytes_read) /\ st.bytes_read = rd + Len(data)
         /\ st.input_is_end = t.stream.input_is_end
         /\ st.str = Bytes(st.bytes_read, st.bytes_written)
    <2>1. /\ size \in Nat /\ StreamOK(t.stream, Nat) /\ StreamInv(t.stream, FALSE)
          /\ got = ByteStream_read(t.stream, size)
      BY <1>5, <1>6, <1>9, Zenon DEF got
    <2>2. data = Bytes(rd, st.bytes_read)  BY ONLY <2>1, ReadBytes, ZenonT(60) DEF data, st, rd
    <2>3. st.bytes_read = rd + Len(data)  BY ONLY <2>1, ReadBytes, ZenonT(60) DEF data, st, rd
    <2>4. st.input_is_end = t.stream.input_is_end  BY ONLY <2>1, ReadBytes, ZenonT(60) DEF st
    <2>5. st.str = Bytes(st.bytes_read, st.bytes_written)
      BY ONLY <2>1, ReadBytes, ZenonT(60) DEF st
    <2> QED  BY <2>2, <2>3, <2>4, <2>5
  <1>11. fin <=> /\ st.input_is_end /\ st.cur_cap = 0
                 /\ f.window - (t.bytes_in_flight + used) # 0
    BY Zenon DEF fin, st, fin_now, ByteStream_input_ended, ByteStream_eof,
                 ByteStream_buffer_empty, ByteStream_buffer_size
  <1>12. more <=> ~ByteStream_buffer_empty(st) /\ f.window - bif # 0  BY Zenon DEF more
  <1>13. ~fin => all = used
    <2>1. ~fin => Bit(fin) = 0  BY DEF Bit
    <2>2. used \in Nat
      <3>1. took \in {0, 1}  BY BitType DEF took
      <3>2. Len(got.data) \in Nat  BY <1>1, Zenon DEF data
      <3> QED  BY <3>1, <3>2 DEF used
    <2> QED  BY <2>1, <2>2 DEF all
  <1>14. moved = [t EXCEPT !.stream = st, !.next_seqno = nxt, !.bytes_in_flight = bif,
                           !.is_transmission_ended = ended]
    BY Zenon DEF moved
  <1>15. sent = [moved EXCEPT !.segments_out = Append(moved.segments_out, seg),
                              !.outstanding = Append(moved.outstanding, seg),
                              !.timer = Timer_start(moved.timer, t.cur_rto)]
    BY Zenon DEF sent
  <1>16. seg = fill_segment(t, syn, data, fin)  BY Zenon DEF seg
  <1>17. first <=> t.next_seqno = 0  BY Zenon DEF first
  <1>18. nxt = t.next_seqno + all /\ bif = t.bytes_in_flight + all  BY Zenon DEF nxt, bif
  <1>19. /\ moved.stream = st /\ moved.outstanding = q /\ moved.is_transmission_ended = ended
         /\ moved.segments_out = t.segments_out /\ moved.bytes_in_flight = bif
         /\ DOMAIN moved = DOMAIN t
    BY <1>5, <1>14 DEF SenderType
  <1>20. /\ sent.stream = st /\ sent.is_transmission_ended = ended
         /\ sent.outstanding = Append(q, seg) /\ sent.bytes_in_flight = bif
         /\ sent.segments_out = Append(t.segments_out, seg)
    BY <1>5, <1>14, <1>15, <1>19 DEF SenderType
  <1>21. u.stream = st /\ u.is_transmission_ended = ended /\ u.bytes_in_flight = bif
    BY <1>2, <1>19, <1>20
  <1>22. Grown(t, u)
    <2>1. st.bytes_read \in Nat /\ rd <= st.bytes_read  BY ONLY <1>1, <1>6, <1>10, SMTT(30)
    <2>2. fin => st.input_is_end /\ st.cur_cap = 0  BY <1>11
    <2>3. StreamInv(st, ended)  BY <2>2, <1>3, <1>10, Zenon DEF StreamInv
    <2> QED  BY <2>1, <2>3, <1>21, Zenon DEF Grown, rd
  <1>23. Piece(seg, u)
    <2> DEFINE at == PayloadAt(seg)
               e  == at + Len(data)
    <2>1. /\ seg.seqno = wrap(t.next_seqno, t.isn) /\ seg.syn = syn /\ seg.payload = data
          /\ seg.fin = fin /\ seg.abs = t.next_seqno
      BY <1>16 DEF fill_segment, NewTCPSegment
    <2>2. at = rd
      <3>1. CASE first
        BY <3>1, <2>1, <1>4, <1>7, <1>17, Zenon DEF PayloadAt
      <3>2. CASE ~first
        <4>1. at = t.next_seqno - 1  BY <3>2, <2>1, <1>4, Zenon DEF PayloadAt
        <4> QED  BY ONLY <4>1, <3>2, <1>6, <1>8, <1>17, SMTT(30)
      <3> QED  BY <3>1, <3>2, Zenon
    <2> HIDE DEF at
    <2>3. e = st.bytes_read /\ e <= st.bytes_read /\ data = Bytes(at, e)
      <3>1. st.bytes_read \in Nat  BY ONLY <1>1, <1>6, <1>10, SMTT(30)
      <3> QED  BY ONLY <3>1, <2>2, <1>10, SMTT(30)
    <2>4. seg.syn <=> seg.abs = 0  BY <2>1, <1>4, <1>17, Zenon
    <2>5. ASSUME seg.fin  PROVE ended /\ SegEnd(seg) = st.bytes_written + 2
      <3>1. fin /\ Bit(fin) = 1 /\ st.cur_cap = 0  BY <2>1, <2>5, <1>11, Zenon DEF Bit
      <3>2. length_in_sequence_space(seg) = all
        <4>1. length_in_sequence_space(seg) = Len(data) + Bit(syn) + Bit(fin)
          BY <2>1, Zenon DEF length_in_sequence_space
        <4>2. Bit(syn) = Bit(first)  BY <1>4 DEF Bit
        <4> QED  BY <4>1, <4>2, <1>1
      <3>3. SegEnd(seg) = nxt  BY <3>2, <2>1, <1>18 DEF SegEnd
      <3>4. all >= 1
        <4>1. Bit(first) \in {0, 1}  BY BitType, Zenon
        <4> QED  BY <4>1, <3>1, <1>1
      <3>5. nxt \in Nat /\ nxt # 0  BY ONLY <3>4, <1>1, <1>5, <1>18, SMTT(30)
      <3>6. StreamOK(st, Nat) /\ nxt = st.bytes_read + 1 + Bit(fin)
        BY <3>5, <1>1 DEF Counting
      <3>7. st.bytes_written = st.bytes_read + st.cur_cap /\ st.bytes_read \in Nat
        BY <3>6, StreamNats, Zenon
      <3> QED  BY ONLY <3>1, <3>3, <3>6, <3>7, <1>3, SMTT(30)
    <2>6. seg.seqno = wrap(seg.abs, Isn)  BY <2>1, <1>5
    <2>7. /\ seg.payload = Bytes(PayloadAt(seg), PayloadAt(seg) + Len(seg.payload))
          /\ PayloadAt(seg) + Len(seg.payload) <= st.bytes_read
      BY <2>1, <2>3, Zenon DEF at
    <2> QED  BY <2>4, <2>5, <2>6, <2>7, <1>21, Zenon DEF Piece, PieceOf
  <1>24. DataInv(u)
    <2>1. ASSUME NEW x \in Seq(SegType), NEW y, y = x \/ y = Append(x, seg),
                 NEW k \in 1 .. Len(y)
          PROVE  (\E l \in 1 .. Len(x) : y[k] = x[l]) \/ y[k] = seg
      <3>1. CASE y = x  BY <3>1, <2>1, Zenon
      <3>2. CASE y = Append(x, seg)
        <4>1. Len(y) = Len(x) + 1  BY <3>2
        <4>2. CASE k = Len(x) + 1  BY <4>2, <3>2
        <4>3. CASE k # Len(x) + 1
          <5>1. k \in 1 .. Len(x) /\ y[k] = x[k]  BY <4>1, <4>3, <3>2, <2>1
          <5> QED  BY <5>1
        <4> QED  BY <4>2, <4>3
      <3> QED  BY <3>1, <3>2, <2>1
    <2>2. /\ u.outstanding = q \/ u.outstanding = Append(q, seg)
          /\ u.segments_out = t.segments_out \/ u.segments_out = Append(t.segments_out, seg)
      BY <1>2, <1>19, <1>20, Zenon
    <2>3. \A k \in 1 .. Len(u.outstanding) :
              (\E l \in 1 .. Len(q) : u.outstanding[k] = q[l]) \/ u.outstanding[k] = seg
      BY <2>1, <2>2, <1>5, Zenon
    <2>4. \A k \in 1 .. Len(u.segments_out) :
              \/ \E l \in 1 .. Len(t.segments_out) : u.segments_out[k] = t.segments_out[l]
              \/ u.segments_out[k] = seg
      BY <2>1, <2>2, <1>5, Zenon
    <2>5. Descends(t, u)  BY <2>3, <2>4, <1>22, <1>23, Zenon DEF Descends, Origin
    <2> QED  BY <2>5, Descend, Zenon DEF r
  <1>25. ASSUME ~more  PROVE Done(u)
    <2>1. bif \in Nat  BY ONLY <1>1, <1>5, <1>18, SMTT(30)
    <2>2. CASE f.window - bif = 0
      <3>1. bif # 0  BY <2>1, <2>2, <1>5
      <3>2. u.outstanding # <<>>
        <4>1. SenderInv(u)  BY Zenon DEF r
        <4>2. IsChain(u.outstanding, u.next_seqno, u.bytes_in_flight)
          BY <4>1, Zenon DEF SenderInv, Queue
        <4>3. u.bytes_in_flight # 0  BY <3>1, <1>21, Zenon
        <4> HIDE DEF u
        <4> QED  BY ONLY <4>2, <4>3, SMTT(30) DEF IsChain
      <3> QED  BY <3>2, Zenon DEF Done
    <2>3. CASE f.window - bif # 0
      <3>1. st.cur_cap = 0
        BY <2>3, <1>12, <1>25, Zenon DEF ByteStream_buffer_empty, ByteStream_buffer_size
      <3>2. st.input_is_end => fin
        <4>1. ASSUME ~fin  PROVE f.window - (t.bytes_in_flight + used) # 0
          BY <4>1, <2>3, <1>13, <1>18, Zenon
        <4> QED  BY <4>1, <3>1, <1>11, Zenon
      <3> QED  BY <3>1, <3>2, <1>3, <1>21, Zenon DEF Done
    <2> QED  BY <2>2, <2>3, Zenon
  <1>26. r.f.more = more  BY <1>2 DEF FillType
  <1> QED  BY <1>24, <1>25, <1>26 DEF r

LEMMA FillStepPieces ==
    ASSUME IInv, PInv, FillStep
    PROVE  PInv'
  <1> DEFINE f == act.f
             r == fill_once(s, f)
  <1>1. /\ SenderInv(s) /\ BeforeSyn(s) /\ FillInv(s, f) /\ f.more /\ DataInv(s)
        /\ act \in ActType /\ act.call = "fill"
        /\ s' = r.s /\ act' = [act EXCEPT !.f = r.f]
    BY DEF IInv, PInv, FillStep
  <1>2. f \in FillType  BY <1>1, Zenon DEF ActType, FillType
  <1>3. SenderInv(s')  BY FillStepStep DEF IInv
  <1>4. DataInv(s') /\ (~r.f.more => Done(s'))
    <2>1. CASE s.is_transmission_ended
      <3>1. s' = s  BY <2>1, <1>1, Zenon DEF fill_once
      <3>2. s.stream.cur_cap = 0  BY <2>1, <1>1 DEF DataInv, StreamInv
      <3>3. Done(s)  BY <3>2, <2>1 DEF Done
      <3> QED  BY <3>1, <3>3, <1>1, Zenon
    <2>2. CASE ~s.is_transmission_ended
      <3> HIDE DEF f
      <3>1. SenderInv(r.s)  BY <1>1, <1>3
      <3>2. DataInv(r.s) /\ (~r.f.more => Done(r.s))
        BY <3>1, <2>2, <1>1, <1>2, FillPieces
      <3> HIDE DEF r
      <3> QED  BY <3>2, <1>1, Zenon
    <2> QED  BY <2>1, <2>2
  <1> HIDE DEF r
  <1>5. act'.call = "fill" /\ act'.f = r.f  BY <1>1 DEF ActType
  <1>6. act'.call # "idle"  BY <1>5, Zenon
  <1> QED  BY <1>4, <1>5, <1>6, Zenon DEF PInv

LEMMA PiecesInductive ==
    ASSUME IInv, PInv, [Next]_vars
    PROVE  PInv'
  <1>1. CASE FillWindow  BY <1>1, FillWindowPieces
  <1>2. ASSUME NEW n \in 1 .. MaxBytes, Write(n)  PROVE PInv'
    BY <1>2, WritePieces
  <1>3. CASE EndInput  BY <1>3, EndInputPieces
  <1>4. ASSUME NEW ackno \in RawSeqno, NEW window \in 0 .. MaxWindow,
               AckReceived(ackno, window)
        PROVE  PInv'
    BY <1>4, AckReceivedPieces, Zenon
  <1>5. CASE AckPop  BY <1>5, AckPopPieces
  <1>6. CASE AckFinish  BY <1>6, AckFinishPieces
  <1>7. CASE FillStep  BY <1>7, FillStepPieces
  <1>8. CASE FillReturn  BY <1>8, FillReturnPieces
  <1>9. ASSUME NEW ms \in 1 .. MaxTick, Tick(ms)  PROVE PInv'
    BY <1>9, TickPieces
  <1>10. CASE SendEmptySegment  BY <1>10, SendEmptySegmentPieces
  <1>11. CASE UNCHANGED vars
    <2>1. s' = s /\ act' = act  BY <1>11 DEF vars
    <2> QED  BY <2>1, Zenon DEF PInv
  <1> QED  BY <1>1, <1>2, <1>3, <1>4, <1>5, <1>6, <1>7, <1>8, <1>9, <1>10, <1>11 DEF Next

LEMMA InitPInv == Init => PInv
  <1> SUFFICES ASSUME Init PROVE PInv
    OBVIOUS
  <1>1. /\ s.outstanding = <<>> /\ s.segments_out = <<>> /\ ~s.is_transmission_ended
        /\ s.stream.str = <<>> /\ s.stream.bytes_read = 0 /\ s.stream.bytes_written = 0
        /\ s.stream.cur_cap = 0 /\ ~s.stream.input_is_end
    BY DEF Init, NewTCPSender, NewByteStream
  <1>2. act.call = "idle"  BY DEF Init, Idle
  <1>3. Bytes(0, 0) = <<>>
    <2>1. Len(Bytes(0, 0)) = 0 /\ Bytes(0, 0) \in Seq(Nat)  BY BytesType
    <2> QED  BY <2>1
  <1>4. StreamInv(s.stream, s.is_transmission_ended)  BY <1>1, <1>3 DEF StreamInv
  <1>5. Pieces(s.outstanding, s) /\ AllSendable(s.segments_out, s)
    BY <1>1 DEF Pieces, AllSendable
  <1>6. DataInv(s) /\ Done(s)  BY <1>1, <1>4, <1>5, Zenon DEF DataInv, Done
  <1> QED  BY <1>6, <1>2, Zenon DEF PInv

(***************************************************************************)
(* Every segment in the queue of outstanding ones, and every one that goes *)
(* out, whether fill_window has just cut it (tcp_sender.cc:44-76) or the   *)
(* timer repeats it (tcp_sender.cc:125-126), holds the bytes of the stream *)
(* that belong at its number, the SYN only at 0 and the FIN only behind    *)
(* the last byte written.                                                  *)
(***************************************************************************)
THEOREM StreamInSegmentsAlways == Spec => []StreamInSegments
  <1>1. PInv => StreamInSegments
    <2>1. ASSUME NEW seg  PROVE Piece(seg, s) => IsPiece(seg)
      BY DEF Piece, PieceOf, IsPiece
    <2> QED
      BY <2>1, Zenon DEF PInv, DataInv, Pieces, AllSendable, Sendable, StreamInSegments
  <1>2. IInv /\ PInv /\ [Next]_vars => (IInv /\ PInv)'
    BY Inductive, PiecesInductive, Zenon
  <1> QED  BY <1>1, <1>2, InitIInv, InitPInv, PTL DEF Spec

(***************************************************************************)
(* A sender at rest with nothing outstanding, and so without a timer to    *)
(* wake it, has sent all that was written and, once the input has ended,   *)
(* the FIN (tcp_sender.cc:37-38, 65, 78).                                  *)
(***************************************************************************)
THEOREM NothingStuckAlways == Spec => []NothingStuck
  <1>1. PInv => NothingStuck
    BY DEF PInv, Done, NothingStuck, Idle, ByteStream_buffer_empty, ByteStream_buffer_size,
           ByteStream_input_ended
  <1>2. IInv /\ PInv /\ [Next]_vars => (IInv /\ PInv)'
    BY Inductive, PiecesInductive
  <1> QED  BY <1>1, <1>2, InitIInv, InitPInv, PTL DEF Spec

=============================================================================
