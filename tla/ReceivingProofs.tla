-------------------------- MODULE ReceivingProofs ---------------------------
(***************************************************************************)
(* The receiver puts every byte at its place and acknowledges exactly what *)
(* it has, for every length of the stream and of its segments, every       *)
(* capacity and every modulus of the sequence numbers.  Two arguments      *)
(* meet: a number on the wire is closer than half a turn to the checkpoint *)
(* of unwrap (RoundTrip), so that the reassembler gets the segment at the  *)
(* index it was cut at; and a call of push_substring keeps the object in   *)
(* order (PushSubstring).                                                  *)
(***************************************************************************)
EXTENDS Receiving, ReassemblerProofs

\* A leaf is for SMT unless it names another prover.
USE SMTT(30)

Receivers == [reassembler : Objects, isn : {NoValue, PeerIsn}, capacity : {Capacity}]

\* The FIN rides on the last byte: who has the one has the other.
EndKnown(x) == Complete(Held(x.list), x.cur_index) => x.eof

Rides(i, j, fin) == fin \in BOOLEAN /\ (fin <=> j = StreamLen /\ i < j)

\* The receiver between two segments.
ReceiverOK(c) ==
    /\ c \in Receivers
    /\ ObjectOK(c.reassembler)
    /\ EndKnown(c.reassembler)
    /\ c.isn = NoValue => c.reassembler.cur_index = 0

\* The segment carries the bytes i .. j-1 under the number i + 1.
Carries(seg, i, j) ==
    /\ i <= j /\ OfStream(i, j)
    /\ seg = Segment(i + 1, Bytes(i, j), FALSE, seg.fin)
    /\ Rides(i, j, seg.fin)

\* A segment on the wire is the SYN, or one with a piece of the stream.
WireOK ==
    \/ wire = NoSegment
    \/ /\ wire = <<Head(wire)>>
       /\ OnTheWire(Head(wire).abs)
       /\ \/ Head(wire) = SynSegment
          \/ /\ rc.isn # NoValue
             /\ \E i, j \in 0 .. StreamLen + 1 : Carries(Head(wire), i, j)

\* The inductive invariant.
IInv == ReceiverOK(rc) /\ WireOK /\ seg_len \in 1 .. MaxSegLen
-----------------------------------------------------------------------------
(***************************************************************************)
(* The window and the acknowledged number.                                 *)
(***************************************************************************)
LEMMA ReceiverFields ==
    ASSUME NEW c, ReceiverOK(c)
    PROVE  /\ BaseOK(c.reassembler) /\ ObjectOK(c.reassembler)
           /\ c.capacity = Capacity
           /\ c.isn = NoValue \/ c.isn = PeerIsn
           /\ c.reassembler.cur_index \in Nat /\ c.reassembler.cur_index <= StreamLen
  <1>1. ObjectOK(c.reassembler) /\ c \in Receivers  BY DEF ReceiverOK
  <1>2. BaseOK(c.reassembler)  BY <1>1 DEF ObjectOK
  <1>3. c.reassembler.cur_index \in Nat /\ c.reassembler.cur_index <= StreamLen
    BY <1>2 DEF BaseOK, Objects
  <1>4. c.capacity = Capacity /\ (c.isn = NoValue \/ c.isn = PeerIsn)
    BY <1>1 DEF Receivers
  <1> QED  BY <1>1, <1>2, <1>3, <1>4

LEMMA WindowSize ==
    ASSUME NEW c, ReceiverOK(c)
    PROVE  /\ TCPReceiver_window_size(c) = Window(c.reassembler) - c.reassembler.cur_index
           /\ Window(c.reassembler) - c.reassembler.cur_index \in 0 .. Capacity
  <1> DEFINE x == c.reassembler
             size == x.output.cur_cap
  <1>1. BaseOK(x) /\ c.capacity = Capacity  BY ReceiverFields, Zenon
  <1>2. /\ Window(x) \in Nat /\ x.cur_index \in Nat /\ x.cur_index <= Window(x)
        /\ x.output.bytes_read \in Nat /\ x.output.bytes_read <= x.cur_index
        /\ size = x.cur_index - x.output.bytes_read /\ size \in Nat
    BY <1>1, FirstUnavailable, Zenon
  <1>3. Window(x) = x.output.bytes_read + Capacity  BY DEF Window
  <1>4. TCPReceiver_window_size(c) = SizeT(Capacity - size)
    BY <1>1 DEF TCPReceiver_window_size, TCPReceiver_stream_out, ByteStream_buffer_size
  <1> HIDE DEF size, x
  <1>5. Capacity - size = Window(x) - x.cur_index /\ Capacity - size \in 0 .. Capacity
    BY <1>2, <1>3, PeerStreamAssumption
  <1>6. SizeT(Capacity - size) = Capacity - size
    BY <1>5, PeerStreamAssumption, SizeModAssumption DEF SizeT
  <1> QED  BY <1>4, <1>5, <1>6 DEF x

\* The number after all that the receiver has.
LEMMA ReceivedNumber ==
    ASSUME ReceiverOK(rc), rc.isn # NoValue
    PROVE  LET x == rc.reassembler
           IN  \/ Received = x.cur_index + 1
               \/ Received = x.cur_index + 2 /\ x.cur_index = StreamLen
  <1> DEFINE x == rc.reassembler
             ended == x.output.input_is_end
  <1>1. BaseOK(x) /\ x.cur_index \in Nat  BY ReceiverFields, Zenon
  <1>2. ended => x.cur_index = StreamLen  BY <1>1 DEF BaseOK
  <1>3. ended \in BOOLEAN  BY <1>1 DEF BaseOK, Objects, StreamType
  <1>4. Received = x.cur_index + 1 + Bit(ended)
    BY DEF Received, ByteStream_input_ended, TCPReceiver_stream_out
  <1> HIDE DEF ended, x
  <1>5. CASE ended  BY <1>1, <1>2, <1>4, <1>5 DEF Bit, x
  <1>6. CASE ~ended  BY <1>1, <1>4, <1>6 DEF Bit, x
  <1> QED  BY <1>5, <1>6

-----------------------------------------------------------------------------
(***************************************************************************)
(* A number on the wire is unwrapped to the absolute number it came from.  *)
(***************************************************************************)
LEMMA HalfTurn ==
    /\ HalfSeq \in Nat /\ Capacity + 2 < HalfSeq /\ MaxAge + 1 < HalfSeq
    /\ SeqnoMod \in Nat /\ 2 <= SeqnoMod
  <1>1. SeqnoMod \in Nat \ {0} /\ SeqnoMod % 2 = 0  BY SeqnoModAssumption
  <1>2. HalfSeq \in Nat /\ 2 <= SeqnoMod  BY <1>1 DEF HalfSeq
  <1>3. /\ MaxSegLen \in Nat \ {0} /\ Capacity \in Nat /\ MaxAge \in Nat
        /\ Capacity + MaxSegLen + 1 < HalfSeq /\ MaxAge + 1 < HalfSeq
    BY ReceivingAssumption, PeerStreamAssumption
  <1> HIDE DEF HalfSeq
  <1> QED  BY <1>1, <1>2, <1>3

LEMMA IndexOfNumber ==
    ASSUME NEW c, ReceiverOK(c), NEW a \in 1 .. StreamLen + 2,
           a <= c.reassembler.cur_index + 2 + Capacity,
           c.reassembler.cur_index <= a + MaxAge
    PROVE  stream_index(c, PeerIsn, wrap(a, PeerIsn)) = a - 1
  <1> DEFINE n == c.reassembler.cur_index
  <1>1. n \in Nat /\ n <= StreamLen  BY ReceiverFields, Zenon
  <1>2. n \in AbsSeqno /\ a \in AbsSeqno /\ PeerIsn \in RawSeqno
    BY <1>1, ReceivingAssumption, AbsModAssumption, PeerStreamAssumption DEF AbsSeqno
  <1>3. a <= n + 2 + Capacity /\ n <= a + MaxAge /\ MaxAge \in Nat /\ Capacity \in Nat
    BY ReceivingAssumption, PeerStreamAssumption
  <1> HIDE DEF n
  <1>4. Distance(a, n) < HalfSeq
    BY <1>1, <1>3, HalfTurn DEF Distance
  <1>5. unwrap(wrap(a, PeerIsn), PeerIsn, n) = a
    BY ONLY <1>2, <1>4, RoundTrip, Zenon
  <1> QED  BY <1>5 DEF stream_index, n

\* The SYN itself.
LEMMA SynNumbers ==
    wrap(0, PeerIsn) = PeerIsn /\ SeqPlus(PeerIsn, 1) = wrap(1, PeerIsn)
  <1>1. PeerIsn \in Int /\ 0 <= PeerIsn /\ PeerIsn < SeqnoMod
    BY ReceivingAssumption, HalfTurn DEF RawSeqno
  <1>2. 0 % SeqnoMod = 0 /\ 1 % SeqnoMod = 1  BY HalfTurn
  <1>3. PeerIsn % SeqnoMod = PeerIsn  BY <1>1, HalfTurn
  <1>4. PeerIsn + 1 = 1 + PeerIsn /\ 0 + PeerIsn = PeerIsn  BY <1>1
  <1> QED  BY <1>2, <1>3, <1>4 DEF wrap, SeqPlus

-----------------------------------------------------------------------------
(***************************************************************************)
(* The steps.                                                              *)
(***************************************************************************)

\* A segment does not move what the reader has taken.
SameRead(x, y) == y.output.bytes_read = x.output.bytes_read

\* A piece that is taken in brings the end with the last byte.
LEMMA EndStaysKnown ==
    ASSUME NEW x, ObjectOK(x), EndKnown(x), NEW i \in Nat, NEW j \in Nat, OfStream(i, j),
           NEW fin, Rides(i, j, fin), NEW y, Arrives(x, y, i, j, fin)
    PROVE  EndKnown(y)
  <1> DEFINE c == x.cur_index
             d == y.cur_index
             w == Window(x)
             all == Held(x.list) \cup Fit(i, j, x)
             last == StreamLen - 1
  <1>1. /\ c \in Nat /\ c <= StreamLen /\ w \in Nat /\ StreamLen \in Nat /\ last \in Nat
    <2>1. BaseOK(x)  BY DEF ObjectOK
    <2> QED  BY <2>1, FirstUnavailable, PeerStreamAssumption DEF BaseOK
  <1>2. /\ d \in c .. StreamLen /\ c .. d - 1 \subseteq all /\ Held(y.list) \subseteq all
        /\ y.eof = (x.eof \/ Accepts(x, j, fin))
    BY Zenon DEF Arrives
  <1>3. ASSUME last \in all  PROVE y.eof
    <2>1. CASE last \in Held(x.list)  BY <2>1, <1>2, Zenon DEF EndKnown, Complete
    <2>2. CASE last \in Fit(i, j, x)
      <3>1. i <= last /\ last < j /\ c <= last /\ last < w  BY <2>2, <1>1 DEF Fit
      <3>2. j = StreamLen /\ i < j  BY <3>1, <1>1 DEF OfStream
      <3>3. fin  BY <3>2, Zenon DEF Rides
      <3>4. c < w /\ j <= w  BY <3>1, <3>2, <1>1
      <3>5. Accepts(x, j, fin)  BY <3>3, <3>4, Zenon DEF Accepts
      <3> QED  BY <3>5, <1>2, Zenon
    <2> QED  BY <1>3, <2>1, <2>2
  <1> HIDE DEF all
  <1>4. CASE last \in Held(y.list)  BY <1>2, <1>3, <1>4, Zenon DEF EndKnown
  <1>5. CASE d = StreamLen
    <2>1. CASE c = StreamLen  BY <2>1, <1>2, Zenon DEF EndKnown, Complete
    <2>2. CASE c # StreamLen
      <3>1. last \in c .. d - 1  BY <2>2, <1>1, <1>5
      <3> QED  BY <3>1, <1>2, <1>3, Zenon DEF EndKnown
    <2> QED  BY <2>1, <2>2
  <1> QED  BY <1>4, <1>5, Zenon DEF EndKnown, Complete

LEMMA Stored ==
    ASSUME NEW c, ReceiverOK(c), NEW d, c.isn # NoValue,
           NEW i, NEW j, NEW fin, Sent(c.reassembler, i, j, fin), Rides(i, j, fin),
           d = [c EXCEPT !.reassembler = Reassembler_push_substring(@, Bytes(i, j), i, fin)]
    PROVE  ReceiverOK(d) /\ SameRead(c.reassembler, d.reassembler)
  <1> DEFINE x == c.reassembler
             y == Reassembler_push_substring(x, Bytes(i, j), i, fin)
  <1>1. c \in Receivers /\ ObjectOK(x) /\ EndKnown(x) /\ Sent(x, i, j, fin)
    BY DEF ReceiverOK
  <1>2. d = [c EXCEPT !.reassembler = y]  OBVIOUS
  <1>3. ObjectOK(y) /\ EndKnown(y) /\ SameRead(x, y)
    <2>1. ObjectOK(y) /\ Arrives(x, y, i, j, fin)  BY ONLY <1>1, PushSubstring, Zenon
    <2>2. i \in Nat /\ j \in Nat /\ OfStream(i, j)  BY <1>1, Zenon DEF Sent
    <2>3. EndKnown(y)
      BY ONLY <1>1, <2>1, <2>2, Rides(i, j, fin), EndStaysKnown, Zenon
    <2> QED  BY <2>1, <2>3, Zenon DEF Arrives, SameRead
  <1>4. y \in Objects  BY <1>3 DEF ObjectOK, BaseOK
  <1> HIDE DEF x, y
  <1>5. d \in Receivers /\ d.reassembler = y /\ d.isn = c.isn
    BY <1>1, <1>2, <1>4 DEF Receivers
  <1> QED  BY <1>3, <1>5 DEF ReceiverOK, x

\* The peer's ISN is learnt from its SYN.
LEMMA IsnKnown ==
    ASSUME NEW c, ReceiverOK(c), NEW d, d = [c EXCEPT !.isn = PeerIsn]
    PROVE  ReceiverOK(d) /\ d.isn = PeerIsn /\ d.reassembler = c.reassembler /\ PeerIsn # NoValue
  <1>1. PeerIsn # NoValue
    BY ReceivingAssumption, HalfTurn DEF NoValue, RawSeqno
  <1>2. c \in Receivers /\ ObjectOK(c.reassembler) /\ EndKnown(c.reassembler)
    BY DEF ReceiverOK
  <1>3. d \in Receivers /\ d.isn = PeerIsn /\ d.reassembler = c.reassembler
    BY <1>2 DEF Receivers
  <1> QED  BY <1>1, <1>2, <1>3 DEF ReceiverOK

\* A piece of the stream that lies in the window goes to the reassembler.
LEMMA PieceHandled ==
    ASSUME ReceiverOK(rc), rc.isn # NoValue, NEW seg, OnTheWire(seg.abs),
           NEW i \in 0 .. StreamLen + 1, NEW j \in 0 .. StreamLen + 1, Carries(seg, i, j),
           NEW d, d = TCPReceiver_segment_received(rc, seg)
    PROVE  ReceiverOK(d) /\ SameRead(rc.reassembler, d.reassembler)
  <1> DEFINE x == rc.reassembler
             n == x.cur_index
             w == Window(x)
             start == wrap(i + 1, PeerIsn)
             fin == seg.fin
  <1>1. /\ BaseOK(x) /\ n \in Nat /\ n <= StreamLen /\ rc.isn = PeerIsn /\ rc \in Receivers
    BY ReceiverFields, Zenon DEF ReceiverOK
  <1>2. /\ i \in Nat /\ j \in Nat /\ i <= j /\ i <= StreamLen + 1
    BY PeerStreamAssumption DEF Carries
  <1>3. /\ OfStream(i, j) /\ Rides(i, j, fin)
        /\ seg = Segment(i + 1, Bytes(i, j), FALSE, fin)
    BY Zenon DEF Carries
  <1>4. /\ seg.abs = i + 1 /\ seg.syn = FALSE /\ seg.seqno = start
        /\ seg.payload = Bytes(i, j)
    BY <1>3, Zenon DEF Segment, NewTCPSegment
  <1>5. TCPReceiver_window_size(rc) = w - n /\ w - n \in 0 .. Capacity
    BY WindowSize, Zenon
  <1>6. /\ i + 1 <= Received + (w - n) /\ i + 1 + MaxAge >= Received
    BY <1>4, <1>5, Zenon DEF OnTheWire
  <1>7. w \in Nat /\ n <= w  BY <1>1, FirstUnavailable, Zenon
  <1>8. Received = n + 1 \/ (Received = n + 2 /\ n = StreamLen)
    BY ReceivedNumber, Zenon
  <1> HIDE DEF n, w, fin
  <1>9. i + 1 <= n + 2 + Capacity /\ n <= i + 1 + MaxAge
    BY <1>1, <1>2, <1>5, <1>6, <1>7, <1>8, PeerStreamAssumption, ReceivingAssumption
  <1>10. i <= w \/ w = n
    BY <1>1, <1>2, <1>6, <1>7, <1>8, PeerStreamAssumption
  <1>11. Sent(x, i, j, fin)
    BY <1>2, <1>3, <1>10 DEF Sent, Rides, n, w
  <1>12. stream_index(rc, PeerIsn, start) = i
    <2>1. i + 1 \in 1 .. StreamLen + 2  BY <1>2, PeerStreamAssumption
    <2>2. /\ i + 1 <= rc.reassembler.cur_index + 2 + Capacity
          /\ rc.reassembler.cur_index <= i + 1 + MaxAge
      BY <1>9 DEF n
    <2>3. stream_index(rc, PeerIsn, start) = (i + 1) - 1
      BY ONLY <2>1, <2>2, ReceiverOK(rc), IndexOfNumber, Zenon
    <2> HIDE DEF start
    <2> QED  BY <2>3, <1>2
  <1>13. rc = [rc EXCEPT !.isn = rc.isn]  BY <1>1 DEF Receivers
  <1>14. \/ d = rc
         \/ d = [rc EXCEPT !.reassembler = Reassembler_push_substring(@, Bytes(i, j), i, fin)]
    BY <1>1, <1>4, <1>12, <1>13, Zenon DEF TCPReceiver_segment_received, known_isn, fin
  <1>15. CASE d = rc  BY <1>15 DEF SameRead
  <1>16. CASE d # rc
    BY ONLY <1>3, <1>14, <1>16, <1>11, ReceiverOK(rc), rc.isn # NoValue, Stored, Zenon DEF x
  <1> QED  BY <1>15, <1>16

\* The SYN gives the ISN, and an empty string at index 0.
LEMMA SynHandled ==
    ASSUME ReceiverOK(rc), OnTheWire(SynSegment.abs),
           NEW d, d = TCPReceiver_segment_received(rc, SynSegment)
    PROVE  ReceiverOK(d) /\ SameRead(rc.reassembler, d.reassembler)
  <1> DEFINE c == [rc EXCEPT !.isn = PeerIsn]
             n == rc.reassembler.cur_index
             start == wrap(1, PeerIsn)
  <1>1. /\ SynSegment.abs = 0 /\ SynSegment.syn = TRUE /\ SynSegment.seqno = PeerIsn
        /\ SynSegment.payload = <<>> /\ SynSegment.fin = FALSE
    BY SynNumbers DEF SynSegment, Segment, NewTCPSegment
  <1>2. ReceiverOK(c) /\ c.isn = PeerIsn /\ c.reassembler = rc.reassembler /\ PeerIsn # NoValue
    BY IsnKnown, Zenon
  <1>3. n \in Nat /\ BaseOK(rc.reassembler) /\ (rc.isn = NoValue => n = 0)
    BY ReceiverFields, Zenon DEF ReceiverOK
  <1>4. n <= 1 + MaxAge
    <2>1. CASE rc.isn = NoValue  BY <1>3, <2>1, ReceivingAssumption
    <2>2. CASE rc.isn # NoValue
      <3>1. Received = n + 1 \/ Received = n + 2  BY <2>2, ReceivedNumber, Zenon
      <3>2. 0 + MaxAge >= Received  BY <1>1 DEF OnTheWire
      <3> QED  BY <1>3, <3>1, <3>2, ReceivingAssumption
    <2> QED  BY <2>1, <2>2
  <1>5. Bytes(0, 0) = <<>>
    <2>1. Bytes(0, 0) \in Seq(Nat) /\ Len(Bytes(0, 0)) = 0 - 0  BY BytesType
    <2> QED  BY <2>1
  <1>6. SeqPlus(PeerIsn, 1) = start  BY SynNumbers, Zenon
  <1> HIDE DEF c
  <1>7. stream_index(c, PeerIsn, start) = 0
    <2>1. 1 \in 1 .. StreamLen + 2 /\ 1 <= n + 2 + Capacity
      BY <1>3, PeerStreamAssumption
    <2>2. stream_index(c, PeerIsn, start) = 1 - 1
      BY ONLY <2>1, <1>2, <1>4, IndexOfNumber, Zenon DEF n
    <2> QED  BY <2>2
  <1>8. Sent(c.reassembler, 0, 0, FALSE)
    <2>1. Window(rc.reassembler) \in Nat  BY <1>3, FirstUnavailable, Zenon
    <2> QED  BY <2>1, <1>2, PeerStreamAssumption DEF Sent, OfStream
  <1>9. \/ d = c
        \/ d = [c EXCEPT !.reassembler = Reassembler_push_substring(@, Bytes(0, 0), 0, FALSE)]
    BY <1>1, <1>5, <1>6, <1>7, Zenon DEF TCPReceiver_segment_received, known_isn, c
  <1>10. CASE d = c  BY <1>2, <1>10 DEF SameRead
  <1>11. CASE d # c
    <2>1. c.isn # NoValue  BY <1>2
    <2>2. Rides(0, 0, FALSE)  BY DEF Rides
    <2>3. ReceiverOK(d) /\ SameRead(c.reassembler, d.reassembler)
      BY ONLY <1>9, <1>11, <1>8, <1>2, <2>1, <2>2, Stored, Zenon
    <2> QED  BY <2>3, <1>2
  <1> QED  BY <1>10, <1>11

\* What SegmentReceived does, whatever the segment.
LEMMA SegmentHandled ==
    ASSUME IInv, SegmentReceived
    PROVE  ReceiverOK(rc') /\ SameRead(rc.reassembler, rc'.reassembler)
  <1> DEFINE seg == Head(wire)
  <1>1. ReceiverOK(rc) /\ OnTheWire(seg.abs)  BY Zenon DEF IInv, WireOK, SegmentReceived
  <1>2. rc' = TCPReceiver_segment_received(rc, seg)  BY Zenon DEF SegmentReceived
  <1>3. CASE seg = SynSegment  BY ONLY <1>1, <1>2, <1>3, SynHandled, Zenon
  <1>4. CASE seg # SynSegment
    <2>1. rc.isn # NoValue /\ \E i, j \in 0 .. StreamLen + 1 : Carries(seg, i, j)
      BY <1>4, Zenon DEF IInv, WireOK, SegmentReceived
    <2> HIDE DEF seg
    <2> QED  BY ONLY <1>1, <1>2, <2>1, PieceHandled, Zenon
  <1> QED  BY <1>3, <1>4

\* What Read does.
LEMMA ReadHandled ==
    ASSUME IInv, NEW n \in 1 .. Capacity, Read(n)
    PROVE  /\ ReceiverOK(rc')
           /\ rc'.reassembler.cur_index = rc.reassembler.cur_index
           /\ Window(rc'.reassembler) = Window(rc.reassembler) + n
  <1> DEFINE x == rc.reassembler
             y == [x EXCEPT !.output = ByteStream_read(@, n).stream]
  <1>1. ReceiverOK(rc) /\ ObjectOK(x) /\ rc \in Receivers /\ x \in Objects
    BY ReceiverFields, Zenon DEF IInv, ReceiverOK, BaseOK
  <1>2. n \in Nat /\ n <= x.output.cur_cap
    BY PeerStreamAssumption DEF Read, ByteStream_buffer_size, TCPReceiver_stream_out
  <1>3. rc' = [rc EXCEPT !.reassembler = y]
    BY <1>1 DEF Read, Receivers, Objects
  <1>11. y = [x EXCEPT !.output = ByteStream_read(@, n).stream]  OBVIOUS
  <1> HIDE DEF x, y
  <1>4. /\ ObjectOK(y) /\ y.cur_index = x.cur_index /\ y.list = x.list /\ y.eof = x.eof
        /\ y.output.bytes_read = x.output.bytes_read + n
    BY ONLY <1>1, <1>2, <1>11, ReadCall, Zenon
  <1>5. y \in Objects  BY <1>4 DEF ObjectOK, BaseOK
  <1>6. x.output.bytes_read \in Nat  BY <1>1, FirstUnavailable, Zenon DEF ObjectOK
  <1>7. rc' \in Receivers /\ rc'.reassembler = y /\ rc'.isn = rc.isn
    BY <1>1, <1>3, <1>5 DEF Receivers
  <1>10. EndKnown(y)  BY <1>1, <1>4, Zenon DEF ReceiverOK, EndKnown, x
  <1>8. ReceiverOK(rc')  BY <1>1, <1>4, <1>7, <1>10 DEF ReceiverOK, x
  <1>9. Window(y) = Window(x) + n  BY <1>2, <1>4, <1>6, PeerStreamAssumption DEF Window
  <1> QED  BY <1>4, <1>7, <1>8, <1>9 DEF x

-----------------------------------------------------------------------------
(***************************************************************************)
(* The invariant is inductive.                                             *)
(***************************************************************************)
LEMMA InitOK == Init => IInv
  <1> SUFFICES ASSUME Init  PROVE IInv  OBVIOUS
  <1> DEFINE x == NewStreamReassembler(Capacity)
  <1>1. /\ rc = [reassembler |-> x, isn |-> NoValue, capacity |-> Capacity]
        /\ wire = NoSegment /\ seg_len \in 1 .. MaxSegLen
    BY DEF Init, NewTCPReceiver
  <1>2. ObjectOK(x)  BY NewObjectOK
  <1>3. x.cur_index = 0 /\ x.list = <<>>  BY DEF NewStreamReassembler
  <1>5. EndKnown(x)  BY <1>3, HeldEmpty, PeerStreamAssumption DEF EndKnown, Complete
  <1>4. x \in Objects  BY <1>2 DEF ObjectOK, BaseOK
  <1> HIDE DEF x
  <1> QED  BY <1>1, <1>2, <1>3, <1>4, <1>5 DEF IInv, WireOK, ReceiverOK, Receivers

\* The peer puts a segment on the wire.
LEMMA ArriveOK ==
    ASSUME IInv, NEW seg, Arrive(seg),
           \/ seg = SynSegment
           \/ rc.isn # NoValue /\ \E i, j \in 0 .. StreamLen + 1 : Carries(seg, i, j)
    PROVE  IInv'
  <1>1. wire' = <<seg>> /\ rc' = rc /\ OnTheWire(seg.abs)  BY Zenon DEF Arrive
  <1>2. Head(wire') = seg  BY <1>1
  <1>3. OnTheWire(seg.abs)'
    BY <1>1, Zenon DEF OnTheWire, Received, TCPReceiver_window_size, TCPReceiver_stream_out,
                ByteStream_buffer_size, ByteStream_input_ended
  <1>4. WireOK'  BY <1>1, <1>2, <1>3, Zenon DEF WireOK
  <1>5. ReceiverOK(rc)'  BY <1>1 DEF IInv
  <1>6. (seg_len \in 1 .. MaxSegLen)'  BY Zenon DEF IInv, Arrive
  <1> QED  BY <1>4, <1>5, <1>6, Zenon DEF IInv

LEMMA StepOK ==
    ASSUME IInv, [Next]_vars
    PROVE  IInv'
  <1>1. CASE UNCHANGED vars
    BY <1>1, Zenon DEF IInv, vars, WireOK, OnTheWire, Received, TCPReceiver_window_size,
                TCPReceiver_stream_out, ByteStream_buffer_size, ByteStream_input_ended
  <1>2. CASE SynArrives  BY <1>2, ArriveOK, Zenon DEF SynArrives
  <1>3. ASSUME NEW i \in Cuts, DataArrives(i)  PROVE IInv'
    <2> DEFINE j == MinOf(i + seg_len, StreamLen)
               seg == DataSegment(i)
    <2>1. i \in 0 .. StreamLen + 1 /\ j \in 0 .. StreamLen + 1 /\ i < j /\ j <= StreamLen
      BY PeerStreamAssumption, ReceivingAssumption DEF IInv, Cuts, MinOf
    <2>2. seg = Segment(i + 1, Bytes(i, j), FALSE, j = StreamLen)  BY Zenon DEF DataSegment
    <2> HIDE DEF j
    <2>3. seg.fin = (j = StreamLen)  BY <2>2 DEF Segment, NewTCPSegment
    <2>4. i <= j /\ OfStream(i, j)  BY <2>1 DEF OfStream
    <2> HIDE DEF seg
    <2>7. Rides(i, j, seg.fin)  BY <2>1, <2>3, Zenon DEF Rides
    <2>5. Carries(seg, i, j)  BY <2>2, <2>3, <2>4, <2>7, Zenon DEF Carries
    <2>6. rc.isn # NoValue /\ Arrive(seg)  BY <1>3, Zenon DEF DataArrives, seg
    <2> QED  BY ONLY IInv, <2>1, <2>5, <2>6, ArriveOK, Zenon
  <1>4. ASSUME NEW abs \in {i + 1 : i \in Cuts} \cup {StreamLen + 2}, EmptyArrives(abs)
        PROVE  IInv'
    <2> DEFINE seg == Segment(abs, <<>>, FALSE, FALSE)
    <2>1. PICK i \in 0 .. StreamLen + 1 : abs = i + 1 /\ (i <= StreamLen \/ i = StreamLen + 1)
      BY PeerStreamAssumption DEF Cuts
    <2>2. Bytes(i, i) = <<>>
      <3>1. Bytes(i, i) \in Seq(Nat) /\ Len(Bytes(i, i)) = i - i  BY BytesType
      <3> QED  BY <3>1
    <2>3. i <= i /\ OfStream(i, i)  BY <2>1, PeerStreamAssumption DEF OfStream
    <2>4. seg.fin = FALSE  BY DEF Segment, NewTCPSegment
    <2>5. seg = Segment(i + 1, Bytes(i, i), FALSE, seg.fin)
      BY <2>1, <2>2, <2>4, Zenon
    <2>6. rc.isn # NoValue /\ Arrive(seg)  BY <1>4, Zenon DEF EmptyArrives
    <2> HIDE DEF seg
    <2>7. Rides(i, i, seg.fin)
      <3>1. ~(i < i)  OBVIOUS
      <3> QED  BY <3>1, <2>4, Zenon DEF Rides
    <2>8. Carries(seg, i, i)  BY <2>3, <2>5, <2>7, Zenon DEF Carries
    <2> QED  BY ONLY IInv, <2>1, <2>6, <2>8, ArriveOK, Zenon
  <1>5. CASE SegmentReceived
    <2>1. ReceiverOK(rc)'  BY <1>5, SegmentHandled, Zenon
    <2>2. wire' = NoSegment /\ seg_len' = seg_len  BY <1>5, Zenon DEF SegmentReceived
    <2>3. WireOK'  BY <2>2, Zenon DEF WireOK
    <2> QED  BY <2>1, <2>2, <2>3, Zenon DEF IInv
  <1>6. ASSUME NEW n \in 1 .. Capacity, Read(n)  PROVE IInv'
    <2>1. ReceiverOK(rc)'  BY <1>6, ReadHandled, Zenon
    <2>2. wire' = NoSegment /\ seg_len' = seg_len  BY <1>6, Zenon DEF Read
    <2>3. WireOK'  BY <2>2, Zenon DEF WireOK
    <2> QED  BY <2>1, <2>2, <2>3, Zenon DEF IInv
  <1> QED  BY <1>1, <1>2, <1>3, <1>4, <1>5, <1>6, Zenon DEF Next

-----------------------------------------------------------------------------
(***************************************************************************)
(* What the invariant says about the receiver.                             *)
(***************************************************************************)
LEMMA IInvInOrder == IInv => OutputInOrder
  <1> SUFFICES ASSUME IInv  PROVE OutputInOrder  OBVIOUS
  <1>1. BaseOK(rc.reassembler)  BY ReceiverFields, Zenon DEF IInv
  <1> QED  BY <1>1 DEF BaseOK, OutputInOrder, TCPReceiver_stream_out

LEMMA IInvClosest == IInv => UnwrapIsClosest
  <1> SUFFICES ASSUME IInv  PROVE UnwrapIsClosest  OBVIOUS
  <1> DEFINE c == rc.reassembler.cur_index
  <1>1. c \in Nat /\ c <= StreamLen  BY ReceiverFields, Zenon DEF IInv
  <1>2. c \in AbsSeqno /\ PeerIsn \in RawSeqno
    BY <1>1, ReceivingAssumption, AbsModAssumption, PeerStreamAssumption DEF AbsSeqno
  <1> HIDE DEF c
  <1>3. \A n \in RawSeqno : IsClosest(unwrap(n, PeerIsn, c), n, PeerIsn, c)
    BY ONLY <1>2, UnwrapReturnsClosest, Zenon
  <1> QED  BY <1>3, Zenon DEF UnwrapIsClosest, c

LEMMA IInvAck == IInv => AckIsFirstMissing
  <1> SUFFICES ASSUME IInv, rc.isn # NoValue  PROVE AckIsFirstMissing
    BY Zenon DEF AckIsFirstMissing
  <1> DEFINE x == rc.reassembler
             n == x.cur_index
             ended == x.output.input_is_end
  <1>1. BaseOK(x) /\ n \in Nat /\ n <= StreamLen /\ rc.isn = PeerIsn
    BY ReceiverFields, Zenon DEF IInv
  <1>2. n \notin Held(x.list)
    <2>1. Window(x) \in Nat /\ ListOK(x.list, n, Window(x))
      BY <1>1, FirstUnavailable, Zenon DEF BaseOK
    <2> SUFFICES ASSUME n \in Held(x.list)  PROVE FALSE  OBVIOUS
    <2>2. n < n  BY ONLY <2>1, <1>1, n \in Held(x.list), HeldBeyond, Zenon
    <2> QED  BY <2>2, <1>1
  <1>3. ended = (n = StreamLen)
    <2>1. ended \in BOOLEAN  BY <1>1 DEF BaseOK, Objects, StreamType
    <2>2. ended => n = StreamLen  BY <1>1, Zenon DEF BaseOK
    <2>3. n = StreamLen => ended
      <3>1. EndKnown(x) /\ ObjectOK(x)  BY Zenon DEF IInv, ReceiverOK
      <3> QED  BY <3>1, Zenon DEF EndKnown, Complete, ObjectOK
    <2> QED  BY ONLY <2>1, <2>2, <2>3, Zenon
  <1>4. TCPReceiver_ackno(rc) = wrap(n + 1 + Bit(ended), PeerIsn)
    BY <1>1, Zenon DEF TCPReceiver_ackno, ByteStream_input_ended, TCPReceiver_stream_out
  <1> QED  BY <1>2, <1>3, <1>4, Zenon DEF AckIsFirstMissing

LEMMA RightEdgeIsWindow ==
    ASSUME NEW c, ReceiverOK(c)
    PROVE  /\ c.reassembler.cur_index + TCPReceiver_window_size(c) = Window(c.reassembler)
           /\ Window(c.reassembler) \in Nat
  <1> DEFINE x == c.reassembler
             n == x.cur_index
             w == Window(x)
  <1>1. BaseOK(x) /\ n \in Nat  BY ReceiverFields, Zenon
  <1>2. w \in Nat  BY <1>1, FirstUnavailable, Zenon
  <1>3. TCPReceiver_window_size(c) = w - n  BY WindowSize, Zenon
  <1> HIDE DEF n, w
  <1>4. n + (w - n) = w  BY <1>1, <1>2
  <1> QED  BY <1>2, <1>3, <1>4, Zenon DEF n, w

LEMMA EdgeStep ==
    ASSUME IInv, [Next]_vars
    PROVE  [RightEdge' >= RightEdge]_vars
  <1> SUFFICES ASSUME Next  PROVE RightEdge' >= RightEdge  BY Zenon
  <1>1. ReceiverOK(rc) /\ ReceiverOK(rc')  BY StepOK, Zenon DEF IInv
  <1> DEFINE w == Window(rc.reassembler)
             v == Window(rc'.reassembler)
  <1>2. RightEdge = w /\ w \in Nat  BY <1>1, RightEdgeIsWindow, Zenon DEF RightEdge
  <1>3. RightEdge' = v /\ v \in Nat
    <2>1. RightEdge' = rc'.reassembler.cur_index + TCPReceiver_window_size(rc')
      BY Zenon DEF RightEdge, TCPReceiver_window_size, TCPReceiver_stream_out,
                   ByteStream_buffer_size
    <2> QED  BY <1>1, <2>1, RightEdgeIsWindow, Zenon
  <1> SUFFICES v >= w  BY <1>2, <1>3
  <1>4. ASSUME rc' = rc  PROVE v >= w  BY <1>2, <1>4
  <1>5. CASE SegmentReceived
    <2>1. SameRead(rc.reassembler, rc'.reassembler)  BY <1>5, SegmentHandled, Zenon
    <2>2. v = w  BY <2>1, Zenon DEF SameRead, Window
    <2> QED  BY <2>2, <1>2
  <1>6. ASSUME NEW n \in 1 .. Capacity, Read(n)  PROVE v >= w
    <2>1. v = w + n  BY <1>6, ReadHandled, Zenon
    <2> HIDE DEF v, w
    <2> QED  BY <2>1, <1>2, PeerStreamAssumption
  <1>7. SynArrives \/ (\E i \in Cuts : DataArrives(i))
            \/ (\E abs \in {i + 1 : i \in Cuts} \cup {StreamLen + 2} : EmptyArrives(abs))
        => rc' = rc
    BY Zenon DEF SynArrives, DataArrives, EmptyArrives, Arrive
  <1> HIDE DEF v, w
  <1> QED  BY <1>4, <1>5, <1>6, <1>7, Zenon DEF Next

-----------------------------------------------------------------------------
(***************************************************************************)
(* The theorems, for every length of the stream, of the segments and of    *)
(* the buffer, and every modulus that leaves room for a window and a       *)
(* segment's lifetime in half a turn.                                      *)
(***************************************************************************)
LEMMA Invariance == Spec => []IInv
  <1>1. Init => IInv  BY InitOK
  <1>2. IInv /\ [Next]_vars => IInv'  BY StepOK
  <1> QED  BY <1>1, <1>2, PTL DEF Spec

\* What the reader gets is the peer's stream, every byte at its place, though
\* the numbers on the wire repeat every turn (tcp_receiver.cc:16-32).
THEOREM AlwaysOutputInOrder == Spec => []OutputInOrder
  BY Invariance, IInvInOrder, PTL

\* The acknowledgment names the first byte that is missing, and covers the
\* FIN exactly when the whole stream is in (tcp_receiver.cc:34-45): the FIN
\* that comes with the last byte is neither lost nor acknowledged early.
THEOREM AlwaysAckIsFirstMissing == Spec => []AckIsFirstMissing
  BY Invariance, IInvAck, PTL

\* unwrap is called with a checkpoint for which it returns the closest
\* number (tcp_receiver.cc:30).
THEOREM AlwaysUnwrapIsClosest == Spec => []UnwrapIsClosest
  BY Invariance, IInvClosest, PTL

\* No segment and no read takes back room the peer was promised
\* (tcp_receiver.cc:47).
THEOREM EdgeNeverShrinks == Spec => RightEdgeNeverShrinks
  <1>1. IInv /\ [Next]_vars => [RightEdge' >= RightEdge]_vars  BY EdgeStep
  <1> QED  BY <1>1, Invariance, PTL DEF Spec, RightEdgeNeverShrinks
=============================================================================
