----------------------------- MODULE TCPSender ------------------------------
(***************************************************************************)
(* libsponge/tcp_sender.{hh,cc}: cuts an outgoing ByteStream into          *)
(* segments, keeps the unacknowledged ones and retransmits the oldest.     *)
(*                                                                         *)
(* The two loops are given by their iterations: fill_begin / fill_once for *)
(* the do-while of fill_window, ack_begin / ack_pop / ack_finish for       *)
(* ack_received.  The whole calls are TCPSender_fill_window and            *)
(* TCPSender_ack_received.  _cur_time is written and never read.           *)
(***************************************************************************)
EXTENDS ByteStream, TCPSegment, WrappingIntegers

CONSTANT MAX_PAYLOAD_SIZE

ASSUME MaxPayloadAssumption == MAX_PAYLOAD_SIZE \in Nat \ {0}

-----------------------------------------------------------------------------
\* RetransmissionTimer

NewTimer == [ddl |-> 0, cur |-> 0, is_start |-> FALSE]

Timer_expired(t) == t.is_start /\ t.cur >= t.ddl

\* A timer that runs is left alone.
Timer_start(t, ddl) ==
    IF t.is_start THEN t ELSE [ddl |-> ddl, cur |-> 0, is_start |-> TRUE]

Timer_stop(t) == NewTimer

Timer_tick(t, time) == IF t.is_start THEN [t EXCEPT !.cur = @ + time] ELSE t

-----------------------------------------------------------------------------
NewTCPSender(capacity, retx_timeout, isn) ==
    [isn |-> isn, segments_out |-> <<>>, initial_rto |-> retx_timeout,
     stream |-> NewByteStream(capacity), next_seqno |-> 0, window_size |-> 1,
     bytes_in_flight |-> 0, una_seqno |-> 0, outstanding |-> <<>>,
     timer |-> NewTimer, cur_rto |-> retx_timeout, consecutive_retrans |-> 0,
     is_transmission_ended |-> FALSE]

-----------------------------------------------------------------------------
\* Mutant: a closed window is not probed.
fill_begin_NoProbe(s) ==
    [window |-> s.window_size, syn |-> FALSE, more |-> s.window_size > s.bytes_in_flight]

\* The locals of fill_window: actual_window_size, and the SYN flag of `seg`,
\* which is declared outside the loop and keeps its flags from one iteration
\* to the next (FIN as well, but a FIN ends the loop).  `more`: go round again.
fill_begin(s) ==
    LET window == IF s.window_size = 0 THEN 1 ELSE s.window_size
    IN  [window |-> window, syn |-> FALSE, more |-> window > s.bytes_in_flight]

\* Mutant: the room for the FIN is not checked.
fin_now_NoRoom(st, window, in_flight) ==
    ByteStream_input_ended(st) /\ ByteStream_eof(st)

\* Mutant: the FIN does not wait for the bytes still in the stream.
fin_now_Early(st, window, in_flight) ==
    ByteStream_input_ended(st) /\ window - in_flight # 0

\* The FIN goes out with the last byte, if the window has room for it.
fin_now(st, window, in_flight) ==
    ByteStream_input_ended(st) /\ ByteStream_eof(st) /\ window - in_flight # 0

\* The segment of an iteration that starts at _next_seqno.
fill_segment(s, syn, payload, fin) ==
    [NewTCPSegment EXCEPT !.seqno = wrap(s.next_seqno, s.isn), !.syn = syn,
                          !.payload = payload, !.fin = fin, !.abs = s.next_seqno]

read_size(window, in_flight) == MinOf(window - in_flight, MAX_PAYLOAD_SIZE)

\* One iteration of the do-while, with the activation f; the new sender and
\* the new activation.
fill_once(s, f) ==
    LET first == s.next_seqno = 0
        syn   == f.syn \/ first
        took  == Bit(first)
        got   == ByteStream_read(s.stream, read_size(f.window, s.bytes_in_flight + took))
        used  == took + Len(got.data)
        fin   == fin_now(got.stream, f.window, s.bytes_in_flight + used)
        all   == used + Bit(fin)
        seg   == fill_segment(s, syn, got.data, fin)
        moved == [s EXCEPT !.stream = got.stream, !.next_seqno = @ + all,
                           !.bytes_in_flight = @ + all,
                           !.is_transmission_ended = @ \/ fin]
        sent  == [moved EXCEPT !.segments_out = Append(@, seg),
                               !.outstanding = Append(@, seg),
                               !.timer = Timer_start(@, s.cur_rto)]
    IN  IF s.is_transmission_ended
        THEN [s |-> s, f |-> [f EXCEPT !.more = FALSE]]
        ELSE [s |-> IF got.data # <<>> \/ syn \/ fin THEN sent ELSE moved,
              f |-> [f EXCEPT !.syn = syn,
                              !.more = /\ ~ByteStream_buffer_empty(got.stream)
                                       /\ f.window - (s.bytes_in_flight + all) # 0]]

\* After the first iteration each one sends at least a byte.
TCPSender_fill_window(s) ==
    LET bound == Len(s.stream.str) + 2
        step[n \in 0 .. bound] ==
            IF n = 0 THEN [s |-> s, f |-> fill_begin(s)]
            ELSE LET p == step[n - 1]
                 IN  IF p.f.more THEN fill_once(p.s, p.f) ELSE p
    IN  step[bound].s

-----------------------------------------------------------------------------
ackno_abs(s, ackno) == unwrap(ackno, s.isn, s.next_seqno)

acceptable(s, a) == a > s.una_seqno /\ a <= s.next_seqno

\* ack_received up to its loop: the window is taken from every acknowledgment.
ack_begin(s, a, window_size) ==
    LET w == [s EXCEPT !.window_size = window_size]
    IN  IF acceptable(s, a) THEN [w EXCEPT !.una_seqno = a] ELSE w

\* The front of the queue is acknowledged as a whole.
fully_acked(s, a) ==
    /\ s.outstanding # <<>>
    /\ LET seg == Head(s.outstanding)
       IN  a >= unwrap(seg.seqno, s.isn, s.next_seqno) + length_in_sequence_space(seg)

\* Mutant: the segment leaves the queue but still counts as in flight.
ack_pop_KeepsCount(s) == [s EXCEPT !.outstanding = Tail(@)]

ack_pop(s) ==
    [s EXCEPT !.bytes_in_flight = @ - length_in_sequence_space(Head(s.outstanding)),
              !.outstanding = Tail(@)]

\* Mutant: the timer keeps running when everything is acknowledged.
ack_finish_KeepsTimer(s) ==
    [s EXCEPT !.cur_rto = s.initial_rto, !.consecutive_retrans = 0]

\* Mutant: the timeout stays backed off.
ack_finish_KeepsRto(s) ==
    [s EXCEPT !.consecutive_retrans = 0,
              !.timer = IF s.outstanding = <<>> THEN Timer_stop(@)
                        ELSE Timer_start(Timer_stop(@), s.initial_rto)]

\* ack_received after its loop.
ack_finish(s) ==
    [s EXCEPT !.cur_rto = s.initial_rto,
              !.consecutive_retrans = 0,
              !.timer = IF s.outstanding = <<>> THEN Timer_stop(@)
                        ELSE Timer_start(Timer_stop(@), s.initial_rto)]

TCPSender_ack_received(s, ackno, window_size) ==
    LET a == ackno_abs(s, ackno)
        pops[n \in 0 .. Len(s.outstanding)] ==
            IF n = 0 THEN ack_begin(s, a, window_size)
            ELSE LET p == pops[n - 1] IN IF fully_acked(p, a) THEN ack_pop(p) ELSE p
    IN  IF acceptable(s, a) THEN ack_finish(pops[Len(s.outstanding)])
        ELSE ack_begin(s, a, window_size)

-----------------------------------------------------------------------------
\* A closed window is probed without backing off.
backoff(s) ==
    IF s.window_size = 0 THEN s
    ELSE [s EXCEPT !.consecutive_retrans = @ + 1, !.cur_rto = 2 * @]

retransmit(s) == [s EXCEPT !.segments_out = Append(@, Head(s.outstanding))]

TCPSender_tick(s, ms) ==
    LET t == [s EXCEPT !.timer = Timer_tick(@, ms)]
        u == backoff(retransmit(t))
    IN  IF Timer_expired(t.timer) /\ t.outstanding # <<>>
        THEN [u EXCEPT !.timer = Timer_start(Timer_stop(@), u.cur_rto)]
        ELSE t

TCPSender_send_empty_segment(s) ==
    [s EXCEPT !.segments_out =
         Append(@, [NewTCPSegment EXCEPT !.seqno = wrap(s.next_seqno, s.isn),
                                         !.abs = s.next_seqno])]
=============================================================================
