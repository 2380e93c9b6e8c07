---------------------------- MODULE TCPConnection ---------------------------
(***************************************************************************)
(* libsponge/tcp_connection.{hh,cc}: an endpoint, a TCPReceiver and a      *)
(* TCPSender that share the segments of one connection.                    *)
(*                                                                         *)
(* `since` is _time_since_last_seg_received.  It is only compared with the *)
(* time to linger, so it stops counting there.                             *)
(***************************************************************************)
EXTENDS TCPState

CONSTANTS
    MAX_RETX_ATTEMPTS,  \* retransmissions before the connection is reset
    MaxWin,             \* largest window a header can carry, 2^16-1
    LingerTimeouts      \* retransmission timeouts to linger, 10 in the code

ASSUME ConnectionAssumption ==
    /\ MAX_RETX_ATTEMPTS \in Nat
    /\ MaxWin \in Nat \ {0}
    /\ LingerTimeouts \in Nat \ {0}

NewTCPConnection(recv_capacity, send_capacity, rt_timeout, isn) ==
    [receiver |-> NewTCPReceiver(recv_capacity),
     sender |-> NewTCPSender(send_capacity, rt_timeout, isn),
     segments_out |-> <<>>, linger |-> TRUE, since |-> 0, rt_timeout |-> rt_timeout]

inbound_stream(c) == TCPReceiver_stream_out(c.receiver)

\* The receiver's fields of a segment that goes out.
stamped(c, seg) ==
    LET ackno == TCPReceiver_ackno(c.receiver)
        win   == MinOf(TCPReceiver_window_size(c.receiver), MaxWin)
    IN  IF ackno = NoValue THEN [seg EXCEPT !.win = win]
        ELSE [seg EXCEPT !.win = win, !.ack = TRUE, !.ackno = ackno]

send_all_outbounding_segments(c) ==
    [c EXCEPT !.sender.segments_out = <<>>,
              !.segments_out = @ \o [k \in 1 .. Len(c.sender.segments_out) |->
                                        stamped(c, c.sender.segments_out[k])]]

\* The RST is set on the front of the sender's queue.
send_rst_segment(c) ==
    LET s == TCPSender_send_empty_segment(c.sender)
    IN  [c EXCEPT !.sender = [s EXCEPT !.segments_out = Tail(@)],
                  !.segments_out = Append(@, [Head(s.segments_out) EXCEPT !.rst = TRUE])]

set_error(c) ==
    [c EXCEPT !.sender.stream = ByteStream_set_error(@),
              !.receiver.reassembler.output = ByteStream_set_error(@)]

has_error(c) == c.sender.stream.error \/ inbound_stream(c).error

\* Mutant: segments that are not acknowledged do not keep it alive.
active_NoFlight(c) ==
    /\ ~has_error(c)
    /\ \/ c.linger /\ c.since < LingerTimeouts * c.rt_timeout
       \/ ~ByteStream_input_ended(c.sender.stream)
       \/ ~ByteStream_input_ended(inbound_stream(c))

active(c) ==
    /\ ~has_error(c)
    /\ \/ c.linger /\ c.since < LingerTimeouts * c.rt_timeout
       \/ c.sender.bytes_in_flight > 0
       \/ ~ByteStream_input_ended(c.sender.stream)
       \/ ~ByteStream_input_ended(inbound_stream(c))

state(c) == StateOf(c.sender, c.receiver, active(c), c.linger)

fill_window(c) == [c EXCEPT !.sender = TCPSender_fill_window(@)]
send_empty_segment(c) == [c EXCEPT !.sender = TCPSender_send_empty_segment(@)]

\* A segment without length just in front of the window.
is_keep_alive(c, seg) ==
    /\ TCPReceiver_ackno(c.receiver) # NoValue
    /\ length_in_sequence_space(seg) = 0
    /\ seg.seqno = SeqMinus(TCPReceiver_ackno(c.receiver), 1)

\* Mutant: the connection lingers whoever ended first.
linger_after_Always(c) == c.linger

\* Mutant: the connection does not linger even if it ended first.
linger_after_Never(c) == c.linger /\ ~ByteStream_input_ended(inbound_stream(c))

\* Whether to linger, given what has been received.
linger_after(c) ==
    /\ c.linger
    /\ ByteStream_input_ended(inbound_stream(c)) => ByteStream_eof(c.sender.stream)

\* The part of segment_received that is common to all but RST, keep-alive and
\* what is dropped in LISTEN.
handle_segment(c, seg) ==
    LET got    == [c EXCEPT !.receiver = TCPReceiver_segment_received(@, seg)]
        acked  == IF seg.ack
                  THEN [got EXCEPT !.sender = TCPSender_ack_received(@, seg.ackno, seg.win)]
                  ELSE got
        filled == fill_window([acked EXCEPT !.linger = linger_after(acked)])
    IN  IF got.receiver.reassembler.thrown THEN got
        ELSE IF filled.sender.segments_out # <<>>
        THEN send_all_outbounding_segments(filled)
        ELSE IF length_in_sequence_space(seg) > 0
        THEN send_all_outbounding_segments(send_empty_segment(filled))
        ELSE filled

segment_received(conn, seg) ==
    LET c == [conn EXCEPT !.since = 0]
    IN  IF seg.rst THEN set_error(c)
        ELSE IF is_keep_alive(c, seg)
        THEN send_all_outbounding_segments(send_empty_segment(c))
        ELSE IF state(c) = Official.LISTEN /\ ~seg.syn THEN c
        ELSE handle_segment(c, seg)

write(c, data) ==
    send_all_outbounding_segments(
        fill_window([c EXCEPT !.sender.stream = ByteStream_write(@, data)]))

tick(c, ms) ==
    LET t == [c EXCEPT !.since = MinOf(@ + ms, LingerTimeouts * c.rt_timeout),
                       !.sender = TCPSender_tick(@, ms)]
    IN  IF t.sender.consecutive_retrans > MAX_RETX_ATTEMPTS
        THEN set_error(send_rst_segment(t))
        ELSE send_all_outbounding_segments(t)

\* Mutant: the window is not filled once the input has ended.
end_input_stream_NoFill(c) ==
    send_all_outbounding_segments([c EXCEPT !.sender.stream = ByteStream_end_input(@)])

\* What fill_window queued goes out only if a FIN is in front.
end_input_stream(c) ==
    LET f == fill_window([c EXCEPT !.sender.stream = ByteStream_end_input(@)])
    IN  IF f.sender.segments_out # <<>> /\ Head(f.sender.segments_out).fin
        THEN send_all_outbounding_segments(f) ELSE f

connect(c) == send_all_outbounding_segments(fill_window(c))

\* The destructor queues a RST that nobody is left to send.
destroy(c) == IF active(c) THEN send_rst_segment(c) ELSE c
=============================================================================
