---------------------------- MODULE TCPReceiver -----------------------------
(***************************************************************************)
(* libsponge/tcp_receiver.{hh,cc}: turns the segments of the peer into     *)
(* calls of the reassembler, and computes the acknowledgment number and    *)
(* the window to send back.  An optional number without value is NoValue.  *)
(***************************************************************************)
EXTENDS StreamReassembler, TCPSegment, WrappingIntegers

NoValue == -1

NewTCPReceiver(capacity) ==
    [reassembler |-> NewStreamReassembler(capacity), isn |-> NoValue,
     capacity |-> capacity]

TCPReceiver_stream_out(rc) == rc.reassembler.output

\* Mutant: the checkpoint is the far edge of the window.
stream_index_FarCheckpoint(rc, isn, data_start) ==
    unwrap(data_start, isn, rc.reassembler.cur_index + rc.capacity) - 1

\* Mutant: the SYN is counted twice.
stream_index_SynTwice(rc, isn, data_start) ==
    MaxOf(unwrap(data_start, isn, rc.reassembler.cur_index) - 2, 0)

\* The stream index of a segment's first byte.
stream_index(rc, isn, data_start) ==
    unwrap(data_start, isn, rc.reassembler.cur_index) - 1

known_isn(rc, seg) == IF seg.syn THEN seg.seqno ELSE rc.isn

\* Mutant: numbers in front of the ISN are invalid, too.
invalid_seqno_Below(isn, data_start) == data_start <= isn

\* The number of the SYN belongs to no data; it returns after every turn.
invalid_seqno(isn, data_start) == isn = data_start

\* A SYN sets the ISN, also when there is one.
TCPReceiver_segment_received(rc, seg) ==
    LET data_start == IF seg.syn THEN SeqPlus(seg.seqno, 1) ELSE seg.seqno
        isn        == known_isn(rc, seg)
        known      == [rc EXCEPT !.isn = isn]
    IN  IF isn = NoValue \/ invalid_seqno(isn, data_start) THEN known
        ELSE [known EXCEPT !.reassembler =
                 Reassembler_push_substring(@, seg.payload,
                                            stream_index(known, isn, data_start), seg.fin)]

\* Mutant: the FIN is acknowledged as soon as it has been seen.
TCPReceiver_ackno_FinSeen(rc) ==
    IF rc.isn = NoValue THEN NoValue
    ELSE wrap(rc.reassembler.cur_index + 1 + Bit(rc.reassembler.eof), rc.isn)

\* Mutant: bytes that wait beyond a hole are acknowledged.
TCPReceiver_ackno_Unassembled(rc) ==
    IF rc.isn = NoValue THEN NoValue
    ELSE wrap(rc.reassembler.cur_index + Reassembler_unassembled_bytes(rc.reassembler) + 1
                  + Bit(ByteStream_input_ended(TCPReceiver_stream_out(rc))), rc.isn)

\* The SYN takes a number, and so does the FIN once the input has ended.
TCPReceiver_ackno(rc) ==
    IF rc.isn = NoValue THEN NoValue
    ELSE wrap(rc.reassembler.cur_index + 1
                  + Bit(ByteStream_input_ended(TCPReceiver_stream_out(rc))), rc.isn)

\* Mutant: the window also counts what waits in the list.
TCPReceiver_window_size_Unassembled(rc) ==
    rc.capacity - ByteStream_buffer_size(TCPReceiver_stream_out(rc))
        - Reassembler_unassembled_bytes(rc.reassembler)

TCPReceiver_window_size(rc) ==
    SizeT(rc.capacity - ByteStream_buffer_size(TCPReceiver_stream_out(rc)))
=============================================================================
