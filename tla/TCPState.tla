------------------------------ MODULE TCPState ------------------------------
(***************************************************************************)
(* libsponge/tcp_helpers/tcp_state.{hh,cc}: a summary of the sender, the   *)
(* receiver and the two bits of the connection, and the summaries that     *)
(* correspond to the states of RFC 793.                                    *)
(***************************************************************************)
EXTENDS TCPReceiver, TCPSender

\* TCPState::state_summary(const TCPReceiver &)
receiver_summary(rc) ==
    LET out == TCPReceiver_stream_out(rc)
    IN  IF out.error THEN "ERROR"
        ELSE IF TCPReceiver_ackno(rc) = NoValue THEN "LISTEN"
        ELSE IF ByteStream_input_ended(out) THEN "FIN_RECV" ELSE "SYN_RECV"

\* TCPState::state_summary(const TCPSender &)
sender_summary(s) ==
    IF s.stream.error THEN "ERROR"
    ELSE IF s.next_seqno = 0 THEN "CLOSED"
    ELSE IF s.next_seqno = s.bytes_in_flight THEN "SYN_SENT"
    ELSE IF \/ ~ByteStream_eof(s.stream)
            \/ s.next_seqno < s.stream.bytes_written + 2
    THEN "SYN_ACKED"
    ELSE IF s.bytes_in_flight > 0 THEN "FIN_SENT" ELSE "FIN_ACKED"

\* An inactive connection does not linger.
StateOf(s, rc, active, linger) ==
    [sender |-> sender_summary(s), receiver |-> receiver_summary(rc),
     active |-> active, linger |-> active /\ linger]

Summary(receiver, sender, active, linger) ==
    [sender |-> sender, receiver |-> receiver, active |-> active, linger |-> linger]

\* TCPState::TCPState(const TCPState::State)
Official ==
    [LISTEN      |-> Summary("LISTEN",   "CLOSED",    TRUE,  TRUE),
     SYN_RCVD    |-> Summary("SYN_RECV", "SYN_SENT",  TRUE,  TRUE),
     SYN_SENT    |-> Summary("LISTEN",   "SYN_SENT",  TRUE,  TRUE),
     ESTABLISHED |-> Summary("SYN_RECV", "SYN_ACKED", TRUE,  TRUE),
     CLOSE_WAIT  |-> Summary("FIN_RECV", "SYN_ACKED", TRUE,  FALSE),
     LAST_ACK    |-> Summary("FIN_RECV", "FIN_SENT",  TRUE,  FALSE),
     CLOSING     |-> Summary("FIN_RECV", "FIN_SENT",  TRUE,  TRUE),
     FIN_WAIT_1  |-> Summary("SYN_RECV", "FIN_SENT",  TRUE,  TRUE),
     FIN_WAIT_2  |-> Summary("SYN_RECV", "FIN_ACKED", TRUE,  TRUE),
     TIME_WAIT   |-> Summary("FIN_RECV", "FIN_ACKED", TRUE,  TRUE),
     RESET       |-> Summary("ERROR",    "ERROR",     FALSE, FALSE),
     CLOSED      |-> Summary("FIN_RECV", "FIN_ACKED", FALSE, FALSE)]
=============================================================================
