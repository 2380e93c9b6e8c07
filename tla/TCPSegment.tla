----------------------------- MODULE TCPSegment -----------------------------
(***************************************************************************)
(* libsponge/tcp_helpers/tcp_segment.{hh,cc}, tcp_header.hh: the fields of *)
(* a segment that the TCP objects read or write.  Ports, checksum, urgent  *)
(* pointer and the other flags never reach them.                           *)
(*                                                                         *)
(* `abs` is not in the code: it is the absolute number that the sender     *)
(* wrapped into seqno, kept for the properties only.                       *)
(***************************************************************************)
EXTENDS Integers, Sequences

NewTCPSegment ==
    [seqno |-> 0, ackno |-> 0, ack |-> FALSE, rst |-> FALSE, syn |-> FALSE,
     fin |-> FALSE, win |-> 0, payload |-> <<>>, abs |-> 0]

\* flag ? 1 : 0
Bit(flag) == IF flag THEN 1 ELSE 0

length_in_sequence_space(seg) ==
    Len(seg.payload) + Bit(seg.syn) + Bit(seg.fin)
=============================================================================
