---------------------------- MODULE MCDatagrams -----------------------------
(***************************************************************************)
(* A server and three clients: two of them share an address, two of them a *)
(* port, and two addresses differ by one.  The numbers in the headers are  *)
(* at the edges of their ranges.                                           *)
(***************************************************************************)
EXTENDS Datagrams

MCServer == [ip |-> <<2560, 1>>, port |-> 80]

MCClients == {[ip |-> <<2560, 2>>, port |-> 255],
              [ip |-> <<2560, 2>>, port |-> 256],
              [ip |-> <<2560, 3>>, port |-> 255]}

MCTapClient == [ip |-> <<2560, 2>>, port |-> 255]

MCBroadcast == <<255, 255, 255, 255, 255, 255>>

Syn == [NewTCPHeader EXCEPT !.seqno = <<65535, 65535>>, !.syn = TRUE, !.win = 65535]
Ack == [NewTCPHeader EXCEPT !.seqno = <<0, 0>>, !.ackno = <<65535, 0>>, !.ack = TRUE, !.win = 1]

MCSegments == {[header |-> Syn, payload |-> <<>>],
               [header |-> [Syn EXCEPT !.rst = TRUE, !.ack = TRUE, !.urg = TRUE, !.uptr = 257], payload |-> <<>>],
               [header |-> [Ack EXCEPT !.fin = TRUE], payload |-> <<255, 0, 255>>],
               [header |-> [Ack EXCEPT !.psh = TRUE], payload |-> <<0>>]}
=============================================================================
