------------------------------ MODULE EventLoop -----------------------------
(***************************************************************************)
(* libsponge/util/eventloop.{hh,cc} and file_descriptor.{hh,cc}: the flags *)
(* of a file descriptor, which all its duplicates share, and what a pass   *)
(* of wait_next_event decides about one rule.                              *)
(*                                                                         *)
(* The counts of reads and writes are only ever compared before and after  *)
(* one callback, so a callback tells whether it registered its operation.  *)
(***************************************************************************)
EXTENDS Integers, Sequences

In == "POLLIN"
Out == "POLLOUT"
Hup == "POLLHUP"
Err == "POLLERR"

NewFD == [eof |-> FALSE, closed |-> FALSE]

\* The flags after read(2) has returned n bytes of at most limit.
FileDescriptor_read(fd, limit, n) == [fd EXCEPT !.eof = @ \/ (limit > 0 /\ n = 0)]

FileDescriptor_close(fd) == [fd EXCEPT !.eof = TRUE, !.closed = TRUE]

\* FileDescriptor::read, write and Socket::shutdown register what they do.
Serviced(direction) == direction \in {In, Out}

\* The rule is cancelled before the poll: nothing more can happen on its fd.
Defunct(direction, fd) == (direction = In /\ fd.eof) \/ fd.closed

\* What poll(2) is asked about; errors and hangups are reported anyway.
Asked(direction, interested) == IF interested THEN {direction} ELSE {}

\* Mutant: a hangup alone is left for a later pass.
Verdict_KeepsHangup(asked, revents) ==
    CASE Err \in revents             -> "throw"
      [] revents \cap asked # {}     -> "callback"
      [] OTHER                       -> "next"

\* What becomes of a rule whose fd poll(2) has reported revents for.
Verdict(asked, revents) ==
    CASE Err \in revents                                              -> "throw"
      [] Hup \in revents /\ asked # {} /\ revents \cap asked = {}     -> "cancel"
      [] revents \cap asked # {}                                      -> "callback"
      [] OTHER                                                        -> "next"

\* A callback that did nothing to its fd and would be called again at once.
BusyWait(serviced, interested) == ~serviced /\ interested
=============================================================================
