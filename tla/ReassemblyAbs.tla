--------------------------- MODULE ReassemblyAbs ----------------------------
(***************************************************************************)
(* What a reassembler promises (stream_reassembler.hh:10-11, 34-42), with  *)
(* no lists and no strings.  A piece that is handed over is taken in       *)
(* whole: each of its bytes that fits is held or assembled, the assembled  *)
(* bytes are the longest prefix received, and the end is signalled as soon *)
(* as, and no sooner than, the stream is assembled and its end mark was    *)
(* accepted.                                                               *)
(***************************************************************************)
EXTENDS Integers

CONSTANTS StreamLen, Capacity

VARIABLES
    assembled,  \* bytes 0 .. assembled-1 are in order
    taken,      \* of these, the number the reader has taken
    held,       \* the bytes stored beyond the prefix
    marked,     \* the mark of the end has been accepted
    ended,      \* the end has been signalled to the reader
    call        \* the piece handed over and not yet taken in, or <<>>

vars == <<assembled, taken, held, marked, ended, call>>

Init ==
    /\ assembled = 0
    /\ taken = 0
    /\ held = {}
    /\ marked = FALSE
    /\ ended = FALSE
    /\ call = <<>>

\* The bytes i .. j-1 are handed over, with or without the mark of the end.
Arrive(i, j, eof) ==
    /\ call = <<>>
    /\ i <= j
    /\ eof => j = StreamLen
    /\ call' = <<i, j, eof>>
    /\ UNCHANGED <<assembled, taken, held, marked, ended>>

\* The piece is taken in.  Its mark is accepted if there is room and the whole
\* piece lies in front of the end of the window.
Receive(i, j, eof) ==
    LET window == taken + Capacity
        all    == held \cup {x \in i .. j - 1 : assembled <= x /\ x < window}
    IN  /\ call = <<i, j, eof>>
        /\ call' = <<>>
        /\ assembled' \in assembled .. StreamLen
        /\ assembled .. assembled' - 1 \subseteq all
        /\ assembled' \notin all
        /\ held' = {x \in all : x > assembled'}
        /\ marked' = (marked \/ (eof /\ assembled < window /\ j <= window))
        /\ ended' = (marked' /\ assembled' = StreamLen)
        /\ UNCHANGED taken

Take(n) ==
    /\ call = <<>>
    /\ n <= assembled - taken
    /\ taken' = taken + n
    /\ UNCHANGED <<assembled, held, marked, ended, call>>

Next ==
    \/ \E i, j \in 0 .. StreamLen, eof \in BOOLEAN : Arrive(i, j, eof) \/ Receive(i, j, eof)
    \/ \E n \in 1 .. Capacity : Take(n)

Spec == Init /\ [][Next]_vars
=============================================================================
