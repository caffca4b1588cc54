----------------------------- MODULE MCWaitTimer -----------------------------
(***************************************************************************)
(* WaitTimer with a second of ten units of ten: an int then overflows at   *)
(* 2.6 seconds, as the real one does at 2.1.                               *)
(***************************************************************************)
EXTENDS WaitTimer

\* Nothing, main.cc's tenth of a second, either side of a second and of two, beyond the
\* range of the product, and so far beyond that the low bits are a short timer again.
AllTimers == {0, 1, 9, 10, 11, 20, 21, 25, 26, 30, 51, 52, 60}
=============================================================================
