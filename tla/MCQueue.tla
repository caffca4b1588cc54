------------------------------- MODULE MCQueue -------------------------------
(***************************************************************************)
(* QueueCalls on small instances: cells and threads are model values, the  *)
(* configurations choose which functions the threads call.                 *)
(***************************************************************************)
EXTENDS QueueCalls, TLC

\* Cells are addresses: which one malloc returns makes no difference.
CellSymmetry == Permutations(Cells)

\* Everything queue.h offers.
AllOperations == Calls
=============================================================================
