----------------------------- MODULE MCA2ATask -----------------------------
(***************************************************************************)
(* Small task stores for TLC.                                              *)
(***************************************************************************)
EXTENDS A2ATask, TLC

CONSTANTS t1, t2, k1, r1
MCTasks == {t1, t2}
Symmetric == Permutations(MCTasks)
============================================================================
