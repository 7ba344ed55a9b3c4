---------------------------- MODULE MCScheduler ----------------------------
(***************************************************************************)
(* Small schedulers for TLC.  The two priorities stand for an interactive  *)
(* chat and an agent worker.                                               *)
(***************************************************************************)
EXTENDS Scheduler, TLC

MCPriorities == {0, 10}

CONSTANTS c1, c2, c3, c4
Streams == {c1, c2}
Symmetric == Permutations(Streams)

============================================================================
