---------------------------- MODULE MCWorkbench ----------------------------
(***************************************************************************)
(* A small workbench for TLC.  Two packs share a skill; the pages of a     *)
(* file have different lengths.                                            *)
(***************************************************************************)
EXTENDS Workbench, MCTurns, SequencesExt, Lists

CONSTANTS k1, k2, b1
MCPackCustom   == {k1, k2}
MCPackBuiltins == {b1}
MCManifests    == {<<k1, k2>>, <<k2, b1>>}

\* Among is SelectSeq with membership of a set.
ASSUME AmongSelects ==
  \A list \in SeqOf(1 .. 3, 4), S \in SUBSET (1 .. 3) :
    Among(list, S) = SelectSeq(list, LAMBDA x : x \in S)

PageLength == [p \in 1 .. N |-> IF p = 1 THEN 1 ELSE 2]
=============================================================================
