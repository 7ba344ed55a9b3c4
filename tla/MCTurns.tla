------------------------------ MODULE MCTurns ------------------------------
(***************************************************************************)
(* The settings of a turn that PromptContext is checked with.              *)
(***************************************************************************)
\* What each model has room for.
Room == [flash |-> 6, pro |-> 12]

\* A turn: search, chosen model, mode and difficulty, with the rest as it is most
\* often; and seven turns that take every route and every way to choose a model.
Turn(search, model, mode, complexity) ==
  [search |-> search, model |-> model, mode |-> mode, complexity |-> complexity,
   memory |-> FALSE, slides |-> FALSE, continues |-> FALSE, costly |-> FALSE,
   overBudget |-> FALSE, edgeUp |-> TRUE, cloudUp |-> TRUE]

Turns ==
  {Turn("off", "auto", "auto", "complex"),
   [Turn("on", "auto", "auto", "simple") EXCEPT !.edgeUp = FALSE, !.memory = TRUE, !.slides = TRUE],
   [Turn("forced", "pro", "auto", "simple") EXCEPT !.overBudget = TRUE, !.continues = TRUE],
   [Turn("off", "flash", "auto", "simple") EXCEPT !.cloudUp = FALSE],
   [Turn("off", "flash", "cloud", "simple") EXCEPT !.cloudUp = FALSE],
   Turn("off", "flash", "local", "simple"),
   [Turn("off", "auto", "cloud", "neutral") EXCEPT !.costly = TRUE]}
=============================================================================
