---------------------------- MODULE MCAgentRun ----------------------------
(***************************************************************************)
(* The "code" preset: two workers side by side and the critic after them.  *)
(***************************************************************************)
EXTENDS AgentRun

CONSTANTS coder, reasoner, critic
MCNodes   == {coder, reasoner, critic}
MCLayerOf == [n \in MCNodes |-> IF n = critic THEN 2 ELSE 1]
\* The workers are interchangeable.  Sound for safety only.
Symmetry == {[n \in MCNodes |-> n],
             [n \in MCNodes |-> IF n = coder THEN reasoner
                                ELSE IF n = reasoner THEN coder ELSE n]}
============================================================================
