----------------------------- MODULE LayerSizes -----------------------------
(***************************************************************************)
(* The agents of a layer and the sizes that AgentLayer depends on.         *)
(***************************************************************************)
EXTENDS Naturals, FiniteSets

CONSTANTS
  Agents,      \* the agents of the layer
  Order,       \* the same in plan order
  MaxWorkers,  \* MAX_AGENTS, a bound of the pool
  MaxDeltas    \* bound on the deltas of one attempt

ASSUME LayerAssumption ==
  /\ IsFiniteSet(Agents)
  /\ Order \in [1..Cardinality(Agents) -> Agents]
  /\ \A a \in Agents : \E i \in DOMAIN Order : Order[i] = a
  /\ MaxWorkers \in Nat \ {0} /\ MaxDeltas \in Nat
=============================================================================
