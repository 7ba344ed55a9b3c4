----------------------------- MODULE PlanLayers -----------------------------
(***************************************************************************)
(* multi_agent.layered_plan: the plan of a run is cut into layers that are *)
(* executed one after the other, the agents of a layer in parallel.  A     *)
(* plan without depends_on keeps the old tiers (researcher, the others,    *)
(* critic); any other goes through the loop of _dependency_layers, one     *)
(* round of which is one step here.                                        *)
(*                                                                         *)
(* layer[n] is the number of the layer of n, 0 while n is not placed; the  *)
(* order inside a layer is left out.                                       *)
(***************************************************************************)
EXTENDS Integers

CONSTANTS
  Nodes,       \* the agents of the plan
  Profiles,    \* AGENT_PROFILES: the agents that depends_on may name
  Researcher, Critic

ASSUME ConstantsAssumption ==
  /\ Nodes \subseteq Profiles /\ Nodes # {}
  /\ Researcher \in Profiles /\ Critic \in Profiles
  /\ Researcher # Critic

VARIABLES
  depends_on,  \* depends_on[n]: the agents that n waits for
  layer,
  round        \* layers emitted so far

vars == <<depends_on, layer, round>>

\* depends_on is what _clean_depends_on leaves of the planner's or the user's
\* lists: known agents, not oneself, and nobody waits for the critic.  Agents
\* outside of the plan may still be among them.
Init ==
  /\ depends_on \in [Nodes -> SUBSET (Profiles \ {Critic})]
  /\ \A n \in Nodes : n \notin depends_on[n]
  /\ layer = [n \in Nodes |-> 0]
  /\ round = 0
----------------------------------------------------------------------------
\* Dangling dependencies are dropped; the critic waits for everybody.
Deps(n) == IF n = Critic THEN Nodes \ {Critic} ELSE depends_on[n] \cap Nodes

Remaining == {n \in Nodes : layer[n] = 0}

\* Mutant of Ready: one satisfied dependency is enough.
ReadyOnPlaced ==
  {n \in Remaining : Deps(n) = {} \/ Deps(n) \ Remaining # {}}

Ready == {n \in Remaining : Deps(n) \cap Remaining = {}}

\* A cycle is broken by placing all the workers left; the critic stays last.
NextLayer ==
  IF Ready # {} THEN Ready
  ELSE IF Remaining \ {Critic} # {} THEN Remaining \ {Critic}
  ELSE Remaining

\* plan_has_dependencies
HasDependencies == \E n \in Nodes : depends_on[n] # {}

\* One round of the loop of _dependency_layers.
Round ==
  /\ HasDependencies
  /\ Remaining # {}
  /\ round' = round + 1
  /\ layer' = [n \in Nodes |-> IF n \in NextLayer THEN round + 1 ELSE layer[n]]
  /\ UNCHANGED depends_on

\* _legacy_role_tiers
LegacyTiers ==
  /\ ~HasDependencies
  /\ Remaining # {}
  /\ round' = 3
  /\ layer' = [n \in Nodes |-> CASE n = Researcher -> 1
                                 [] n = Critic     -> 3
                                 [] OTHER          -> 2]
  /\ UNCHANGED depends_on

Returned == Remaining = {} /\ UNCHANGED vars

Next == Round \/ LegacyTiers \/ Returned

Spec == Init /\ [][Next]_vars
----------------------------------------------------------------------------
\* The layers are numbered from 1, and dependencies are agents.
TypeOK ==
  /\ depends_on \in [Nodes -> SUBSET Profiles]
  /\ layer \in [Nodes -> Nat] /\ round \in Nat
  /\ \A n \in Nodes : layer[n] <= round

(***************************************************************************)
(* "The critic reviews last": whatever depends_on says, and also when a    *)
(* cycle had to be broken, the critic runs after every other agent.        *)
(***************************************************************************)
CriticReviewsAll ==
  Critic \in Nodes /\ layer[Critic] # 0 =>
    \A n \in Nodes \ {Critic} : layer[n] # 0 /\ layer[n] < layer[Critic]

\* An agent is blocked if it is in a set of agents each of which waits for
\* a member of the set: it is on a cycle or behind one.
Blocked(n) ==
  \E S \in SUBSET Nodes : n \in S /\ \A s \in S : Deps(s) \cap S # {}

(***************************************************************************)
(* An agent runs after all it depends on, unless a cycle makes that        *)
(* impossible for it: a cycle elsewhere in the plan does not disturb it.   *)
(***************************************************************************)
DependenciesFirst ==
  \A n \in Nodes : layer[n] # 0 /\ ~Blocked(n) =>
    \A d \in Deps(n) : layer[d] # 0 /\ layer[d] < layer[n]

(***************************************************************************)
(* As parallel as the dependencies allow: an agent of a later layer waited *)
(* for one of the layer before (or for a cycle to be broken).              *)
(***************************************************************************)
NoNeedlessWait ==
  HasDependencies =>
    \A n \in Nodes : layer[n] > 1 /\ ~Blocked(n) =>
      \E d \in Deps(n) : layer[d] = layer[n] - 1

(***************************************************************************)
(* The three together: what a plan is layered into, whatever its           *)
(* dependencies are.                                                       *)
(***************************************************************************)
WellLayered == CriticReviewsAll /\ DependenciesFirst /\ NoNeedlessWait

\* Every round places somebody, so the loop ends and nobody is left out.
EveryRoundPlaces ==
  [][\E n \in Remaining : layer'[n] # 0]_vars
============================================================================
