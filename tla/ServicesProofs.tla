--------------------------- MODULE ServicesProofs ---------------------------
(***************************************************************************)
(* Safety of the stores beside the request path, for every number of       *)
(* workers and every setting: each machine by itself, from its own Init    *)
(* and Next.                                                               *)
(***************************************************************************)
EXTENDS Services, Sequences, FiniteSetTheorems, TLAPS

(***************************************************************************)
(* The layers of a plan, for every set of agents and every depends_on.     *)
(* NoNeedlessWait speaks of placed agents; it is inductive together with   *)
(* what makes an unplaced one wait: a dependency that is not placed, or    *)
(* was placed in the last round.                                           *)
(***************************************************************************)
StillWaiting ==
  HasDependencies /\ round > 0 =>
    \A n \in Remaining : Blocked(n) \/ \E d \in Deps(n) : layer[d] \in {0, round}

LayersInv ==
  /\ TypeOK /\ CriticReviewsAll /\ DependenciesFirst
  /\ StillWaiting /\ NoNeedlessWait

----------------------------------------------------------------------------
\* Nobody is ready: everybody left is on a cycle or behind one.
LEMMA StuckIsBlocked ==
  ASSUME Ready = {}, NEW n \in Remaining
  PROVE  Blocked(n)
  BY DEF Ready, Remaining, Blocked

LEMMA DepsInNodes == \A n \in Nodes : Deps(n) \subseteq Nodes
  BY DEF Deps

LEMMA NextLayerRemains == NextLayer \subseteq Remaining
  BY DEF NextLayer, Ready

\* What a round keeps, adds and leaves open.
LEMMA RoundPlaces ==
  ASSUME TypeOK, Round
  PROVE  /\ depends_on' = depends_on /\ round' = round + 1
         /\ \A n \in NextLayer : layer[n] = 0 /\ layer'[n] = round + 1
         /\ \A n \in Nodes \ NextLayer : layer'[n] = layer[n]
         /\ Remaining' = Remaining \ NextLayer
<1>1. \A n \in NextLayer : n \in Nodes /\ layer[n] = 0
  BY NextLayerRemains DEF Remaining
<1>2. \A n \in Nodes : layer'[n] = IF n \in NextLayer THEN round + 1 ELSE layer[n]
  BY DEF Round
<1>3. round + 1 # 0
  BY DEF TypeOK
<1>4. Remaining' = Remaining \ NextLayer
  BY <1>1, <1>2, <1>3 DEF Remaining
<1> QED BY <1>1, <1>2, <1>4 DEF Round

----------------------------------------------------------------------------
LEMMA LayersInitially == Init => LayersInv
<1> SUFFICES ASSUME Init PROVE LayersInv
  OBVIOUS
<1>1. \A n \in Nodes : layer[n] = 0
  BY DEF Init
<1>2. TypeOK
  BY <1>1 DEF Init, TypeOK
<1>3. CriticReviewsAll /\ DependenciesFirst /\ NoNeedlessWait
  BY <1>1 DEF CriticReviewsAll, DependenciesFirst, NoNeedlessWait
<1>4. ~(round > 0)
  BY DEF Init
<1>5. StillWaiting
  BY <1>4 DEF StillWaiting
<1> QED BY <1>2, <1>3, <1>5 DEF LayersInv

LEMMA RoundKeeps == LayersInv /\ Round => LayersInv'
<1> SUFFICES ASSUME LayersInv, Round PROVE LayersInv'
  OBVIOUS
<1> USE ConstantsAssumption
<1>1. TypeOK
  BY DEF LayersInv
<1>2. /\ depends_on' = depends_on /\ round' = round + 1
      /\ \A n \in NextLayer : layer[n] = 0 /\ layer'[n] = round + 1
      /\ \A n \in Nodes \ NextLayer : layer'[n] = layer[n]
      /\ Remaining' = Remaining \ NextLayer
  BY <1>1, RoundPlaces
<1>3. /\ round \in Nat /\ round + 1 \in Nat /\ round < round + 1
      /\ \A n \in Nodes : layer[n] \in Nat /\ layer[n] <= round
      /\ \A n \in Nodes : layer[n] < round + 1
  BY <1>1 DEF TypeOK
<1>4. NextLayer \subseteq Remaining /\ Remaining \subseteq Nodes
  BY NextLayerRemains DEF Remaining
<1>5. HasDependencies
  BY DEF Round
<1>6. /\ \A n \in Nodes : Deps(n)' = Deps(n)
      /\ \A n \in Nodes : Blocked(n)' <=> Blocked(n)
  BY <1>2 DEF Deps, Blocked
<1>7. TypeOK'
  <2>1. layer' \in [Nodes -> Nat]
    BY <1>1, <1>3 DEF Round, TypeOK
  <2>2. \A n \in Nodes : layer'[n] <= round'
    <3> TAKE n \in Nodes
    <3>1. CASE n \in NextLayer
      BY <3>1, <1>2, <1>3
    <3>2. CASE n \notin NextLayer
      BY <3>2, <1>2, <1>3
    <3> QED BY <3>1, <3>2
  <2> QED BY <2>1, <2>2, <1>1, <1>2, <1>3 DEF TypeOK
<1>8. CriticReviewsAll'
  <2> SUFFICES ASSUME Critic \in Nodes, layer'[Critic] # 0,
                      NEW n \in Nodes \ {Critic}
               PROVE  layer'[n] # 0 /\ layer'[n] < layer'[Critic]
    BY DEF CriticReviewsAll
  <2>1. CASE Critic \notin NextLayer
    <3>1. layer'[Critic] = layer[Critic]
      BY <2>1, <1>2
    <3>2. layer[n] # 0 /\ layer[n] < layer[Critic]
      BY <3>1 DEF LayersInv, CriticReviewsAll
    <3>3. layer'[n] = layer[n]
      BY <3>2, <1>2
    <3> QED BY <3>1, <3>2, <3>3
  <2>2. CASE Critic \in NextLayer
    <3>1. layer[n] # 0
      <4>1. CASE Ready # {}
        BY <4>1, <2>2 DEF NextLayer, Ready, Deps, Remaining
      <4>2. CASE Ready = {}
        BY <4>2, <2>2 DEF NextLayer, Remaining
      <4> QED BY <4>1, <4>2
    <3>2. layer'[n] = layer[n]
      BY <3>1, <1>2
    <3> QED BY <3>1, <3>2, <2>2, <1>2, <1>3
  <2> QED BY <2>1, <2>2
<1>9. DependenciesFirst'
  <2> SUFFICES ASSUME NEW n \in Nodes, layer'[n] # 0, ~Blocked(n),
                      NEW d \in Deps(n)
               PROVE  layer'[d] # 0 /\ layer'[d] < layer'[n]
    BY <1>6 DEF DependenciesFirst
  <2>1. d \in Nodes
    BY DepsInNodes
  <2>2. CASE n \notin NextLayer
    <3>1. layer'[n] = layer[n]
      BY <2>2, <1>2
    <3>2. layer[d] # 0 /\ layer[d] < layer[n]
      BY <3>1 DEF LayersInv, DependenciesFirst
    <3>3. layer'[d] = layer[d]
      BY <3>2, <2>1, <1>2
    <3> QED BY <3>1, <3>2, <3>3
  <2>3. CASE n \in NextLayer
    <3>1. n \in Ready
      BY <2>3, <1>4, StuckIsBlocked DEF NextLayer
    <3>2. layer[d] # 0
      BY <3>1, <2>1 DEF Ready, Remaining
    <3>3. layer'[d] = layer[d]
      BY <3>2, <2>1, <1>2
    <3> QED BY <3>2, <3>3, <2>1, <2>3, <1>2, <1>3
  <2> QED BY <2>2, <2>3
<1>10. StillWaiting'
  <2> SUFFICES ASSUME NEW n \in Remaining \ NextLayer, ~Blocked(n)
               PROVE  \E d \in Deps(n) : layer'[d] \in {0, round'}
    BY <1>2, <1>4, <1>6 DEF StillWaiting
  <2>1. n \in Nodes /\ n \notin Ready
    BY <1>4, StuckIsBlocked DEF NextLayer
  <2>2. PICK d \in Deps(n) : d \in Remaining
    BY <2>1 DEF Ready
  <2>3. d \in Nodes /\ layer[d] = 0
    BY <2>2 DEF Remaining
  <2>4. layer'[d] \in {0, round'}
    BY <2>3, <1>2
  <2> QED BY <2>4
<1>11. NoNeedlessWait'
  <2> SUFFICES ASSUME NEW n \in Nodes, layer'[n] > 1, ~Blocked(n)
               PROVE  \E d \in Deps(n) : layer'[d] = layer'[n] - 1
    BY <1>6 DEF NoNeedlessWait
  <2>1. CASE n \notin NextLayer
    <3>1. layer'[n] = layer[n]
      BY <2>1, <1>2
    <3>2. PICK d \in Deps(n) : layer[d] = layer[n] - 1
      BY <3>1, <1>5 DEF LayersInv, NoNeedlessWait
    <3>3. d \in Nodes /\ layer[d] # 0
      BY <3>1, <3>2, <1>3, DepsInNodes
    <3>4. layer'[d] = layer[d]
      BY <3>3, <1>2
    <3> QED BY <3>1, <3>2, <3>4
  <2>2. CASE n \in NextLayer
    <3>1. n \in Ready /\ n \in Remaining
      BY <2>2, <1>4, StuckIsBlocked DEF NextLayer
    <3>2. layer'[n] = round + 1 /\ round > 0
      BY <2>2, <1>2, <1>3
    <3>3. PICK d \in Deps(n) : layer[d] \in {0, round}
      BY <3>1, <3>2, <1>5 DEF LayersInv, StillWaiting
    <3>4. d \in Nodes /\ layer[d] # 0
      BY <3>1, <3>3, DepsInNodes DEF Ready, Remaining
    <3>5. layer'[d] = round
      BY <3>3, <3>4, <1>2
    <3> QED BY <3>2, <3>5, <1>3
  <2> QED BY <2>1, <2>2
<1> QED BY <1>7, <1>8, <1>9, <1>10, <1>11 DEF LayersInv

LEMMA LegacyKeeps == LayersInv /\ LegacyTiers => LayersInv'
<1> SUFFICES ASSUME LayersInv, LegacyTiers PROVE LayersInv'
  OBVIOUS
<1> USE ConstantsAssumption
<1>1. /\ depends_on' = depends_on /\ round' = 3 /\ ~HasDependencies
      /\ \A n \in Nodes : layer'[n] = CASE n = Researcher -> 1
                                        [] n = Critic     -> 3
                                        [] OTHER          -> 2
  BY DEF LegacyTiers
<1>2. /\ \A n \in Nodes \ {Critic} : layer'[n] \in {1, 2}
      /\ Critic \in Nodes => layer'[Critic] = 3
  BY <1>1
<1>3. TypeOK'
  <2>1. layer' \in [Nodes -> Nat]
    BY <1>1 DEF LegacyTiers
  <2>2. \A n \in Nodes : layer'[n] <= round'
    BY <1>1, <1>2
  <2> QED BY <2>1, <2>2, <1>1 DEF LayersInv, TypeOK
<1>4. CriticReviewsAll'
  BY <1>2 DEF CriticReviewsAll
<1>5. \A n \in Nodes : Deps(n)' = IF n = Critic THEN Nodes \ {Critic} ELSE {}
  BY <1>1 DEF HasDependencies, Deps
<1>6. DependenciesFirst'
  BY <1>2, <1>5 DEF DependenciesFirst
<1>7. ~HasDependencies'
  BY <1>1 DEF HasDependencies
<1> QED BY <1>3, <1>4, <1>6, <1>7 DEF LayersInv, StillWaiting, NoNeedlessWait

LEMMA LayersStutter == LayersInv /\ UNCHANGED vars => LayersInv'
<1> SUFFICES ASSUME LayersInv, UNCHANGED vars PROVE LayersInv'
  OBVIOUS
<1>1. depends_on' = depends_on /\ layer' = layer /\ round' = round
  BY DEF vars
<1> QED BY <1>1 DEF LayersInv, TypeOK, CriticReviewsAll, DependenciesFirst,
          StillWaiting, NoNeedlessWait, HasDependencies, Remaining, Blocked,
          Deps

\* The invariant of the loop.
THEOREM LayersInvariant == Spec => []LayersInv
<1>1. LayersInv /\ [Next]_vars => LayersInv'
  BY RoundKeeps, LegacyKeeps, LayersStutter DEF Next, Returned
<1> QED BY LayersInitially, <1>1, PTL DEF Spec

\* Layers are numbers up to the round reached.
THEOREM LayersTypeCorrect == Spec => []TypeOK
<1>1. LayersInv => TypeOK
  BY DEF LayersInv
<1> QED BY LayersInvariant, <1>1, PTL

\* The critic reviews last, whatever the planner or the user wrote.
THEOREM CriticLast == Spec => []CriticReviewsAll
<1>1. LayersInv => CriticReviewsAll
  BY DEF LayersInv
<1> QED BY LayersInvariant, <1>1, PTL

\* An agent that no cycle concerns runs after all it depends on.
THEOREM Ordered == Spec => []DependenciesFirst
<1>1. LayersInv => DependenciesFirst
  BY DEF LayersInv
<1> QED BY LayersInvariant, <1>1, PTL

\* No agent runs in a later layer than its dependencies make it.
THEOREM Parallel == Spec => []NoNeedlessWait
<1>1. LayersInv => NoNeedlessWait
  BY DEF LayersInv
<1> QED BY LayersInvariant, <1>1, PTL

\* What layered_plan promises of a plan, cycles or not.
THEOREM LayersHold == Spec => []WellLayered
<1>1. CriticReviewsAll /\ DependenciesFirst /\ NoNeedlessWait => WellLayered
  BY DEF WellLayered
<1> QED BY CriticLast, Ordered, Parallel, <1>1, PTL

\* Every round of the loop places an agent, so on a finite plan it ends.
THEOREM Progress == Spec => EveryRoundPlaces
<1>1. LayersInv /\ Next => UNCHANGED vars \/ \E n \in Remaining : layer'[n] # 0
  <2> SUFFICES ASSUME LayersInv, Round \/ LegacyTiers
               PROVE  \E n \in Remaining : layer'[n] # 0
    BY DEF Next, Returned
  <2>1. TypeOK
    BY DEF LayersInv
  <2>2. CASE Round
    <3>1. PICK n \in Remaining : n \in NextLayer
      BY <2>2, NextLayerRemains DEF Round, NextLayer
    <3>2. layer'[n] = round + 1
      BY <3>1, <2>1, <2>2, RoundPlaces
    <3>3. round + 1 # 0
      BY <2>1 DEF TypeOK
    <3> QED BY <3>1, <3>2, <3>3
  <2>3. CASE LegacyTiers
    <3>1. PICK n \in Remaining : TRUE
      BY <2>3 DEF LegacyTiers
    <3>2. layer'[n] \in {1, 2, 3}
      BY <3>1, <2>3 DEF LegacyTiers, Remaining
    <3> QED BY <3>1, <3>2
  <2> QED BY <2>2, <2>3
<1>2. LayersInv /\ [Next]_vars => [\E n \in Remaining : layer'[n] # 0]_vars
  BY <1>1
<1> QED BY LayersInvariant, <1>2, PTL DEF Spec, EveryRoundPlaces

----------------------------------------------------------------------------
(***************************************************************************)
(* The memories.  The writer that holds the lock has worked out its copy   *)
(* from the file as it is now, because nobody else can have written since; *)
(* and nobody else is on the way to write.                                 *)
(***************************************************************************)
MemoryInv ==
  /\ DOMAIN intent = Workers /\ DOMAIN draft = Workers
  /\ holder = {w \in Workers : intent[w] # M!None}
  /\ \A w, v \in holder : w = v
  /\ \A w \in holder : draft[w] = M!Result(intent[w], memories)
  /\ memories = ideal

LEMMA MemoryInitially == M!Init => MemoryInv
  BY DEF M!Init, MemoryInv

LEMMA MemoryPreserved == MemoryInv /\ [M!Next]_(M!vars) => MemoryInv'
<1> SUFFICES ASSUME MemoryInv, [M!Next]_(M!vars) PROVE MemoryInv'
  OBVIOUS
<1>1. ASSUME NEW w \in Workers, M!Begin(w) PROVE MemoryInv'
  <2>0. holder = {} /\ intent[w] = M!None /\ UNCHANGED <<memories, ideal>>
    BY <1>1 DEF M!Begin, M!LockFree
  <2>1. PICK i \in M!Intents :
          /\ intent' = [intent EXCEPT ![w] = i]
          /\ draft' = [draft EXCEPT ![w] = M!Result(i, memories)]
    BY <1>1 DEF M!Begin
  <2>2. i # M!None
    BY DEF M!Intents, M!None
  <2>3. holder' = {w}
    BY <1>1, <2>0 DEF M!Begin
  <2>4. \A v \in Workers : intent'[v] # M!None <=> v = w
    BY <2>0, <2>1, <2>2 DEF MemoryInv
  <2> QED
    BY <2>0, <2>1, <2>3, <2>4 DEF MemoryInv
<1>2. ASSUME NEW w \in Workers, M!Save(w) PROVE MemoryInv'
  <2>1. /\ intent[w] # M!None /\ memories' = draft[w] /\ ideal' = M!Result(intent[w], ideal)
        /\ intent' = [intent EXCEPT ![w] = M!None] /\ draft' = [draft EXCEPT ![w] = {}]
        /\ holder' = holder \ {w}
    BY <1>2 DEF M!Save
  <2>2. holder = {w} /\ draft[w] = M!Result(intent[w], memories)
    BY <2>1 DEF MemoryInv
  <2>3. \A v \in Workers : intent'[v] = M!None
    BY <2>1, <2>2 DEF MemoryInv
  <2> QED
    BY <2>1, <2>2, <2>3 DEF MemoryInv
<1>3. ASSUME NEW w \in Workers, M!Crash(w) PROVE MemoryInv'
  <2>1. /\ intent[w] # M!None /\ UNCHANGED <<memories, ideal>>
        /\ intent' = [intent EXCEPT ![w] = M!None] /\ draft' = [draft EXCEPT ![w] = {}]
        /\ holder' = holder \ {w}
    BY <1>3 DEF M!Crash
  <2>2. holder = {w}
    BY <2>1 DEF MemoryInv
  <2>3. \A v \in Workers : intent'[v] = M!None
    BY <2>1, <2>2 DEF MemoryInv
  <2> QED
    BY <2>1, <2>2, <2>3 DEF MemoryInv
<1>4. CASE UNCHANGED M!vars
  BY <1>4 DEF M!vars, MemoryInv
<1> QED
  BY <1>1, <1>2, <1>3, <1>4 DEF M!Next

(***************************************************************************)
(* Whatever processes write the memories at the same time, and wherever    *)
(* one of them stops: the file is what the finished operations make of it, *)
(* one after the other.                                                    *)
(***************************************************************************)
THEOREM NoUpdateIsLost == M!Spec => []NoLostUpdate
<1>1. MemoryInv => NoLostUpdate
  BY DEF MemoryInv, NoLostUpdate, M!NoLostUpdate
<1> QED
  BY MemoryInitially, MemoryPreserved, <1>1, PTL DEF M!Spec

(***************************************************************************)
(* The files.  What has stayed since a search began is a file and was      *)
(* listed; and while the files are read a second time, what has not been   *)
(* read yet is still to be read.                                           *)
(***************************************************************************)
Found(t) ==
  /\ stays[t] \subseteq files /\ stays[t] \subseteq listed[t]
  /\ step[t] = "rescan" => stays[t] \subseteq hits[t] \union todo[t]

FilesInv ==
  /\ DOMAIN step = G!Users /\ DOMAIN todo = G!Users
  /\ DOMAIN listed = Workers /\ DOMAIN hits = Workers /\ DOMAIN stays = Workers
  /\ \A t \in Workers : Found(t)

LEMMA FilesInitially == G!Init => FilesInv
  BY DEF G!Init, G!Users, FilesInv, Found

\* What an indexing step of any thread leaves alone.
LEMMA IndexingFindsTheSame ==
  ASSUME FilesInv, NEW t \in G!Users, G!Indexing(t)
  PROVE  FilesInv'
<1>1. /\ UNCHANGED <<files, listed, hits, stays>>
      /\ DOMAIN step' = G!Users /\ DOMAIN todo' = G!Users
      /\ \A u \in G!Users : u # t => step'[u] = step[u] /\ todo'[u] = todo[u]
      /\ step'[t] # "rescan"
  <2>1. CASE G!Visit(t)
    BY <2>1 DEF FilesInv, G!Visit, G!Goto
  <2>2. CASE G!Check(t)
    BY <2>2 DEF FilesInv, G!Check, G!Goto, G!Fails
  <2>3. CASE G!ClearRows(t)
    BY <2>3 DEF FilesInv, G!ClearRows, G!Goto, G!Fails
  <2>4. CASE G!InsertRows(t)
    BY <2>4 DEF FilesInv, G!InsertRows, G!Goto, G!Fails
  <2>5. CASE G!PassEnds(t)
    BY <2>5 DEF FilesInv, G!PassEnds, G!Goto
  <2> QED
    BY <2>1, <2>2, <2>3, <2>4, <2>5 DEF G!Indexing
<1> QED
  BY <1>1 DEF FilesInv, Found, G!Users

LEMMA SearchingFindsMore ==
  ASSUME FilesInv, NEW t \in Workers, G!Search(t) \/ G!Searching(t)
  PROVE  FilesInv'
<1>0. t \in G!Users
  BY DEF G!Users
<1>1. CASE G!Search(t)
  BY <1>0, <1>1 DEF FilesInv, Found, G!Search, G!Starts, G!Goto
<1>2. CASE G!Query(t)
  BY <1>0, <1>2 DEF FilesInv, Found, G!Query, G!Goto, G!Fails
<1>3. CASE G!Rescan(t)
  <2>1. PICK c \in todo[t] :
          /\ todo' = [todo EXCEPT ![t] = @ \ {c}]
          /\ hits' = [hits EXCEPT ![t] = IF G!Readable(c) THEN @ \union {c} ELSE @]
    BY <1>3 DEF G!Rescan
  <2>2. stays[t] \subseteq hits'[t] \union todo'[t]
    <3>1. stays[t] \subseteq hits[t] \union todo[t] /\ stays[t] \subseteq files
      BY <1>3 DEF FilesInv, Found, G!Rescan
    <3>2. c \in stays[t] => G!Readable(c)
      BY <3>1 DEF G!Readable
    <3> QED
      BY <1>0, <2>1, <3>1, <3>2 DEF FilesInv
  <2> QED
    BY <1>0, <1>3, <2>1, <2>2 DEF FilesInv, Found, G!Rescan
<1>4. CASE G!Answer(t)
  BY <1>0, <1>4 DEF FilesInv, Found, G!Answer, G!Goto
<1> QED
  BY <1>1, <1>2, <1>3, <1>4 DEF G!Searching

LEMMA FilesPreserved == FilesInv /\ [G!Next]_(G!ragVars) => FilesInv'
<1> SUFFICES ASSUME FilesInv, [G!Next]_(G!ragVars) PROVE FilesInv'
  OBVIOUS
<1>0. Loop \in G!Users /\ Loop \notin Workers
  BY ServicesAssumption DEF G!Users
<1>1. ASSUME NEW t \in G!Users, G!Indexing(t) PROVE FilesInv'
  BY <1>1, IndexingFindsTheSame
<1>2. ASSUME NEW t \in Workers, G!Search(t) \/ G!Searching(t) PROVE FilesInv'
  BY <1>2, SearchingFindsMore
<1>3. ASSUME NEW c \in G!Copy, G!Upload(c) PROVE FilesInv'
  BY <1>0, <1>3 DEF FilesInv, Found, G!Upload, G!Starts, G!Goto
<1>4. ASSUME NEW c \in G!Copy, G!Expire(c) PROVE FilesInv'
  BY <1>4 DEF FilesInv, Found, G!Expire, G!Removed
<1>5. ASSUME NEW p \in Projects, G!DropRows(p) PROVE FilesInv'
  BY <1>0, <1>5 DEF FilesInv, Found, G!DropRows
<1>6. CASE G!RemoveTree
  BY <1>0, <1>6 DEF FilesInv, Found, G!RemoveTree, G!Removed, G!Goto
<1>7. CASE G!Rebuild
  BY <1>0, <1>7 DEF FilesInv, Found, G!Rebuild, G!Starts, G!Goto
<1>8. CASE UNCHANGED G!ragVars
  BY <1>8 DEF G!ragVars, FilesInv, Found
<1> QED
  BY <1>1, <1>2, <1>3, <1>4, <1>5, <1>6, <1>7, <1>8 DEF G!Next

(***************************************************************************)
(* Whatever uploads, deletions, rebuilds and other searches do to the      *)
(* index, and whichever of its statements fail: a search finds every file  *)
(* that is there from its start to its end.  No fairness is needed.        *)
(***************************************************************************)
THEOREM SearchFinds == G!Init /\ [][G!Next]_(G!ragVars) => []SearchFindsWhatStays
<1>1. FilesInv => SearchFindsWhatStays
  BY DEF FilesInv, Found, SearchFindsWhatStays, G!SearchFindsWhatStays
<1> QED
  BY FilesInitially, FilesPreserved, <1>1, PTL

(***************************************************************************)
(* The semantic cache.  The ids and the answers of rows are numbers of     *)
(* answers, and the number says for which prompt and scope the row is: so  *)
(* a request that comes back with an id it read before can only meet a row *)
(* of its own prompt, or none.                                             *)
(***************************************************************************)
Asking == [prompt : Prompts, scope : Scopes]
Row == [id : Nat, prompt : Prompts, scope : Scopes, updated_at : Nat, answer : Nat]

WrittenFor(n, q) ==
  n \in 1 .. Len(answers) /\ answers[n].prompt = q.prompt /\ answers[n].scope = q.scope

RowInv(r) ==
  r \in Row /\ WrittenFor(r.id, r) /\ WrittenFor(r.answer, r) /\ r.answer \notin cleared

RequestInv(w) ==
  /\ query[w] \in S!Queries /\ stamp[w] \in Nat
  /\ pc[w] = "hit" => /\ WrittenFor(picked[w].answer, picked[w])
                      /\ picked[w].scope = query[w].scope
                      /\ query[w].exact_only => picked[w].prompt = query[w].prompt
  /\ pc[w] = "writing" => cache_id[w] = 0 \/ WrittenFor(cache_id[w], query[w])

CacheType ==
  /\ answers \in Seq(Asking) /\ now \in Nat
  /\ DOMAIN pc = Workers /\ DOMAIN query = Workers /\ DOMAIN picked = Workers
  /\ DOMAIN cache_id = Workers /\ DOMAIN stamp = Workers

CacheInv ==
  /\ CacheType
  /\ cleared \subseteq 1 .. Len(answers)
  /\ \A r \in rows : RowInv(r)
  /\ \A w \in Workers : RequestInv(w)

LEMMA SomeQuery == S!NoQuery \in S!Queries
<1>1. PICK a \in Asked : TRUE
  BY ServicesAssumption
<1>2. PICK p \in Prompts, s \in Scopes : a = <<p, s>>
  BY ServicesAssumption
<1> DEFINE q == [prompt |-> p, scope |-> s, exact_only |-> FALSE]
<1>3. q \in S!Queries /\ ~q.exact_only
  BY <1>1, <1>2 DEF S!Queries
<1> HIDE DEF q
<1> QED
  BY <1>3 DEF S!NoQuery

LEMMA CacheInitially == S!Init => CacheInv
<1> SUFFICES ASSUME S!Init PROVE CacheInv
  OBVIOUS
<1>1. CacheType
  BY DEF S!Init, CacheType
<1>2. \A w \in Workers : RequestInv(w)
  BY SomeQuery DEF S!Init, RequestInv
<1> QED
  BY <1>1, <1>2 DEF S!Init, CacheInv

\* A request moves on alone: the rows and the answers are as before.
LEMMA RequestMovesOn ==
  ASSUME CacheInv, NEW w \in Workers,
         UNCHANGED <<rows, answers, cleared, now>>, CacheType', RequestInv(w)',
         \A v \in Workers : v # w => /\ pc'[v] = pc[v] /\ query'[v] = query[v]
                                     /\ picked'[v] = picked[v] /\ stamp'[v] = stamp[v]
                                     /\ cache_id'[v] = cache_id[v]
  PROVE  CacheInv'
<1>1. \A r \in rows : RowInv(r)'
  BY DEF CacheInv, RowInv, WrittenFor
<1>2. ASSUME NEW v \in Workers, v # w PROVE RequestInv(v)'
  BY <1>2 DEF CacheInv, RequestInv, WrittenFor
<1> QED
  BY <1>1, <1>2 DEF CacheInv

\* The rows are kept or updated in time alone.
LEMMA RowsKept ==
  ASSUME CacheInv, UNCHANGED <<answers, cleared>>, now' \in Nat,
         NEW r \in rows, NEW d \in Nat
  PROVE  RowInv(r)' /\ RowInv([r EXCEPT !.updated_at = d])'
<1>1. RowInv(r)'
  BY DEF CacheInv, RowInv, WrittenFor
<1> DEFINE o == [r EXCEPT !.updated_at = d]
<1>2. r \in Row
  BY DEF CacheInv, RowInv
<1>3. o \in Row /\ o.id = r.id /\ o.prompt = r.prompt /\ o.scope = r.scope /\ o.answer = r.answer
  BY <1>2 DEF Row
<1> HIDE DEF o
<1>4. RowInv(o)'
  BY <1>1, <1>3 DEF RowInv, WrittenFor
<1> QED
  BY <1>1, <1>4 DEF o

LEMMA HitIsOfItsScope ==
  ASSUME CacheInv, NEW w \in Workers, S!Hit(w) PROVE CacheInv'
<1>0. PICK q \in S!Queries : /\ query' = [query EXCEPT ![w] = q]
                             /\ \E r \in S!Best(q) : picked' = [picked EXCEPT ![w] = r]
  BY DEF S!Hit
<1>1. PICK r \in S!Best(q) : query' = [query EXCEPT ![w] = q] /\ picked' = [picked EXCEPT ![w] = r]
  BY <1>0
<1>2. /\ pc' = [pc EXCEPT ![w] = "hit"]
      /\ UNCHANGED <<rows, now, cache_id, stamp, answers, cleared>>
  BY DEF S!Hit
<1>3. r \in rows /\ r.scope = q.scope /\ (q.exact_only => r.prompt = q.prompt)
  BY <1>1 DEF S!Best, S!Newest, S!Candidates
<1>4. CacheType'
  BY <1>1, <1>2 DEF CacheInv, CacheType
<1>5. query'[w] = q /\ picked'[w] = r /\ pc'[w] = "hit" /\ stamp'[w] = stamp[w]
  BY <1>1, <1>2 DEF CacheInv, CacheType
<1>6. RequestInv(w)'
  BY <1>2, <1>3, <1>5 DEF CacheInv, RowInv, RequestInv, WrittenFor
<1> QED
  BY <1>1, <1>2, <1>4, <1>6, RequestMovesOn DEF CacheInv, CacheType

LEMMA MissHasNoId ==
  ASSUME CacheInv, NEW w \in Workers, S!Miss(w) PROVE CacheInv'
<1>1. PICK q \in S!Queries : query' = [query EXCEPT ![w] = [q EXCEPT !.exact_only = FALSE]]
  BY DEF S!Miss
<1>2. /\ pc' = [pc EXCEPT ![w] = "asked"]
      /\ UNCHANGED <<rows, now, picked, cache_id, stamp, answers, cleared>>
  BY DEF S!Miss
<1>3. [q EXCEPT !.exact_only = FALSE] \in S!Queries
  BY DEF S!Queries
<1>4. CacheType'
  BY <1>1, <1>2 DEF CacheInv, CacheType
<1>5. RequestInv(w)'
  BY <1>1, <1>2, <1>3 DEF CacheInv, CacheType, RequestInv
<1> QED
  BY <1>1, <1>2, <1>4, <1>5, RequestMovesOn DEF CacheInv, CacheType

LEMMA TouchKeepsRows ==
  ASSUME CacheInv, NEW w \in Workers, S!Touch(w) PROVE CacheInv'
<1>1. /\ rows' = {IF r.id = picked[w].id THEN [r EXCEPT !.updated_at = now] ELSE r : r \in rows}
      /\ pc' = [pc EXCEPT ![w] = "idle"] /\ query' = [query EXCEPT ![w] = S!NoQuery]
      /\ picked' = [picked EXCEPT ![w] = S!NoRow]
      /\ UNCHANGED <<now, cache_id, stamp, answers, cleared>>
  BY DEF S!Touch
<1>2. CacheType'
  BY <1>1 DEF CacheInv, CacheType
<1>3. \A r \in rows' : RowInv(r)'
  BY <1>1, <1>2, RowsKept DEF CacheInv, CacheType
<1>4. \A v \in Workers : RequestInv(v)'
  BY <1>1, SomeQuery DEF CacheInv, CacheType, RequestInv, WrittenFor
<1> QED
  BY <1>1, <1>2, <1>3, <1>4 DEF CacheInv

LEMMA IdIsOfItsPrompt ==
  ASSUME CacheInv, NEW w \in Workers, S!LookForId(w) PROVE CacheInv'
<1>1. /\ stamp' = [stamp EXCEPT ![w] = now] /\ pc' = [pc EXCEPT ![w] = "writing"]
      /\ UNCHANGED <<rows, now, query, picked, answers, cleared>>
  BY DEF S!LookForId
<1>2. PICK n : /\ cache_id' = [cache_id EXCEPT ![w] = n]
               /\ n = 0 \/ \E r \in S!Existing(query[w]) : n = r.id
  BY DEF S!LookForId
<1>3. n = 0 \/ WrittenFor(n, query[w])
  BY <1>2 DEF CacheInv, RowInv, WrittenFor, S!Existing, S!Newest
<1>4. CacheType'
  BY <1>1, <1>2 DEF CacheInv, CacheType
<1>5. RequestInv(w)'
  BY <1>1, <1>2, <1>3 DEF CacheInv, CacheType, RequestInv, WrittenFor
<1> QED
  BY <1>1, <1>2, <1>4, <1>5, RequestMovesOn DEF CacheInv, CacheType

LEMMA StoreIsOfItsPrompt ==
  ASSUME CacheInv, NEW w \in Workers, S!Write(w) PROVE CacheInv'
<1>1. PICK n, id, me, at, a :
        /\ n = Len(answers) + 1 /\ id = IF cache_id[w] = 0 THEN n ELSE cache_id[w]
        /\ me = query[w] /\ at = stamp[w] /\ a = [prompt |-> me.prompt, scope |-> me.scope]
  OBVIOUS
<1>2. /\ pc[w] = "writing" /\ answers' = Append(answers, a)
      /\ rows' \subseteq S!Upserted(id, w)
      /\ pc' = [pc EXCEPT ![w] = "idle"] /\ query' = [query EXCEPT ![w] = S!NoQuery]
      /\ cache_id' = [cache_id EXCEPT ![w] = 0] /\ stamp' = [stamp EXCEPT ![w] = 0]
      /\ UNCHANGED <<now, picked, cleared>>
  BY <1>1 DEF S!Write, S!NewAnswer, S!Trimmed
<1>3. me \in S!Queries /\ at \in Nat /\ answers \in Seq(Asking)
  BY <1>1 DEF CacheInv, CacheType, RequestInv
<1>4. a \in Asking /\ a.prompt = me.prompt /\ a.scope = me.scope
  BY <1>1, <1>3 DEF S!Queries, Asking
<1>5. /\ answers' \in Seq(Asking) /\ n \in Nat \ {0} /\ Len(answers') = n /\ answers'[n] = a
      /\ \A m \in 1 .. Len(answers) : answers'[m] = answers[m]
  BY <1>1, <1>2, <1>3, <1>4
<1>6. \A m, q : WrittenFor(m, q) => WrittenFor(m, q)'
  <2> SUFFICES ASSUME NEW m, NEW q, WrittenFor(m, q) PROVE WrittenFor(m, q)'
    OBVIOUS
  <2> QED
    BY <1>1, <1>3, <1>5 DEF WrittenFor
<1>7. WrittenFor(n, me)'
  BY <1>4, <1>5 DEF WrittenFor
<1>8. CacheType'
  BY <1>2, <1>5 DEF CacheInv, CacheType
<1>9. cleared' \subseteq 1 .. Len(answers') /\ n \notin cleared'
  BY <1>1, <1>2, <1>3, <1>5 DEF CacheInv
<1>10. id = n \/ WrittenFor(id, me)
  BY <1>1, <1>2 DEF CacheInv, RequestInv
<1>11. id \in Nat /\ WrittenFor(id, me)'
  <2>1. WrittenFor(id, me)'
    BY <1>6, <1>7, <1>10
  <2> QED
    BY <1>3, <1>5, <1>10, <2>1 DEF WrittenFor
<1>12. ASSUME NEW r \in rows PROVE RowInv(r)'
  BY <1>2, <1>6 DEF CacheInv, RowInv
<1>13. ASSUME NEW r \in rows, r.id = id
       PROVE  RowInv([r EXCEPT !.updated_at = at, !.answer = n])'
  <2>1. PICK o : o = [r EXCEPT !.updated_at = at, !.answer = n]
    OBVIOUS
  <2>2. r \in Row /\ WrittenFor(r.id, r)
    BY DEF CacheInv, RowInv
  <2>3. o \in Row /\ o.id = r.id /\ o.prompt = r.prompt /\ o.scope = r.scope /\ o.answer = n
    BY <1>3, <1>5, <2>1, <2>2 DEF Row
  <2>4. WrittenFor(r.id, r)' /\ r.id \in 1 .. Len(answers)'
    BY <1>6, <2>2 DEF WrittenFor
  <2>5. r.prompt = me.prompt /\ r.scope = me.scope
    BY <1>11, <1>13, <2>4 DEF WrittenFor
  <2>6. WrittenFor(o.id, o)' /\ WrittenFor(o.answer, o)'
    BY <1>7, <2>3, <2>4, <2>5 DEF WrittenFor
  <2> QED
    BY <1>9, <2>1, <2>3, <2>6 DEF RowInv
<1>14. ASSUME NEW o, o = [id |-> id, prompt |-> me.prompt, scope |-> me.scope,
                          updated_at |-> at, answer |-> n]
       PROVE  RowInv(o)'
  <2>1. o \in Row /\ o.id = id /\ o.prompt = me.prompt /\ o.scope = me.scope /\ o.answer = n
    BY <1>3, <1>5, <1>11, <1>14 DEF Row, S!Queries
  <2>2. WrittenFor(o.id, o)' /\ WrittenFor(o.answer, o)'
    BY <1>7, <1>11, <2>1 DEF WrittenFor
  <2> QED
    BY <1>9, <2>1, <2>2 DEF RowInv
<1>15. ASSUME NEW o \in S!Upserted(id, w) PROVE RowInv(o)'
  BY <1>1, <1>12, <1>13, <1>14 DEF S!Upserted, S!NewAnswer
<1>16. RequestInv(w)'
  BY <1>2, <1>8, SomeQuery DEF CacheInv, CacheType, RequestInv
<1>17. ASSUME NEW v \in Workers, v # w PROVE RequestInv(v)'
  <2>1. PICK p, q, c : p = picked[v] /\ q = query[v] /\ c = cache_id[v]
    OBVIOUS
  <2>2. pc'[v] = pc[v] /\ query'[v] = q /\ cache_id'[v] = c /\ stamp'[v] = stamp[v] /\ picked'[v] = p
    BY <1>2, <1>17, <2>1 DEF CacheInv, CacheType
  <2>3. pc[v] = "hit" => WrittenFor(p.answer, p)'
    BY <1>6, <2>1 DEF CacheInv, RequestInv
  <2>4. pc[v] = "writing" => c = 0 \/ WrittenFor(c, q)'
    BY <1>6, <2>1 DEF CacheInv, RequestInv
  <2> QED
    BY <2>1, <2>2, <2>3, <2>4 DEF CacheInv, RequestInv, WrittenFor
<1> QED
  BY <1>2, <1>8, <1>9, <1>15, <1>16, <1>17 DEF CacheInv

LEMMA CachePreserved == CacheInv /\ [S!Next]_(S!vars) => CacheInv'
<1> SUFFICES ASSUME CacheInv, [S!Next]_(S!vars) PROVE CacheInv'
  OBVIOUS
<1>1. ASSUME NEW w \in Workers, S!Hit(w) PROVE CacheInv'
  BY <1>1, HitIsOfItsScope
<1>2. ASSUME NEW w \in Workers, S!Miss(w) PROVE CacheInv'
  BY <1>2, MissHasNoId
<1>3. ASSUME NEW w \in Workers, S!Touch(w) PROVE CacheInv'
  BY <1>3, TouchKeepsRows
<1>4. ASSUME NEW w \in Workers, S!NotStored(w) PROVE CacheInv'
  <2>1. RequestInv(w)' /\ CacheType'
    BY <1>4, SomeQuery DEF S!NotStored, CacheInv, CacheType, RequestInv
  <2> QED
    BY <1>4, <2>1, RequestMovesOn DEF S!NotStored, CacheInv, CacheType
<1>5. ASSUME NEW w \in Workers, S!LookForId(w) PROVE CacheInv'
  BY <1>5, IdIsOfItsPrompt
<1>6. ASSUME NEW w \in Workers, S!Write(w) PROVE CacheInv'
  BY <1>6, StoreIsOfItsPrompt
<1>7. CASE S!Clear
  <2>1. cleared' \subseteq 1 .. Len(answers')
    BY <1>7 DEF S!Clear, CacheInv, RowInv, WrittenFor
  <2> QED
    BY <1>7, <2>1 DEF S!Clear, CacheInv, CacheType, RequestInv, WrittenFor
<1>8. CASE S!Tick
  <2>1. now' \in Nat /\ UNCHANGED <<rows, pc, query, picked, cache_id, stamp, answers, cleared>>
    BY <1>8 DEF S!Tick, CacheInv, CacheType
  <2> QED
    BY <2>1 DEF CacheInv, CacheType, RowInv, RequestInv, WrittenFor
<1>9. CASE UNCHANGED S!vars
  BY <1>9 DEF S!vars, CacheInv, CacheType, RowInv, RequestInv, WrittenFor
<1> QED
  BY <1>1, <1>2, <1>3, <1>4, <1>5, <1>6, <1>7, <1>8, <1>9 DEF S!Next

(***************************************************************************)
(* However lookups, stores, expiry and clearings come between one another: *)
(* no request is served what was written for another scope, nor one with   *)
(* attachments what was written for another prompt, and nothing that was   *)
(* cleared comes back.                                                     *)
(***************************************************************************)
THEOREM AnswersStay == S!Spec => []AnswersStayInScope
<1>1. CacheInv => AnswersStayInScope
  BY DEF CacheInv, RowInv, RequestInv, WrittenFor, AnswersStayInScope, S!AnswersStayInScope
<1> QED
  BY CacheInitially, CachePreserved, <1>1, PTL DEF S!Spec

(***************************************************************************)
(* The reminders.  What the thread with the lock will write has everything *)
(* the file has and is not settled; a reminder somebody was told of, or is *)
(* about to be, is marked in the file and in every copy of it.             *)
(***************************************************************************)
Told(i) == announced[i] # 0 \/ \E t \in Workers : op[t] = "answer" /\ i \in due[t]

Known(i) == i \in R!Id /\ i <= created

\* A list of reminders that may be the next file.
Listed(L) ==
  /\ L \subseteq R!Reminder
  /\ \A r \in L : Known(r.id)
  /\ \A r, o \in L : r.id = o.id => r = o
  /\ \A r \in L : Told(r.id) => r.notified

DueInv(t) ==
  /\ \A i \in due[t] : Known(i) /\ announced[i] = 0
  /\ op[t] \notin {"due", "answer"} => due[t] = {}
  /\ \A u \in Workers : u # t => due[t] \intersect due[u] = {}

OwnerInv(t) ==
  /\ Listed(copy[t])
  /\ \A r \in copy[t] : /\ r.id \in due[t] => r.notified
                        /\ r.notified => r.id \in settled \union due[t]
  /\ R!IdsOf(reminders) \subseteq R!IdsOf(copy[t]) \union settled

FileKept ==
  /\ Listed(reminders)
  /\ \A r \in reminders : r.notified => r.id \in settled

OneOwner ==
  /\ DOMAIN op = Workers /\ DOMAIN copy = Workers /\ DOMAIN due = Workers
  /\ owner = {t \in Workers : op[t] \in {"create", "due", "delete"}}
  /\ \A t, u \in owner : t = u

Counted ==
  /\ created \in Nat /\ announced \in [R!Id -> Nat]
  /\ \A i \in R!Id : announced[i] <= 1 /\ (Told(i) => i <= created)

NoneLost ==
  \A i \in 1 .. created :
    \/ i \in R!IdsOf(reminders) \/ i \in settled
    \/ \E t \in Workers : op[t] = "create" /\ i \in R!IdsOf(copy[t])

RemindersInv ==
  /\ FileKept /\ OneOwner /\ Counted /\ NoneLost
  /\ \A t \in Workers : DueInv(t)
  /\ \A t \in owner : OwnerInv(t)

LEMMA RemindersInitially == R!Init => RemindersInv
<1> SUFFICES ASSUME R!Init PROVE RemindersInv
  OBVIOUS
<1>1. \A i \in R!Id : ~Told(i)
  BY DEF R!Init, Told
<1>2. FileKept /\ OneOwner /\ Counted /\ NoneLost
  BY <1>1 DEF R!Init, FileKept, OneOwner, Counted, NoneLost, Listed
<1> QED
  BY <1>2 DEF R!Init, RemindersInv, DueInv

\* The thread that takes the lock is the only one that has it; what the others
\* are about to show stays theirs.
LEMMA TakesAlone ==
  ASSUME OneOwner, NEW t \in Workers, NEW what \in {"create", "due", "delete"}, R!Take(t, what)
  PROVE  /\ op[t] = "idle" /\ owner = {} /\ owner' = {t} /\ op' = [op EXCEPT ![t] = what]
         /\ owner' = {u \in Workers : op'[u] \in {"create", "due", "delete"}}
  BY DEF OneOwner, R!Take, R!LockFree

\* A creation numbers its reminder anew, leaves out what was announced, and
\* cuts off on purpose.
LEMMA CreatePreserves ==
  ASSUME RemindersInv, NEW t \in Workers, R!Create(t) PROVE RemindersInv'
<1>1. /\ op[t] = "idle" /\ owner = {} /\ owner' = {t} /\ op' = [op EXCEPT ![t] = "create"]
      /\ owner' = {u \in Workers : op'[u] \in {"create", "due", "delete"}}
  BY TakesAlone DEF R!Create, RemindersInv
<1>2. PICK new, whole, cut :
        /\ new \in R!Reminder /\ new.id = created + 1 /\ ~new.notified
        /\ whole = {r \in reminders : ~r.notified} \union {new} /\ cut = R!Cut(whole)
        /\ copy' = [copy EXCEPT ![t] = cut]
        /\ settled' = settled \union (R!IdsOf(whole) \ R!IdsOf(cut))
  <2>1. PICK d \in 1 .. MaxDue :
          LET whole == {r \in reminders : ~r.notified} \union
                       {[id |-> created + 1, dueAt |-> d, notified |-> FALSE]}
          IN  /\ copy' = [copy EXCEPT ![t] = R!Cut(whole)]
              /\ settled' = settled \union (R!IdsOf(whole) \ R!IdsOf(R!Cut(whole)))
    BY DEF R!Create
  <2>2. created + 1 \in R!Id
    BY ServicesAssumption DEF R!Create, R!Id, RemindersInv, Counted
  <2> DEFINE n == [id |-> created + 1, dueAt |-> d, notified |-> FALSE]
  <2>3. n \in R!Reminder /\ n.id = created + 1 /\ ~n.notified
    BY <2>2 DEF R!Reminder
  <2> DEFINE w == {r \in reminders : ~r.notified} \union {n}
  <2> WITNESS n, w, R!Cut(w)
  <2> HIDE DEF n
  <2> QED
    BY <2>1, <2>3 DEF n
<1>3. /\ created' = created + 1 /\ created \in Nat
      /\ UNCHANGED <<reminders, date, due, announced>>
  BY DEF R!Create, RemindersInv, Counted
<1>4. cut \subseteq whole
  BY <1>2 DEF R!Cut
<1>5. \A i : Told(i)' <=> Told(i)
  BY <1>1, <1>3 DEF Told, RemindersInv, OneOwner
<1>6. \A i : Known(i) => Known(i)'
  BY <1>3 DEF Known, R!Id
<1>7. Known(new.id)' /\ ~Known(new.id)
  BY <1>2, <1>3 DEF Known, R!Id, R!Reminder
<1>8. \A i \in R!Id : Told(i) => i <= created
  BY DEF RemindersInv, Counted
<1>9. Listed(reminders)'
  BY <1>3, <1>5, <1>6 DEF RemindersInv, FileKept, Listed
<1>10. Listed(cut)'
  <2>1. \A r \in whole : r \in R!Reminder /\ Known(r.id)'
    BY <1>2, <1>6, <1>7 DEF RemindersInv, FileKept, Listed
  <2>2. \A r, o \in whole : r.id = o.id => r = o
    BY <1>2, <1>7 DEF RemindersInv, FileKept, Listed
  <2>3. \A r \in whole : ~Told(r.id)
    BY <1>2, <1>7, <1>8 DEF RemindersInv, FileKept, Listed, R!Reminder, Known
  <2> QED
    BY <1>4, <1>5, <2>1, <2>2, <2>3 DEF Listed
<1>11. \A r \in cut : ~r.notified
  BY <1>2, <1>4
<1>12. due[t] = {} /\ copy'[t] = cut /\ op'[t] = "create"
  BY <1>1, <1>2 DEF RemindersInv, DueInv, OneOwner
<1>13. OwnerInv(t)'
  <2>1. R!IdsOf(reminders) \subseteq R!IdsOf(cut) \union settled'
    BY <1>2 DEF RemindersInv, FileKept, R!IdsOf
  <2> QED
    BY <1>3, <1>10, <1>11, <1>12, <2>1 DEF OwnerInv
<1>14. OneOwner' /\ FileKept'
  BY <1>1, <1>2, <1>3, <1>9 DEF RemindersInv, OneOwner, FileKept
<1>15. Counted'
  <2>1. \A i \in R!Id : announced[i] <= 1 /\ (Told(i)' => i <= created + 1)
    BY <1>3, <1>5, <1>8 DEF RemindersInv, Counted, R!Id
  <2> QED
    BY <1>3, <2>1 DEF RemindersInv, Counted
<1>16. NoneLost'
  <2>1. ASSUME NEW i \in 1 .. created'
        PROVE  i \in R!IdsOf(reminders) \/ i \in settled' \/ i \in R!IdsOf(cut)
    <3>1. CASE i \in 1 .. created
      BY <1>1, <1>2, <3>1 DEF RemindersInv, NoneLost, OneOwner
    <3>2. CASE i = created + 1
      BY <1>2, <3>2 DEF R!IdsOf
    <3> QED
      BY <1>3, <2>1, <3>1, <3>2
  <2> QED
    BY <1>3, <1>12, <2>1 DEF NoneLost
<1>17. ASSUME NEW u \in Workers PROVE DueInv(u)'
  BY <1>1, <1>3, <1>6, <1>12 DEF RemindersInv, DueInv, OneOwner
<1> QED
  BY <1>1, <1>13, <1>14, <1>15, <1>16, <1>17 DEF RemindersInv

LEMMA DuePreserves ==
  ASSUME RemindersInv, NEW t \in Workers, R!Due(t) PROVE RemindersInv'
<1>1. /\ op[t] = "idle" /\ owner = {} /\ owner' = {t} /\ op' = [op EXCEPT ![t] = "due"]
      /\ owner' = {u \in Workers : op'[u] \in {"create", "due", "delete"}}
  BY TakesAlone DEF R!Due, RemindersInv
<1>2. PICK marked, fire :
        /\ marked = {IF R!Fires(r) THEN [r EXCEPT !.notified = TRUE] ELSE r : r \in reminders}
        /\ fire = {r.id : r \in {r \in reminders : R!Fires(r)}}
        /\ copy' = [copy EXCEPT ![t] = marked] /\ due' = [due EXCEPT ![t] = fire]
  BY DEF R!Due, R!IdsOf
<1>3. UNCHANGED <<reminders, created, announced, settled>>
  BY DEF R!Due
<1>4. /\ DOMAIN op = Workers /\ DOMAIN copy = Workers /\ DOMAIN due = Workers
      /\ Listed(reminders) /\ \A r \in reminders : r.notified => r.id \in settled
  BY DEF RemindersInv, OneOwner, FileKept
<1>5. \A i : Told(i)' <=> Told(i)
  BY <1>1, <1>2, <1>3, <1>4 DEF Told
<1>6. \A i : Known(i)' <=> Known(i)
  BY <1>3 DEF Known
<1>7. \A i \in fire : Known(i) /\ ~Told(i) /\ \E r \in reminders : r.id = i /\ R!Fires(r)
  BY <1>2, <1>4 DEF Listed, R!Fires
<1>8. ASSUME NEW r \in reminders, R!Fires(r), NEW o, o = [r EXCEPT !.notified = TRUE]
      PROVE  o \in R!Reminder /\ o.id = r.id /\ o.notified /\ o.id \in fire
  <2>1. r \in R!Reminder /\ r.id \in fire
    BY <1>2, <1>4, <1>8 DEF Listed
  <2> QED
    BY <1>8, <2>1 DEF R!Reminder
<1>9. ASSUME NEW o \in marked
      PROVE  \E r \in reminders : /\ o \in R!Reminder /\ o.id = r.id
                                  /\ (R!Fires(r) => o = [r EXCEPT !.notified = TRUE])
                                  /\ (R!Fires(r) => (o.notified /\ o.id \in fire))
                                  /\ (~R!Fires(r) => o = r)
  BY <1>2, <1>4, <1>8 DEF Listed
<1>10. \A o, p \in marked : o.id = p.id => o = p
  <2> SUFFICES ASSUME NEW o \in marked, NEW p \in marked, o.id = p.id PROVE o = p
    OBVIOUS
  <2>1. PICK r \in reminders : o.id = r.id /\ (R!Fires(r) => o = [r EXCEPT !.notified = TRUE])
                              /\ (~R!Fires(r) => o = r)
    BY <1>9
  <2>2. PICK v \in reminders : p.id = v.id /\ (R!Fires(v) => p = [v EXCEPT !.notified = TRUE])
                              /\ (~R!Fires(v) => p = v)
    BY <1>9
  <2>3. r = v
    BY <1>4, <2>1, <2>2 DEF Listed
  <2> QED
    BY <2>1, <2>2, <2>3
<1>11. Listed(marked)'
  <2>1. \A o \in marked : o \in R!Reminder /\ Known(o.id)
    BY <1>4, <1>9 DEF Listed
  <2>2. \A o \in marked : Told(o.id) => o.notified
    BY <1>4, <1>9 DEF Listed
  <2> QED
    BY <1>5, <1>6, <1>10, <2>1, <2>2 DEF Listed
<1>12. copy'[t] = marked /\ due'[t] = fire /\ op'[t] = "due"
  BY <1>1, <1>2, <1>4
<1>13. OwnerInv(t)'
  <2>1. \A o \in marked : o.id \in fire => o.notified
    <3> SUFFICES ASSUME NEW o \in marked, o.id \in fire PROVE o.notified
      OBVIOUS
    <3>1. PICK r \in reminders : r.id = o.id /\ R!Fires(r)
      BY <1>7
    <3>2. PICK v \in reminders : o.id = v.id /\ (R!Fires(v) => o.notified)
      BY <1>9
    <3>3. r = v
      BY <1>4, <3>1, <3>2 DEF Listed
    <3> QED
      BY <3>1, <3>2, <3>3
  <2>2. \A o \in marked : o.notified => o.id \in settled \union fire
    BY <1>4, <1>9
  <2>3. R!IdsOf(reminders) \subseteq R!IdsOf(marked)
    <3>1. ASSUME NEW r \in reminders PROVE \E o \in marked : o.id = r.id
      BY <1>2, <1>8
    <3> QED
      BY <3>1 DEF R!IdsOf
  <2> QED
    BY <1>3, <1>11, <1>12, <2>1, <2>2, <2>3 DEF OwnerInv
<1>14. FileKept' /\ OneOwner' /\ Counted'
  <2>1. Listed(reminders)'
    BY <1>3, <1>4, <1>5, <1>6 DEF Listed
  <2>2. FileKept'
    BY <1>3, <1>4, <2>1 DEF FileKept
  <2>3. OneOwner'
    BY <1>1, <1>2, <1>4 DEF OneOwner
  <2>4. Counted'
    BY <1>3, <1>5 DEF RemindersInv, Counted
  <2> QED
    BY <2>2, <2>3, <2>4
<1>15. NoneLost'
  <2>1. \A u \in Workers : op[u] # "create"
    BY <1>1 DEF RemindersInv, OneOwner
  <2> QED
    BY <1>3, <2>1 DEF RemindersInv, NoneLost
<1>16. ASSUME NEW u \in Workers, u # t PROVE fire \intersect due[u] = {}
  <2>1. op[u] = "answer" \/ due[u] = {}
    BY <1>1 DEF RemindersInv, OneOwner, DueInv
  <2> QED
    BY <1>7, <2>1 DEF Told
<1>17. ASSUME NEW u \in Workers PROVE DueInv(u)'
  <2>1. CASE u = t
    <3>1. \A i \in fire : Known(i)' /\ announced'[i] = 0
      BY <1>3, <1>6, <1>7 DEF Told
    <3>2. \A v \in Workers : v # t => due'[v] = due[v]
      BY <1>2, <1>4
    <3> QED
      BY <1>12, <1>16, <2>1, <3>1, <3>2 DEF DueInv
  <2>2. CASE u # t
    <3>1. /\ op'[u] = op[u] /\ due'[u] = due[u]
          /\ \A v \in Workers : due'[v] = IF v = t THEN fire ELSE due[v]
      BY <1>1, <1>2, <1>4, <2>2
    <3> QED
      BY <1>3, <1>6, <1>16, <2>2, <3>1 DEF RemindersInv, DueInv
  <2> QED
    BY <2>1, <2>2
<1> QED
  BY <1>1, <1>13, <1>14, <1>15, <1>17 DEF RemindersInv

LEMMA DeletePreserves ==
  ASSUME RemindersInv, NEW t \in Workers, R!Delete(t) PROVE RemindersInv'
<1>1. /\ op[t] = "idle" /\ owner = {} /\ owner' = {t} /\ op' = [op EXCEPT ![t] = "delete"]
      /\ owner' = {u \in Workers : op'[u] \in {"create", "due", "delete"}}
  BY TakesAlone DEF R!Delete, RemindersInv
<1>2. PICK r \in reminders : /\ copy' = [copy EXCEPT ![t] = reminders \ {r}]
                             /\ settled' = settled \union {r.id}
  BY DEF R!Delete
<1>3. UNCHANGED <<reminders, due, created, announced>>
  BY DEF R!Delete
<1>4. \A i : (Told(i)' <=> Told(i)) /\ (Known(i)' <=> Known(i))
  BY <1>1, <1>3 DEF Told, Known, RemindersInv, OneOwner
<1>5. FileKept' /\ OneOwner' /\ Counted' /\ Listed(reminders \ {r})'
  <2>1. FileKept' /\ Listed(reminders \ {r})'
    BY <1>2, <1>3, <1>4 DEF RemindersInv, FileKept, Listed
  <2>2. OneOwner'
    BY <1>1, <1>2, <1>3 DEF RemindersInv, OneOwner
  <2>3. Counted'
    BY <1>3, <1>4 DEF RemindersInv, Counted
  <2> QED
    BY <2>1, <2>2, <2>3
<1>6. due[t] = {} /\ copy'[t] = reminders \ {r} /\ op'[t] = "delete"
  BY <1>1, <1>2 DEF RemindersInv, DueInv, OneOwner
<1>7. OwnerInv(t)'
  <2>1. R!IdsOf(reminders) \subseteq R!IdsOf(reminders \ {r}) \union settled'
    BY <1>2 DEF R!IdsOf
  <2>2. \A o \in reminders : o.notified => o.id \in settled
    BY DEF RemindersInv, FileKept
  <2> QED
    BY <1>2, <1>3, <1>5, <1>6, <2>1, <2>2 DEF OwnerInv
<1>8. NoneLost'
  <2>1. \A u \in Workers : op[u] # "create"
    BY <1>1 DEF RemindersInv, OneOwner
  <2> QED
    BY <1>2, <1>3, <2>1 DEF RemindersInv, NoneLost
<1>9. ASSUME NEW u \in Workers PROVE DueInv(u)'
  BY <1>1, <1>3, <1>4, <1>6 DEF RemindersInv, DueInv, OneOwner
<1> QED
  BY <1>1, <1>5, <1>7, <1>8, <1>9 DEF RemindersInv

LEMMA WritePreserves ==
  ASSUME RemindersInv, NEW t \in Workers, R!Write(t) PROVE RemindersInv'
<1>1. /\ op[t] \in {"create", "due", "delete"} /\ reminders' = copy[t] /\ owner' = owner \ {t}
      /\ copy' = [copy EXCEPT ![t] = {}]
      /\ op' = [op EXCEPT ![t] = IF op[t] = "due" THEN "answer" ELSE "idle"]
      /\ settled' = settled \union due[t]
      /\ UNCHANGED <<date, due, created, announced>>
  BY DEF R!Write
<1>2. owner = {t} /\ OwnerInv(t) /\ DueInv(t)
  BY <1>1 DEF RemindersInv, OneOwner
<1>3. /\ DOMAIN op = Workers /\ op'[t] = IF op[t] = "due" THEN "answer" ELSE "idle"
      /\ \A u \in Workers : u # t => op'[u] = op[u] /\ op[u] \notin {"create", "due", "delete"}
  BY <1>1, <1>2 DEF RemindersInv, OneOwner
<1>4. \A i : Told(i)' <=> Told(i) \/ i \in due[t]
  BY <1>1, <1>2, <1>3 DEF Told, DueInv
<1>5. \A i : Known(i)' <=> Known(i)
  BY <1>1 DEF Known
<1>6. FileKept'
  BY <1>1, <1>2, <1>4, <1>5 DEF OwnerInv, FileKept, Listed
<1>7. OneOwner' /\ owner' = {}
  BY <1>1, <1>2, <1>3 DEF RemindersInv, OneOwner
<1>8. Counted'
  BY <1>1, <1>2, <1>4 DEF RemindersInv, Counted, DueInv, Known
<1>9. NoneLost'
  <2>1. R!IdsOf(reminders) \subseteq R!IdsOf(copy[t]) \union settled
    BY <1>2 DEF OwnerInv
  <2>2. \A i \in 1 .. created : i \in R!IdsOf(copy[t]) \/ i \in settled
    BY <1>3, <2>1 DEF RemindersInv, NoneLost
  <2> QED
    BY <1>1, <2>2 DEF NoneLost
<1>10. ASSUME NEW u \in Workers PROVE DueInv(u)'
  BY <1>1, <1>3, <1>5 DEF RemindersInv, DueInv
<1> QED
  BY <1>6, <1>7, <1>8, <1>9, <1>10 DEF RemindersInv

LEMMA AnswerPreserves ==
  ASSUME RemindersInv, NEW t \in Workers, R!Answer(t) PROVE RemindersInv'
<1>1. /\ op[t] = "answer" /\ op' = [op EXCEPT ![t] = "idle"] /\ due' = [due EXCEPT ![t] = {}]
      /\ UNCHANGED <<reminders, date, owner, copy, created, settled>>
  BY DEF R!Answer
<1>2. announced' = [i \in R!Id |-> announced[i] + IF i \in due[t] THEN 1 ELSE 0] \/ announced' = announced
  BY DEF R!Answer
<1>3. /\ DOMAIN op = Workers /\ DOMAIN copy = Workers /\ DOMAIN due = Workers /\ DueInv(t)
      /\ announced \in [R!Id -> Nat]
  BY DEF RemindersInv, OneOwner, Counted
<1>4. op'[t] = "idle" /\ due'[t] = {} /\ \A u \in Workers : u # t => op'[u] = op[u] /\ due'[u] = due[u]
  BY <1>1, <1>3
<1>5. /\ announced' \in [R!Id -> Nat]
      /\ \A i \in R!Id : announced'[i] = announced[i] \/ (announced'[i] = 1 /\ i \in due[t])
  BY <1>2, <1>3 DEF DueInv
<1>6. \A i \in R!Id : Told(i)' => Told(i)
  BY <1>1, <1>4, <1>5 DEF Told
<1>7. \A i : Known(i)' <=> Known(i)
  BY <1>1 DEF Known
<1>8. FileKept'
  BY <1>1, <1>6, <1>7 DEF RemindersInv, FileKept, Listed, R!Reminder
<1>9. OneOwner'
  BY <1>1, <1>3 DEF RemindersInv, OneOwner
<1>10. Counted'
  BY <1>1, <1>5, <1>6 DEF RemindersInv, Counted
<1>11. NoneLost'
  BY <1>1, <1>4 DEF RemindersInv, NoneLost
<1>12. ASSUME NEW u \in Workers PROVE DueInv(u)'
  <2>1. CASE u = t
    BY <1>4, <2>1 DEF DueInv
  <2>2. CASE u # t
    <3>1. \A i \in due[u] : i \in R!Id /\ i \notin due[t]
      BY <2>2 DEF RemindersInv, DueInv, Known
    <3>2. \A i \in due[u] : announced'[i] = 0
      BY <1>5, <3>1 DEF RemindersInv, DueInv
    <3>3. \A v \in Workers : v # u => due'[u] \intersect due'[v] = {}
      BY <1>4, <2>2 DEF RemindersInv, DueInv
    <3> QED
      BY <1>4, <1>7, <2>2, <3>2, <3>3 DEF RemindersInv, DueInv
  <2> QED
    BY <2>1, <2>2
<1>13. ASSUME NEW u \in owner' PROVE OwnerInv(u)'
  <2>1. u \in owner /\ u # t /\ u \in Workers
    BY <1>1, <1>13 DEF RemindersInv, OneOwner
  <2>2. Listed(copy[u])'
    BY <1>1, <1>6, <1>7, <2>1 DEF RemindersInv, OwnerInv, Listed, R!Reminder
  <2> QED
    BY <1>1, <1>4, <2>1, <2>2 DEF RemindersInv, OwnerInv
<1> QED
  BY <1>8, <1>9, <1>10, <1>11, <1>12, <1>13 DEF RemindersInv

\* The lock and the copies are gone, the file is as it was written last.
LEMMA CrashPreserves ==
  ASSUME RemindersInv, R!Crash PROVE RemindersInv'
<1>1. /\ op' = [t \in Workers |-> "idle"] /\ owner' = {}
      /\ copy' = [t \in Workers |-> {}] /\ due' = [t \in Workers |-> {}]
      /\ settled' = settled \union {i \in 1 .. created : i \notin R!IdsOf(reminders)}
      /\ UNCHANGED <<reminders, date, created, announced>>
  BY DEF R!Crash
<1>2. \A i : (Told(i)' => Told(i)) /\ (Known(i)' <=> Known(i))
  BY <1>1 DEF Told, Known
<1>3. FileKept'
  BY <1>1, <1>2 DEF RemindersInv, FileKept, Listed
<1>4. OneOwner' /\ NoneLost'
  BY <1>1 DEF OneOwner, NoneLost
<1>5. Counted'
  BY <1>1, <1>2 DEF RemindersInv, Counted
<1>6. \A u \in Workers : DueInv(u)'
  BY <1>1 DEF DueInv
<1> QED
  BY <1>1, <1>3, <1>4, <1>5, <1>6 DEF RemindersInv

LEMMA RemindersPreserved == RemindersInv /\ [R!Next]_(R!vars) => RemindersInv'
<1> SUFFICES ASSUME RemindersInv, [R!Next]_(R!vars) PROVE RemindersInv'
  OBVIOUS
<1>1. ASSUME NEW t \in Workers, R!Create(t) PROVE RemindersInv'
  BY <1>1, CreatePreserves
<1>2. ASSUME NEW t \in Workers, R!Due(t) PROVE RemindersInv'
  BY <1>2, DuePreserves
<1>3. ASSUME NEW t \in Workers, R!Delete(t) PROVE RemindersInv'
  BY <1>3, DeletePreserves
<1>4. ASSUME NEW t \in Workers, R!Write(t) PROVE RemindersInv'
  BY <1>4, WritePreserves
<1>5. ASSUME NEW t \in Workers, R!Answer(t) PROVE RemindersInv'
  BY <1>5, AnswerPreserves
<1>6. CASE R!Crash
  BY <1>6, CrashPreserves
<1>7. CASE R!Tick \/ UNCHANGED R!vars
  <2>1. UNCHANGED <<reminders, owner, op, copy, due, created, announced, settled>>
    BY <1>7 DEF R!Tick, R!vars
  <2>2. \A i : (Told(i)' <=> Told(i)) /\ (Known(i)' <=> Known(i))
    BY <2>1 DEF Told, Known
  <2>3. FileKept' /\ Counted' /\ OneOwner' /\ NoneLost'
    BY <2>1, <2>2 DEF RemindersInv, FileKept, Counted, OneOwner, NoneLost, Listed
  <2>4. \A t \in Workers : DueInv(t)' /\ (t \in owner => OwnerInv(t)')
    BY <2>1, <2>2 DEF RemindersInv, DueInv, OwnerInv, Listed
  <2> QED
    BY <2>1, <2>3, <2>4 DEF RemindersInv, OneOwner
<1> QED
  BY <1>1, <1>2, <1>3, <1>4, <1>5, <1>6, <1>7 DEF R!Next

(***************************************************************************)
(* Whatever browsers poll, create and delete at the same time, and         *)
(* wherever the process stops: nobody is told of a reminder twice, and one *)
(* that was created waits in the file until it is marked, deleted or cut   *)
(* off on purpose.                                                         *)
(***************************************************************************)
THEOREM RemindersHold == R!Spec => []AnnouncedOnceNeverLost
<1>1. RemindersInv => AnnouncedOnceNeverLost
  <2> SUFFICES ASSUME RemindersInv PROVE R!AnnouncedOnceNeverLost
    BY DEF AnnouncedOnceNeverLost
  <2>1. \A i \in R!Id : announced[i] <= 1
    BY DEF RemindersInv, Counted
  <2>2. \A i \in R!IdsOf(reminders) : \E r \in reminders : r.id = i
    BY DEF R!IdsOf
  <2> QED
    BY <2>1, <2>2 DEF RemindersInv, NoneLost, R!AnnouncedOnceNeverLost
<1> QED
  BY RemindersInitially, RemindersPreserved, <1>1, PTL DEF R!Spec

(***************************************************************************)
(* The budget.  Below the limit, the governed requests have spent no more  *)
(* than the scope; from the limit on no further one goes to pro, and what  *)
(* those under way may still report is within the bound.                   *)
(***************************************************************************)
UnderWay == [s \in Scopes |->
  {w \in Workers : /\ working[w] = "asking" /\ request[w].governed
                   /\ request[w].model = "pro" /\ request[w].scope = s}]

MayReport(U) == Cardinality(U) * ProCost
Bound == Limit - 1 + MayReport(Workers)

LedgerType ==
  /\ spend \in [Scopes -> Nat] /\ governedPro \in [Scopes -> Nat]
  /\ DOMAIN working = Workers /\ request \in [Workers -> B!Requests]

LedgerInv ==
  /\ LedgerType
  /\ \A s \in Scopes : /\ spend[s] < Limit => governedPro[s] <= spend[s]
                       /\ spend[s] >= Limit => governedPro[s] + MayReport(UnderWay[s]) <= Bound

LEMMA FewerReportLess ==
  \A V \in SUBSET Workers : \A U \in SUBSET V :
         /\ MayReport(U) \in Nat /\ MayReport(U) <= MayReport(V)
         /\ U # V => MayReport(U) + ProCost <= MayReport(V)
<1> TAKE V \in SUBSET Workers
<1> TAKE U \in SUBSET V
<1>1. IsFiniteSet(V) /\ IsFiniteSet(U)
  BY ServicesAssumption, FS_Subset
<1>2. PICK m, n : m = Cardinality(U) /\ n = Cardinality(V)
  OBVIOUS
<1>3. m \in Nat /\ n \in Nat /\ m <= n /\ (U # V => m < n)
  BY <1>1, <1>2, FS_CardinalityType, FS_Subset
<1>4. \A a, b, c \in Nat : a <= b => a * c \in Nat /\ a * c <= b * c
  OBVIOUS
<1>5. \A a, b, c \in Nat : a < b => a * c + c <= b * c
  <2> SUFFICES ASSUME NEW a \in Nat, NEW b \in Nat, NEW c \in Nat, a < b PROVE a * c + c <= b * c
    OBVIOUS
  <2>1. (a + 1) * c <= b * c
    BY <1>4
  <2>2. (a + 1) * c = a * c + c
    OBVIOUS
  <2> QED
    BY <2>1, <2>2
<1>6. ProCost \in Nat
  BY ServicesAssumption
<1> QED
  BY <1>2, <1>3, <1>4, <1>5, <1>6 DEF MayReport

LEMMA NothingAsked == B!NoRequest \in B!Requests
<1>1. \E s \in Scopes : TRUE
  BY ServicesAssumption
<1> QED
  BY <1>1 DEF B!NoRequest, B!Requests, B!Models

LEMMA LedgerInitially == B!Init => LedgerInv
<1> SUFFICES ASSUME B!Init PROVE LedgerInv
  OBVIOUS
<1>1. LedgerType
  BY NothingAsked DEF B!Init, LedgerType
<1> QED
  BY <1>1, ServicesAssumption DEF B!Init, LedgerInv

\* What is under way is bounded by the workers; a request that is governed and
\* to pro was built below the limit.
LEMMA BuildPreserves ==
  ASSUME LedgerInv, NEW w \in Workers, B!Build(w) PROVE LedgerInv'
<1>1. PICK s \in Scopes, chosen \in B!Models, downgrade \in BOOLEAN, image \in BOOLEAN :
        request' = [request EXCEPT ![w] =
          [scope |-> s,
           model |-> IF image THEN "pro"
                     ELSE IF downgrade /\ chosen = "pro" /\ B!OverDailyBudget(s) THEN "flash" ELSE chosen,
           governed |-> downgrade /\ ~image]]
  BY DEF B!Build
<1>2. PICK r : /\ r \in B!Requests /\ request' = [request EXCEPT ![w] = r]
               /\ r.governed /\ r.model = "pro" => spend[r.scope] < Limit
  <2> DEFINE q == [scope |-> s,
           model |-> IF image THEN "pro"
                     ELSE IF downgrade /\ chosen = "pro" /\ B!OverDailyBudget(s) THEN "flash" ELSE chosen,
           governed |-> downgrade /\ ~image]
  <2>1. q \in B!Requests
    BY DEF B!Requests, B!Models
  <2>2. spend[s] \in Nat /\ Limit \in Nat
    BY ServicesAssumption DEF LedgerInv, LedgerType
  <2>3. q.governed /\ q.model = "pro" => ~B!OverDailyBudget(s)
    BY DEF B!Models
  <2>4. q.scope = s /\ (~B!OverDailyBudget(s) => spend[s] < Limit)
    BY <2>2 DEF B!OverDailyBudget
  <2> WITNESS q
  <2> HIDE DEF q
  <2> QED
    BY <1>1, <2>1, <2>3, <2>4 DEF q
<1>3. /\ working[w] = "idle" /\ working' = [working EXCEPT ![w] = "asking"]
      /\ UNCHANGED <<spend, governedPro>>
  BY DEF B!Build
<1>4. LedgerType'
  BY <1>2, <1>3 DEF LedgerInv, LedgerType
<1>5. ASSUME NEW t \in Scopes, spend[t] >= Limit PROVE UnderWay'[t] = UnderWay[t]
  <2>1. spend[t] \in Nat /\ Limit \in Nat
    BY ServicesAssumption DEF LedgerInv, LedgerType
  <2>2. ~(r.governed /\ r.model = "pro" /\ r.scope = t)
    BY <1>2, <1>5, <2>1
  <2> QED
    BY <1>2, <1>3, <2>2 DEF LedgerInv, LedgerType, UnderWay
<1>6. ASSUME NEW t \in Scopes
      PROVE  /\ spend'[t] < Limit => governedPro'[t] <= spend'[t]
             /\ spend'[t] >= Limit => governedPro'[t] + MayReport(UnderWay'[t]) <= Bound
  BY <1>3, <1>5 DEF LedgerInv
<1> QED
  BY <1>4, <1>6 DEF LedgerInv, MayReport, Bound

\* A request that ends may have spent something, and is no longer under way.
LEMMA EndPreserves ==
  ASSUME LedgerInv, NEW w \in Workers, B!Record(w) \/ B!NotRecorded(w) PROVE LedgerInv'
<1>1. /\ working[w] = "asking" /\ working' = [working EXCEPT ![w] = "idle"]
      /\ request' = [request EXCEPT ![w] = B!NoRequest]
  BY DEF B!Record, B!NotRecorded
<1>2. PICK r : r = request[w]
  OBVIOUS
<1>3. r \in B!Requests /\ r.scope \in Scopes
  BY <1>2 DEF LedgerInv, LedgerType, B!Requests
<1>4. \A s \in Scopes : /\ UnderWay[s] \subseteq Workers /\ UnderWay'[s] \subseteq UnderWay[s]
                        /\ w \notin UnderWay'[s]
                        /\ r.governed /\ r.model = "pro" /\ r.scope = s => w \in UnderWay[s]
  BY <1>1, <1>2 DEF LedgerInv, LedgerType, UnderWay
<1>5. Limit \in Nat \ {0} /\ ProCost \in Nat /\ FlashCost \in Nat
  BY ServicesAssumption
<1> DEFINE Kept(t) == /\ spend'[t] < Limit => governedPro'[t] <= spend'[t]
                      /\ spend'[t] >= Limit => governedPro'[t] + MayReport(UnderWay'[t]) <= Bound
<1>6. ASSUME NEW t \in Scopes, spend'[t] = spend[t], governedPro'[t] = governedPro[t] PROVE Kept(t)
  <2>1. /\ MayReport(UnderWay[t]) \in Nat /\ MayReport(UnderWay'[t]) \in Nat
        /\ MayReport(UnderWay'[t]) <= MayReport(UnderWay[t])
    BY <1>4, FewerReportLess
  <2>2. governedPro[t] \in Nat /\ MayReport(Workers) \in Nat
    BY FewerReportLess DEF LedgerInv, LedgerType
  <2> QED
    BY <1>5, <1>6, <2>1, <2>2 DEF LedgerInv, Bound
<1>7. CASE B!NotRecorded(w)
  <2>1. UNCHANGED <<spend, governedPro>>
    BY <1>7 DEF B!NotRecorded
  <2>2. LedgerType'
    BY <1>1, <2>1, NothingAsked DEF LedgerInv, LedgerType
  <2>3. \A t \in Scopes : Kept(t)
    BY <1>6, <2>1
  <2> QED
    BY <2>2, <2>3 DEF LedgerInv, MayReport, Bound
<1>8. CASE B!Record(w)
  <2>1. PICK c \in B!Cost(r.model) :
          /\ spend' = [spend EXCEPT ![r.scope] = IF @ + c < B!MaxSpend THEN @ + c ELSE B!MaxSpend]
          /\ governedPro' = IF r.governed /\ r.model = "pro"
                            THEN [governedPro EXCEPT ![r.scope] = @ + c] ELSE governedPro
    BY <1>2, <1>8 DEF B!Record
  <2>2. c \in Nat /\ (r.model = "pro" => c <= ProCost)
    BY <1>5 DEF B!Cost
  <2>3. PICK t, g, x : t = r.scope /\ g = governedPro[t] /\ x = spend[t]
    OBVIOUS
  <2>4. /\ t \in Scopes /\ g \in Nat /\ x \in Nat
        /\ spend'[t] = (IF x + c < Limit + 1 THEN x + c ELSE Limit + 1)
        /\ governedPro'[t] = (IF r.governed /\ r.model = "pro" THEN g + c ELSE g)
        /\ \A s \in Scopes : s # t => spend'[s] = spend[s] /\ governedPro'[s] = governedPro[s]
    BY <1>3, <2>1, <2>2, <2>3 DEF LedgerInv, LedgerType, B!MaxSpend
  <2>5. LedgerType'
    <3>1. spend' \in [Scopes -> Nat] /\ governedPro' \in [Scopes -> Nat]
      BY <1>3, <1>5, <2>1, <2>2 DEF LedgerInv, LedgerType, B!MaxSpend
    <3> QED
      BY <1>1, <3>1, NothingAsked DEF LedgerInv, LedgerType
  <2>6. PICK before, after, every :
          /\ before = MayReport(UnderWay[t]) /\ after = MayReport(UnderWay'[t])
          /\ every = MayReport(Workers)
    OBVIOUS
  <2>7. /\ before \in Nat /\ after \in Nat /\ every \in Nat
        /\ after <= before /\ before <= every
        /\ after + ProCost <= every
        /\ r.governed /\ r.model = "pro" => after + ProCost <= before
    <3>1. UnderWay'[t] \subseteq Workers /\ UnderWay'[t] # Workers
      BY <1>4, <2>4
    <3>2. r.governed /\ r.model = "pro" => UnderWay'[t] # UnderWay[t]
      BY <1>4, <2>3, <2>4
    <3> QED
      BY <1>4, <2>4, <2>6, <3>1, <3>2, FewerReportLess
  <2>8. (x < Limit => g <= x) /\ (x >= Limit => g + before <= Limit - 1 + every)
    BY <2>3, <2>4, <2>6 DEF LedgerInv, Bound
  <2>9. /\ spend'[t] < Limit => governedPro'[t] <= spend'[t]
        /\ spend'[t] >= Limit => governedPro'[t] + after <= Limit - 1 + every
    <3>1. CASE r.governed /\ r.model = "pro"
      BY <1>5, <2>2, <2>4, <2>7, <2>8, <3>1
    <3>2. CASE ~(r.governed /\ r.model = "pro")
      <4>1. governedPro'[t] = g
        BY <2>4, <3>2
      <4> QED
        BY <1>5, <2>2, <2>4, <2>7, <2>8, <4>1
    <3> QED
      BY <3>1, <3>2
  <2>10. \A s \in Scopes : Kept(s)
    <3>1. Kept(t)
      BY <2>6, <2>9 DEF Bound
    <3> QED
      BY <1>6, <2>4, <3>1
  <2> QED
    BY <2>5, <2>10 DEF LedgerInv, MayReport, Bound
<1> QED
  BY <1>7, <1>8

LEMMA LedgerPreserved == LedgerInv /\ [B!Next]_(B!vars) => LedgerInv'
<1> SUFFICES ASSUME LedgerInv, [B!Next]_(B!vars) PROVE LedgerInv'
  OBVIOUS
<1>1. ASSUME NEW w \in Workers, B!Build(w) PROVE LedgerInv'
  BY <1>1, BuildPreserves
<1>2. ASSUME NEW w \in Workers, B!Record(w) \/ B!NotRecorded(w) PROVE LedgerInv'
  BY <1>2, EndPreserves
<1>3. CASE B!Midnight
  <2>1. LedgerType'
    BY <1>3 DEF B!Midnight, LedgerInv, LedgerType
  <2> QED
    BY <1>3, <2>1, ServicesAssumption DEF B!Midnight, LedgerInv
<1>4. CASE UNCHANGED B!vars
  <2>1. UnderWay' = UnderWay
    BY <1>4 DEF B!vars, UnderWay
  <2> QED
    BY <1>4, <2>1 DEF B!vars, LedgerInv, LedgerType, MayReport, Bound
<1> QED
  BY <1>1, <1>2, <1>3, <1>4 DEF B!Next

(***************************************************************************)
(* The policy is asked before a request and the ledger is told after it:   *)
(* for every number of workers and all prices, the governed requests of a  *)
(* scope pass the limit by one request to pro per worker at the most.      *)
(***************************************************************************)
THEOREM OverrunIsBounded == B!Spec => []OverrunBounded
<1>1. LedgerInv => OverrunBounded
  <2> SUFFICES ASSUME LedgerInv, NEW s \in Scopes
               PROVE  governedPro[s] <= Limit - 1 + Cardinality(Workers) * ProCost
    BY DEF OverrunBounded, B!OverrunBounded, B!Cardinality, Cardinality
  <2>1. UnderWay[s] \subseteq Workers
    BY DEF UnderWay
  <2>2. MayReport(UnderWay[s]) \in Nat /\ MayReport(Workers) \in Nat
    BY <2>1, FewerReportLess
  <2>3. spend[s] \in Nat /\ governedPro[s] \in Nat /\ Limit \in Nat
    BY ServicesAssumption DEF LedgerInv, LedgerType
  <2>4. governedPro[s] <= Limit - 1 + MayReport(Workers)
    BY <2>2, <2>3 DEF LedgerInv, Bound
  <2> QED
    BY <2>4 DEF MayReport
<1> QED
  BY LedgerInitially, LedgerPreserved, <1>1, PTL DEF B!Spec

(***************************************************************************)
(* The tool calls of an answer.  While the loop walks on, nothing is at    *)
(* work but what a cancelled pool has left behind; and once a serial call  *)
(* has begun, all calls before it have their results and none of them is   *)
(* at work ever again.                                                     *)
(***************************************************************************)
AtWork == {"queued", "judging", "running", "finished"}

TurnType ==
  /\ index \in 1 .. Calls + 1 /\ batch \subseteq {c \in T!Call : c < index}
  /\ cancelled \in BOOLEAN /\ tainted \in BOOLEAN
  /\ task \in [T!Call -> AtWork \union {"none", "taken", "dropped"}]
  /\ DOMAIN result = T!Call /\ DOMAIN outputs = T!Call

ModeInv ==
  /\ mode \in {"walk", "solo", "pool", "done"}
  /\ mode = "walk" => (cancelled /\ batch = {}) \/ T!Pending = {}
  /\ mode = "solo" => \E c \in T!Call : T!Pending = {c}
  /\ mode # "walk" => batch = {}
  /\ mode = "done" => \A c \in T!Call : outputs[c].of = c
  /\ tainters # {} => tainted

\* Where a call is.
CallInv(c) ==
  /\ (c >= index \/ c \in batch) => task[c] = "none" /\ outputs[c] = T!Missing
  /\ (c < index /\ c \notin batch /\ task[c] = "none") => outputs[c] # T!Missing
  /\ c \in batch => kind[c] \notin T!Serial
  /\ task[c] = "taken" => outputs[c] # T!Missing
  /\ task[c] = "dropped" => cancelled
  /\ task[c] = "none" => result[c] = "none"
  /\ result[c] = "cancelled" => cancelled

OutputInv(c) ==
  /\ outputs[c] = T!Missing \/ outputs[c].of = c
  /\ outputs[c].verdict = "cancelled" => cancelled

\* What a serial call that has begun has behind it.
SerialInv(c) ==
  kind[c] \in T!Serial /\ task[c] # "none" =>
    /\ task[c] \in AtWork => mode = "solo"
    /\ \A d \in T!Call : d < c => task[d] \notin AtWork /\ outputs[d] # T!Missing

TaintInv(c) ==
  kind[c] \in T!Serial \cap T!Dangerous /\ kind[c] \notin approved
      /\ (task[c] = "running" \/ result[c] = "ran") =>
    \A d \in tainters : ~(d < c)

TurnInv ==
  /\ TurnType /\ ModeInv
  /\ \A c \in T!Call : CallInv(c) /\ OutputInv(c) /\ SerialInv(c) /\ TaintInv(c)

LEMMA TurnInitially == T!Init => TurnInv
<1> SUFFICES ASSUME T!Init PROVE TurnInv
  OBVIOUS
<1>1. Calls \in Nat
  BY ServicesAssumption
<1>2. TurnType
  <2>1. 1 \in 1 .. Calls + 1
    BY <1>1
  <2> QED
    BY <2>1 DEF T!Init, TurnType, AtWork
<1>3. T!Pending = {}
  BY DEF T!Init, T!Pending
<1>4. ASSUME NEW c \in T!Call PROVE CallInv(c) /\ OutputInv(c) /\ SerialInv(c) /\ TaintInv(c)
  BY <1>1 DEF T!Init, T!Missing, T!Call, CallInv, OutputInv, SerialInv, TaintInv
<1> QED
  BY <1>2, <1>3, <1>4 DEF T!Init, TurnInv, ModeInv

\* A gap is told from a result by its number.
LEMMA GapIsNoResult == T!Missing.of = 0 /\ T!Missing.verdict # "cancelled" /\ 0 \notin T!Call
  BY ServicesAssumption DEF T!Missing, T!Call

LEMMA SkipPreserves == ASSUME TurnInv, T!Skip PROVE TurnInv'
<1>1. /\ mode = "walk" /\ index <= Calls /\ cancelled /\ index' = index + 1
      /\ outputs' = [outputs EXCEPT ![index] = [of |-> index, verdict |-> "cancelled"]]
      /\ UNCHANGED <<kind, approved, cancelled, tainted, batch, mode, task, result, tainters>>
  BY DEF T!Skip, T!Store, T!turn
<1>2. index \in T!Call /\ index \in Nat /\ Calls \in Nat
  BY <1>1, ServicesAssumption DEF TurnInv, TurnType, T!Call
<1>3. TurnType'
  BY <1>1, <1>2 DEF TurnInv, TurnType, T!Call
<1>4. \A c \in T!Call : outputs'[c] = IF c = index THEN [of |-> index, verdict |-> "cancelled"] ELSE outputs[c]
  BY <1>1 DEF TurnInv, TurnType
<1>5. /\ outputs'[index] # T!Missing /\ outputs'[index].of = index
      /\ \A c \in T!Call : c # index => outputs'[c] = outputs[c]
  <2>1. outputs'[index].of = index /\ \A c \in T!Call : c # index => outputs'[c] = outputs[c]
    BY <1>2, <1>4
  <2> QED
    BY <1>2, <2>1, GapIsNoResult
<1>6. ModeInv'
  BY <1>1 DEF TurnInv, ModeInv, T!Pending
<1>7. ASSUME NEW c \in T!Call PROVE CallInv(c)' /\ OutputInv(c)' /\ SerialInv(c)' /\ TaintInv(c)'
  <2>1. c \in Nat
    BY DEF T!Call
  <2>2. CallInv(c)'
    <3>1. CASE c = index
      <4>1. CallInv(index)
        BY <1>2 DEF TurnInv
      <4>2. index >= index /\ ~(index >= index + 1) /\ index \notin batch
        BY <1>2 DEF TurnInv, TurnType
      <4> QED
        BY <1>1, <1>5, <3>1, <4>1, <4>2 DEF CallInv
    <3>2. CASE c # index
      BY <1>1, <1>2, <1>5, <2>1, <3>2 DEF TurnInv, CallInv
    <3> QED
      BY <3>1, <3>2
  <2>3. OutputInv(c)'
    BY <1>1, <1>5 DEF TurnInv, OutputInv
  <2>4. SerialInv(c)'
    BY <1>1, <1>5 DEF TurnInv, SerialInv
  <2>5. TaintInv(c)'
    BY <1>1 DEF TurnInv, TaintInv
  <2> QED
    BY <2>2, <2>3, <2>4, <2>5
<1> QED
  BY <1>3, <1>6, <1>7 DEF TurnInv

LEMMA GatherPreserves == ASSUME TurnInv, T!Gather PROVE TurnInv'
<1>1. /\ mode = "walk" /\ index <= Calls /\ ~cancelled /\ kind[index] \notin T!Serial
      /\ batch' = batch \union {index} /\ index' = index + 1
      /\ UNCHANGED <<kind, approved, cancelled, tainted, mode, task, result, outputs, tainters>>
  BY DEF T!Gather, T!turn
<1>2. index \in T!Call /\ index \in Nat /\ Calls \in Nat
  BY <1>1, ServicesAssumption DEF TurnInv, TurnType, T!Call
<1>3. TurnType'
  BY <1>1, <1>2 DEF TurnInv, TurnType, T!Call
<1>4. ModeInv'
  BY <1>1 DEF TurnInv, ModeInv, T!Pending
<1>5. ASSUME NEW c \in T!Call PROVE CallInv(c)' /\ OutputInv(c)' /\ SerialInv(c)' /\ TaintInv(c)'
  <2>1. c \in Nat
    BY DEF T!Call
  <2>2. CallInv(c)'
    BY <1>1, <1>2, <2>1 DEF TurnInv, CallInv
  <2>3. OutputInv(c)' /\ SerialInv(c)' /\ TaintInv(c)'
    BY <1>1 DEF TurnInv, OutputInv, SerialInv, TaintInv
  <2> QED
    BY <2>2, <2>3
<1> QED
  BY <1>3, <1>4, <1>5 DEF TurnInv

LEMMA RunAlonePreserves == ASSUME TurnInv, T!RunAlone PROVE TurnInv'
<1>1. /\ mode = "walk" /\ index <= Calls /\ ~cancelled /\ kind[index] \in T!Serial /\ batch = {}
      /\ mode' = "solo" /\ task' = [task EXCEPT ![index] = "queued"] /\ index' = index + 1
      /\ UNCHANGED <<kind, approved, cancelled, tainted, batch, result, outputs, tainters>>
  BY DEF T!RunAlone, T!MayRunAlone, T!turn
<1>2. index \in T!Call /\ index \in Nat /\ Calls \in Nat
  BY <1>1, ServicesAssumption DEF TurnInv, TurnType, T!Call
<1>3. TurnType'
  BY <1>1, <1>2 DEF TurnInv, TurnType, T!Call, AtWork
<1>4. task'[index] = "queued" /\ \A c \in T!Call : c # index => task'[c] = task[c]
  BY <1>1, <1>2 DEF TurnInv, TurnType
<1>5. \A c \in T!Call : task[c] \notin AtWork
  BY <1>1 DEF TurnInv, ModeInv, T!Pending, AtWork
<1>6. ModeInv'
  <2>1. T!Pending' = {index}
    BY <1>2, <1>4, <1>5 DEF T!Pending, AtWork
  <2> QED
    BY <1>1, <1>2, <2>1 DEF TurnInv, ModeInv
<1>7. ASSUME NEW d \in T!Call, d < index
      PROVE  task'[d] \notin AtWork /\ outputs[d] # T!Missing
  <2>1. task[d] \in {"none", "taken", "dropped"} /\ d < index /\ d \notin batch /\ d # index
    BY <1>1, <1>2, <1>5, <1>7 DEF TurnInv, TurnType, T!Call
  <2> QED
    BY <1>1, <1>4, <1>5, <2>1 DEF TurnInv, CallInv
<1>8. ASSUME NEW c \in T!Call PROVE CallInv(c)' /\ OutputInv(c)' /\ SerialInv(c)' /\ TaintInv(c)'
  <2>1. c \in Nat
    BY DEF T!Call
  <2>2. CallInv(c)'
    BY <1>1, <1>2, <1>4, <2>1 DEF TurnInv, CallInv
  <2>3. OutputInv(c)'
    BY <1>1 DEF TurnInv, OutputInv
  <2>4. SerialInv(c)'
    BY <1>1, <1>2, <1>4, <1>5, <1>7, <2>1 DEF TurnInv, SerialInv, CallInv, T!Call
  <2>5. TaintInv(c)'
    BY <1>1, <1>4 DEF TurnInv, TaintInv
  <2> QED
    BY <2>2, <2>3, <2>4, <2>5
<1> QED
  BY <1>3, <1>6, <1>8 DEF TurnInv

LEMMA OneCall ==
  \A U \in SUBSET T!Call : T!Cardinality(U) = 1 <=> \E c : U = {c}
<1>1. IsFiniteSet(T!Call)
  BY ServicesAssumption, FS_Interval DEF T!Call
<1>2. \A U : T!Cardinality(U) = Cardinality(U)
  BY DEF T!Cardinality, Cardinality
<1> QED
  BY <1>1, <1>2, FS_Subset, FS_Singleton

LEMMA FlushPreserves == ASSUME TurnInv, T!Flush PROVE TurnInv'
<1>1. /\ mode = "walk" /\ batch # {} /\ mode' = (IF T!Cardinality(batch) = 1 THEN "solo" ELSE "pool")
      /\ task' = [c \in T!Call |-> IF c \in batch THEN "queued" ELSE task[c]] /\ batch' = {}
      /\ UNCHANGED <<kind, approved, cancelled, tainted, index, result, outputs, tainters>>
  BY DEF T!Flush, T!turn
<1>2. batch \subseteq {c \in T!Call : c < index}
  BY DEF TurnInv, TurnType
<1>3. \A c \in T!Call : task[c] \notin AtWork /\ task'[c] = IF c \in batch THEN "queued" ELSE task[c]
  BY <1>1 DEF TurnInv, ModeInv, T!Pending, AtWork
<1>4. TurnType'
  BY <1>1 DEF TurnInv, TurnType, AtWork
<1>5. ModeInv'
  <2>1. T!Pending' = batch
    BY <1>2, <1>3 DEF T!Pending, AtWork
  <2>2. mode' = "solo" => \E c \in T!Call : batch = {c}
    BY <1>1, <1>2, OneCall
  <2> QED
    BY <1>1, <2>1, <2>2 DEF TurnInv, ModeInv
<1>6. ASSUME NEW c \in T!Call PROVE CallInv(c)' /\ OutputInv(c)' /\ SerialInv(c)' /\ TaintInv(c)'
  <2>1. CallInv(c)'
    <3>1. CASE c \in batch
      <4>1. c < index /\ ~(c >= index) /\ task'[c] = "queued"
        BY <1>2, <1>3, <3>1 DEF TurnInv, TurnType, T!Call
      <4> QED
        BY <1>1, <3>1, <4>1 DEF TurnInv, CallInv
    <3>2. CASE c \notin batch
      BY <1>1, <1>3, <3>2 DEF TurnInv, CallInv
    <3> QED
      BY <3>1, <3>2
  <2>2. OutputInv(c)'
    BY <1>1 DEF TurnInv, OutputInv
  <2>3. SerialInv(c)'
    BY <1>1, <1>3 DEF TurnInv, SerialInv, CallInv, AtWork
  <2>4. TaintInv(c)'
    BY <1>1, <1>3 DEF TurnInv, TaintInv, AtWork
  <2> QED
    BY <2>1, <2>2, <2>3, <2>4
<1> QED
  BY <1>4, <1>5, <1>6 DEF TurnInv

\* A call that works on stays at work, and the others are where they were.
LEMMA WorkPreserves == ASSUME TurnInv, NEW c \in T!Call, T!Work(c) PROVE TurnInv'
<1>1. /\ task[c] \in AtWork /\ UNCHANGED <<kind, approved, cancelled, index, batch, mode, outputs>>
      /\ tainters' \subseteq tainters \union {c} /\ (tainters' # {} => tainted') /\ tainted' \in BOOLEAN
  <2>1. CASE T!Start(c)
    BY <2>1 DEF T!Start, T!turn, TurnInv, TurnType, ModeInv, AtWork
  <2>2. CASE T!Judge(c)
    BY <2>2 DEF T!Judge, T!turn, TurnInv, TurnType, ModeInv, AtWork
  <2>3. CASE T!End(c)
    <3>1. task[c] \in AtWork /\ UNCHANGED <<kind, approved, cancelled, index, batch, mode, outputs>>
      BY <2>3 DEF T!End, T!turn, AtWork
    <3>2. (tainters' = tainters \union {c} /\ tainted' = TRUE) \/ UNCHANGED <<tainted, tainters>>
      BY <2>3 DEF T!End, T!Taints
    <3> QED
      BY <3>1, <3>2 DEF TurnInv, TurnType, ModeInv
  <2> QED
    BY <2>1, <2>2, <2>3 DEF T!Work
<1>2. /\ task' = [task EXCEPT ![c] = task'[c]] /\ task'[c] \in AtWork
      /\ DOMAIN result' = T!Call /\ \A d \in T!Call : d # c => result'[d] = result[d]
      /\ result'[c] = "cancelled" => cancelled
      /\ (task'[c] = "running" \/ result'[c] = "ran") =>
            (task[c] = "running" \/ result[c] = "ran" \/ ~T!MustAsk(kind[c]))
  <2>0. task \in [T!Call -> AtWork \union {"none", "taken", "dropped"}] /\ DOMAIN result = T!Call
        /\ (result[c] = "cancelled" => cancelled)
    BY DEF TurnInv, TurnType, CallInv
  <2>1. CASE T!Start(c)
    BY <2>0, <2>1 DEF T!Start, T!Finish, AtWork
  <2>2. CASE T!Judge(c)
    <3>1. CASE kind[c] = "denied"
      BY <2>0, <2>2, <3>1 DEF T!Judge, T!Finish, AtWork
    <3>2. CASE kind[c] # "denied" /\ T!MustAsk(kind[c])
      <4>1. T!Finish(c, "needs_confirmation")
        BY <2>2, <3>2 DEF T!Judge
      <4> QED
        BY <2>0, <4>1 DEF T!Finish, AtWork
    <3>3. CASE kind[c] # "denied" /\ ~T!MustAsk(kind[c])
      <4>1. task' = [task EXCEPT ![c] = "running"] /\ UNCHANGED result
        BY <2>2, <3>3 DEF T!Judge
      <4> QED
        BY <2>0, <3>3, <4>1 DEF AtWork
    <3> QED
      BY <3>1, <3>2, <3>3
  <2>3. CASE T!End(c)
    BY <2>0, <2>3 DEF T!End, T!Finish, AtWork
  <2> QED
    BY <2>1, <2>2, <2>3 DEF T!Work
<1>3. /\ \A d \in T!Call : d # c => task'[d] = task[d] /\ result'[d] = result[d]
      /\ \A d \in T!Call : task'[d] \in AtWork <=> task[d] \in AtWork
  BY <1>1, <1>2 DEF TurnInv, TurnType
<1>4. TurnType'
  BY <1>1, <1>2 DEF TurnInv, TurnType
<1>5. ModeInv'
  <2>1. T!Pending' = T!Pending
    BY <1>3 DEF T!Pending, AtWork
  <2> QED
    BY <1>1, <2>1 DEF TurnInv, ModeInv
<1>6. c < index /\ ~(c >= index) /\ c \notin batch
  BY <1>1 DEF TurnInv, TurnType, CallInv, T!Call, AtWork
<1>7. ASSUME NEW d \in T!Call PROVE CallInv(d)' /\ OutputInv(d)' /\ SerialInv(d)' /\ TaintInv(d)'
  <2>1. CallInv(d)'
    <3>1. CASE d = c
      BY <1>1, <1>2, <1>3, <1>6, <3>1 DEF TurnInv, CallInv, AtWork
    <3>2. CASE d # c
      BY <1>1, <1>3, <3>2 DEF TurnInv, CallInv
    <3> QED
      BY <3>1, <3>2
  <2>2. OutputInv(d)'
    BY <1>1 DEF TurnInv, OutputInv
  <2>3. SerialInv(d)'
    <3>1. task[d] # "none" <=> task'[d] # "none"
      BY <1>1, <1>2, <1>3 DEF AtWork
    <3> QED
      BY <1>1, <1>3, <3>1 DEF TurnInv, SerialInv
  <2>4. TaintInv(d)'
    <3> SUFFICES ASSUME kind[d] \in T!Serial \cap T!Dangerous, kind[d] \notin approved,
                        task'[d] = "running" \/ result'[d] = "ran"
                 PROVE  \A e \in tainters' : ~(e < d)
      BY <1>1 DEF TaintInv
    <3>1. CASE d = c
      <4>1. \A e \in tainters : ~(e < d)
        <5>1. CASE task[c] = "running" \/ result[c] = "ran"
          BY <3>1, <5>1 DEF TurnInv, TaintInv
        <5>2. CASE ~T!MustAsk(kind[c])
          BY <3>1, <5>2 DEF T!MustAsk, TurnInv, TurnType, ModeInv
        <5> QED
          BY <1>2, <3>1, <5>1, <5>2
      <4>2. ~(c < d)
        BY <3>1 DEF T!Call
      <4> QED
        BY <1>1, <4>1, <4>2
    <3>2. CASE d # c
      <4>1. task[d] = "running" \/ result[d] = "ran"
        BY <1>3, <3>2
      <4>2. task[d] # "none"
        BY <4>1 DEF TurnInv, CallInv
      <4>3. ~(c < d)
        BY <1>1, <4>2 DEF TurnInv, SerialInv
      <4> QED
        BY <1>1, <4>1, <4>3 DEF TurnInv, TaintInv
    <3> QED
      BY <3>1, <3>2
  <2> QED
    BY <2>1, <2>2, <2>3, <2>4
<1> QED
  BY <1>4, <1>5, <1>7 DEF TurnInv

\* The result of a call that has ended goes to its place.
LEMMA TakePreserves ==
  ASSUME TurnInv, NEW c \in T!Call, task[c] = "finished",
         T!Store(c, result[c]), task' = [task EXCEPT ![c] = "taken"],
         mode # "done", (mode' = "walk" /\ T!Pending = {c}) \/ (mode' = "pool" /\ mode = "pool"),
         UNCHANGED <<kind, approved, cancelled, tainted, index, batch, result, tainters>>
  PROVE  TurnInv'
<1>1. /\ task'[c] = "taken" /\ outputs' = [outputs EXCEPT ![c] = [of |-> c, verdict |-> result[c]]]
      /\ \A d \in T!Call : d # c => task'[d] = task[d]
  BY DEF T!Store, TurnInv, TurnType
<1>2. /\ outputs'[c].of = c /\ outputs'[c].verdict = result[c] /\ outputs'[c] # T!Missing
      /\ \A d \in T!Call : d # c => outputs'[d] = outputs[d]
  <2>1. outputs'[c] = [of |-> c, verdict |-> result[c]] /\ \A d \in T!Call : d # c => outputs'[d] = outputs[d]
    BY <1>1 DEF TurnInv, TurnType
  <2>2. outputs'[c].of = c /\ outputs'[c].verdict = result[c]
    BY <2>1
  <2> QED
    BY <2>1, <2>2, GapIsNoResult
<1>3. TurnType'
  BY <1>1 DEF TurnInv, TurnType, AtWork
<1>4. ModeInv'
  <2>1. T!Pending' = T!Pending \ {c}
    BY <1>1 DEF T!Pending
  <2>2. mode' = "walk" => T!Pending' = {}
    BY <2>1
  <2> QED
    BY <2>2 DEF TurnInv, ModeInv
<1>5. c < index /\ ~(c >= index) /\ c \notin batch
  BY DEF TurnInv, TurnType, CallInv, T!Call
<1>6. ASSUME NEW d \in T!Call PROVE CallInv(d)' /\ OutputInv(d)' /\ SerialInv(d)' /\ TaintInv(d)'
  <2>1. CallInv(d)' /\ OutputInv(d)'
    <3>1. CASE d = c
      BY <1>1, <1>2, <1>5, <3>1 DEF TurnInv, CallInv, OutputInv
    <3>2. CASE d # c
      BY <1>1, <1>2, <3>2 DEF TurnInv, CallInv, OutputInv
    <3> QED
      BY <3>1, <3>2
  <2>2. SerialInv(d)'
    <3>1. task'[d] \in AtWork => d # c /\ task[d] \in AtWork
      BY <1>1 DEF AtWork
    <3>2. task'[d] \in AtWork => d \in T!Pending
      BY <3>1 DEF T!Pending, AtWork
    <3>3. task'[d] # "none" <=> task[d] # "none"
      BY <1>1
    <3>4. \A e \in T!Call : (task'[e] \in AtWork => task[e] \in AtWork)
      BY <1>1 DEF AtWork
    <3>5. \A e \in T!Call : outputs'[e] = T!Missing => outputs[e] = T!Missing
      BY <1>2
    <3> QED
      BY <3>1, <3>2, <3>3, <3>4, <3>5 DEF TurnInv, SerialInv
  <2>3. TaintInv(d)'
    BY <1>1 DEF TurnInv, TaintInv
  <2> QED
    BY <2>1, <2>2, <2>3
<1> QED
  BY <1>3, <1>4, <1>6 DEF TurnInv

LEMMA TakeOwnPreserves == ASSUME TurnInv, T!TakeOwn PROVE TurnInv'
<1>1. PICK c \in T!Call : task[c] = "finished" /\ T!Store(c, result[c]) /\ task' = [task EXCEPT ![c] = "taken"]
  BY DEF T!TakeOwn
<1>2. mode = "solo" /\ mode' = "walk"
      /\ UNCHANGED <<kind, approved, cancelled, tainted, index, batch, result, tainters>>
  BY DEF T!TakeOwn, T!turn
<1>3. T!Pending = {c}
  BY <1>1, <1>2 DEF TurnInv, ModeInv, T!Pending
<1> QED
  BY <1>1, <1>2, <1>3, TakePreserves

LEMMA TakeFromPoolPreserves == ASSUME TurnInv, T!TakeFromPool PROVE TurnInv'
<1>1. PICK c \in T!Call : task[c] = "finished" /\ T!Store(c, result[c]) /\ task' = [task EXCEPT ![c] = "taken"]
  BY DEF T!TakeFromPool, T!Place
<1>2. mode = "pool" /\ mode' = (IF T!Cardinality(T!Pending) = 1 THEN "walk" ELSE "pool")
      /\ UNCHANGED <<kind, approved, cancelled, tainted, index, batch, result, tainters>>
  BY DEF T!TakeFromPool, T!turn
<1>3. c \in T!Pending /\ T!Pending \subseteq T!Call
  BY <1>1 DEF T!Pending
<1>4. mode' = "walk" => T!Pending = {c}
  BY <1>2, <1>3, OneCall
<1> QED
  BY <1>1, <1>2, <1>4, TakePreserves

\* What a cancelled pool leaves at work is not a serial call.
LEMMA LeavePoolPreserves == ASSUME TurnInv, T!LeavePool PROVE TurnInv'
<1>1. /\ mode = "pool" /\ cancelled /\ mode' = "walk"
      /\ task' = [c \in T!Call |-> IF task[c] \in {"queued", "finished"} THEN "dropped" ELSE task[c]]
      /\ UNCHANGED <<kind, approved, cancelled, tainted, index, batch, result, outputs, tainters>>
  BY DEF T!LeavePool, T!turn
<1>2. batch = {}
  BY <1>1 DEF TurnInv, ModeInv
<1>3. \A c \in T!Call : /\ task'[c] = task[c] \/ (task[c] \in AtWork /\ task'[c] = "dropped")
                        /\ task'[c] \in AtWork => task'[c] = task[c]
  BY <1>1 DEF AtWork
<1>4. TurnType'
  BY <1>1 DEF TurnInv, TurnType, AtWork
<1>5. ModeInv'
  BY <1>1, <1>2 DEF TurnInv, ModeInv
<1>6. ASSUME NEW c \in T!Call PROVE CallInv(c)' /\ OutputInv(c)' /\ SerialInv(c)' /\ TaintInv(c)'
  <2>1. CallInv(c)'
    BY <1>1, <1>3 DEF TurnInv, CallInv, AtWork
  <2>2. OutputInv(c)' /\ TaintInv(c)'
    BY <1>1, <1>3 DEF TurnInv, OutputInv, TaintInv, AtWork
  <2>3. SerialInv(c)'
    <3>1. task'[c] # "none" => task[c] # "none"
      BY <1>3 DEF AtWork
    <3> QED
      BY <1>1, <1>3, <3>1 DEF TurnInv, SerialInv
  <2> QED
    BY <2>1, <2>2, <2>3
<1> QED
  BY <1>4, <1>5, <1>6 DEF TurnInv

\* A place is empty at the end only when the turn was cancelled.
LEMMA AssemblePreserves == ASSUME TurnInv, T!Assemble PROVE TurnInv'
<1>1. /\ mode = "walk" /\ index > Calls /\ batch = {} /\ mode' = "done"
      /\ outputs' = [c \in T!Call |-> IF outputs[c] = T!Missing /\ cancelled
                                      THEN [of |-> c, verdict |-> "cancelled"] ELSE outputs[c]]
      /\ UNCHANGED <<kind, approved, cancelled, tainted, index, batch, task, result, tainters>>
  BY DEF T!Assemble, T!turn
<1>2. \A c \in T!Call : c < index /\ ~(c >= index) /\ c \notin batch
  BY <1>1, ServicesAssumption DEF TurnInv, TurnType, T!Call
<1>3. ASSUME NEW c \in T!Call
      PROVE  /\ outputs'[c].of = c /\ outputs'[c] # T!Missing
             /\ outputs'[c].verdict = "cancelled" => cancelled
  <2>1. CASE outputs[c] = T!Missing /\ cancelled
    <3>1. outputs'[c] = [of |-> c, verdict |-> "cancelled"]
      BY <1>1, <2>1
    <3>2. outputs'[c].of = c
      BY <3>1
    <3> QED
      BY <2>1, <3>2, GapIsNoResult
  <2>2. CASE outputs[c] = T!Missing /\ ~cancelled
    <3>1. task[c] \notin AtWork
      BY <1>1, <2>2 DEF TurnInv, ModeInv, T!Pending, AtWork
    <3>2. task[c] \in {"none", "taken", "dropped"}
      BY <3>1 DEF TurnInv, TurnType, AtWork
    <3> QED
      BY <1>2, <2>2, <3>2 DEF TurnInv, CallInv
  <2>3. CASE outputs[c] # T!Missing
    BY <1>1, <2>3 DEF TurnInv, OutputInv
  <2> QED
    BY <2>1, <2>2, <2>3
<1>4. TurnType'
  BY <1>1 DEF TurnInv, TurnType
<1>5. ModeInv'
  BY <1>1, <1>3 DEF TurnInv, ModeInv
<1>6. ASSUME NEW c \in T!Call PROVE CallInv(c)' /\ OutputInv(c)' /\ SerialInv(c)' /\ TaintInv(c)'
  <2>1. CallInv(c)'
    BY <1>1, <1>2, <1>3 DEF TurnInv, CallInv
  <2>2. OutputInv(c)'
    BY <1>1, <1>3 DEF OutputInv
  <2>3. SerialInv(c)'
    BY <1>1, <1>3 DEF TurnInv, SerialInv, ModeInv
  <2>4. TaintInv(c)'
    BY <1>1 DEF TurnInv, TaintInv
  <2> QED
    BY <2>1, <2>2, <2>3, <2>4
<1> QED
  BY <1>4, <1>5, <1>6 DEF TurnInv

LEMMA TurnPreserved == TurnInv /\ [T!Next]_(T!vars) => TurnInv'
<1> SUFFICES ASSUME TurnInv, [T!Next]_(T!vars) PROVE TurnInv'
  OBVIOUS
<1>1. CASE T!Cancel
  <2>1. /\ mode # "done" /\ cancelled' = TRUE
        /\ UNCHANGED <<kind, approved, tainted, index, batch, mode, task, result, outputs, tainters>>
    BY <1>1 DEF T!Cancel, T!turn
  <2>2. TurnType' /\ ModeInv'
    BY <2>1 DEF TurnInv, TurnType, ModeInv, T!Pending
  <2>3. ASSUME NEW c \in T!Call PROVE CallInv(c)' /\ OutputInv(c)' /\ SerialInv(c)' /\ TaintInv(c)'
    BY <2>1 DEF TurnInv, CallInv, OutputInv, SerialInv, TaintInv
  <2> QED
    BY <2>2, <2>3 DEF TurnInv
<1>2. CASE UNCHANGED T!vars
  <2>1. UNCHANGED <<kind, approved, cancelled, tainted, index, batch, mode, task, result, outputs, tainters>>
    BY <1>2 DEF T!vars, T!turn
  <2>2. TurnType' /\ ModeInv'
    BY <2>1 DEF TurnInv, TurnType, ModeInv, T!Pending
  <2>3. ASSUME NEW c \in T!Call PROVE CallInv(c)' /\ OutputInv(c)' /\ SerialInv(c)' /\ TaintInv(c)'
    BY <2>1 DEF TurnInv, CallInv, OutputInv, SerialInv, TaintInv
  <2> QED
    BY <2>2, <2>3 DEF TurnInv
<1>3. CASE T!LoopStep
  BY <1>3, SkipPreserves, GatherPreserves, RunAlonePreserves, FlushPreserves, TakeOwnPreserves,
     TakeFromPoolPreserves, LeavePoolPreserves, AssemblePreserves DEF T!LoopStep
<1>4. CASE \E c \in T!Call : T!Work(c)
  BY <1>4, WorkPreserves
<1> QED
  BY <1>1, <1>2, <1>3, <1>4 DEF T!Next

(***************************************************************************)
(* CallsKeepOrder: every result is handed to the model at the place of its *)
(* call, a serial tool is at work alone, after all that was asked before   *)
(* it, and a dangerous one that nobody approved never runs after a result  *)
(* that tainted the turn, for every number of calls, however they are      *)
(* interleaved, and with a cancellation at any moment.                     *)
(***************************************************************************)
THEOREM CallsKeep == T!Spec => []CallsKeepOrder
<1>1. TurnInv => CallsKeepOrder
  <2> SUFFICES ASSUME TurnInv PROVE CallsKeepOrder
    OBVIOUS
  <2>1. T!AnswersInPlace
    BY DEF TurnInv, ModeInv, OutputInv, T!AnswersInPlace
  <2>2. ASSUME NEW c \in T!Call, NEW d \in T!Call
        PROVE /\ kind[c] \in T!Serial /\ task[c] = "running" /\ c # d =>
                   /\ task[d] \notin {"queued", "judging", "running"}
                   /\ d < c => outputs[d] # T!Missing
              /\ kind[c] \in T!Serial \cap T!Dangerous /\ kind[c] \notin approved
                 /\ d \in tainters /\ d < c
                 => task[c] # "running" /\ result[c] # "ran"
    <3>1. ASSUME kind[c] \in T!Serial, task[c] = "running", c # d
          PROVE  task[d] \notin {"queued", "judging", "running"} /\ (d < c => outputs[d] # T!Missing)
      <4>1. mode = "solo" /\ (d < c => outputs[d] # T!Missing)
        BY <3>1 DEF TurnInv, SerialInv, AtWork
      <4>2. PICK e \in T!Call : T!Pending = {e}
        BY <4>1 DEF TurnInv, ModeInv
      <4> QED
        BY <3>1, <4>1, <4>2 DEF T!Pending
    <3>2. ASSUME kind[c] \in T!Serial \cap T!Dangerous, kind[c] \notin approved, d \in tainters, d < c
          PROVE  task[c] # "running" /\ result[c] # "ran"
      BY <3>2 DEF TurnInv, TaintInv
    <3> QED
      BY <3>1, <3>2
  <2> QED
    BY <2>1, <2>2 DEF CallsKeepOrder, T!CallsKeepOrder, T!SerialIsGuarded
<1> QED
  BY TurnInitially, TurnPreserved, <1>1, PTL DEF T!Spec

-----------------------------------------------------------------------------
(***************************************************************************)
(* The web searches.  A marker is a number of a place: the round and the   *)
(* position in it, counted through.  A round that did not come from the    *)
(* cache has a page's own number or none (Tidy), so that two places never  *)
(* have the same; a search that is under way holds the last place, and the *)
(* offset is the number of results before it.                              *)
(***************************************************************************)
Page == [page : Pages, mark : Nat]
Rounds == [query : W!Queries, index : Nat, status : {"searching", "done"},
           results : Seq(Page), hit : BOOLEAN]

Tidy(rs) ==
  \A k \in 1 .. Len(rs) : \A i \in DOMAIN rs[k].results :
    rs[k].results[i].mark \in {0, W!Before(rs, k) + i}

\* The marker that Marked gives, and what the browser is shown.
MarkAt(rs, k, i) ==
  IF rs[k].results[i].mark = 0 THEN W!Before(rs, k) + i ELSE rs[k].results[i].mark
Cites(rs) == W!Pairs(W!Results(W!Marked(rs)))

-----------------------------------------------------------------------------
LEMMA SearchCounts == \A X : W!Cardinality(X) = Cardinality(X)
  BY DEF W!Cardinality, Cardinality

Spots(rs, k) == UNION {{l} \X DOMAIN rs[l].results : l \in 1 .. k - 1}

LEMMA RoundOf ==
  ASSUME NEW rs \in Seq(Rounds), NEW k \in 1 .. Len(rs)
  PROVE  /\ rs[k] \in Rounds /\ rs[k].results \in Seq(Page) /\ Len(rs[k].results) \in Nat
         /\ DOMAIN rs[k].results = 1 .. Len(rs[k].results)
<1>1. rs[k] \in Rounds
  OBVIOUS
<1> QED
  BY <1>1 DEF Rounds

LEMMA Column ==
  ASSUME NEW k, NEW n \in Nat
  PROVE  IsFiniteSet({k} \X (1 .. n)) /\ Cardinality({k} \X (1 .. n)) = n
<1>1. IsFiniteSet({k}) /\ Cardinality({k}) = 1
  BY FS_Singleton
<1>2. IsFiniteSet(1 .. n) /\ Cardinality(1 .. n) = n
  BY FS_Interval
<1>3. IsFiniteSet({k} \X (1 .. n)) /\ Cardinality({k} \X (1 .. n)) = Cardinality({k}) * Cardinality(1 .. n)
  BY <1>1, <1>2, FS_Product
<1> QED
  BY <1>1, <1>2, <1>3

LEMMA SpotsAre ==
  ASSUME NEW rs, NEW k
  PROVE  \A s : s \in Spots(rs, k) <=>
                  \E l \in 1 .. k - 1 : \E i \in DOMAIN rs[l].results : s = <<l, i>>
  BY DEF Spots

LEMMA BeforeCounts ==
  ASSUME NEW rs \in Seq(Rounds), NEW k \in 1 .. Len(rs) + 1
  PROVE  /\ IsFiniteSet(Spots(rs, k)) /\ W!Before(rs, k) = Cardinality(Spots(rs, k))
         /\ W!Before(rs, k) \in Nat
<1> DEFINE F == {{l} \X DOMAIN rs[l].results : l \in 1 .. k - 1}
           f == [l \in 1 .. k - 1 |-> {l} \X DOMAIN rs[l].results]
<1>1. f \in Surjection(1 .. k - 1, F)
  BY DEF Surjection
<1>2. IsFiniteSet(1 .. k - 1)
  BY FS_Interval
<1>3. IsFiniteSet(F)
  BY <1>1, <1>2, FS_Surjection
<1>4. ASSUME NEW l \in 1 .. k - 1 PROVE IsFiniteSet({l} \X DOMAIN rs[l].results)
  <2>1. l \in 1 .. Len(rs)
    BY Len(rs) \in Nat
  <2> DEFINE n == Len(rs[l].results)
  <2>2. DOMAIN rs[l].results = 1 .. n /\ n \in Nat
    BY <2>1, RoundOf
  <2> HIDE DEF n
  <2>3. IsFiniteSet({l} \X (1 .. n))
    BY <2>2, Column
  <2> QED
    BY <2>2, <2>3
<1>5. IsFiniteSet(UNION F)
  BY <1>3, <1>4, FS_UNION
<1>6. Spots(rs, k) = UNION F
  BY DEF Spots
<1>7. W!Before(rs, k) = Cardinality(Spots(rs, k))
  BY SearchCounts DEF W!Before, Spots
<1> QED
  BY <1>5, <1>6, <1>7, FS_CardinalityType

LEMMA BeforeNext ==
  ASSUME NEW rs \in Seq(Rounds), NEW k \in 1 .. Len(rs)
  PROVE  W!Before(rs, k + 1) = W!Before(rs, k) + Len(rs[k].results)
<1> DEFINE n == Len(rs[k].results)
           Here == {k} \X (1 .. n)
<1>1. n \in Nat /\ DOMAIN rs[k].results = 1 .. n
  BY RoundOf
<1>2. IsFiniteSet(Here) /\ Cardinality(Here) = n
  BY <1>1, Column
<1>3. k \in 1 .. Len(rs) + 1 /\ k + 1 \in 1 .. Len(rs) + 1 /\ (k + 1) - 1 = k
  BY Len(rs) \in Nat
<1>4. Spots(rs, k + 1) = Spots(rs, k) \cup Here
  <2>1. \A l : l \in 1 .. k <=> l \in 1 .. k - 1 \/ l = k
    BY Len(rs) \in Nat
  <2>2. \A l : l \in 1 .. (k + 1) - 1 <=> l \in 1 .. k
    BY Len(rs) \in Nat
  <2> HIDE DEF n
  <2>3. ASSUME NEW s PROVE s \in Spots(rs, k + 1) <=> s \in Spots(rs, k) \cup Here
    BY <1>1, <2>1, <2>2, SpotsAre
  <2> QED BY <2>3
<1>5. Spots(rs, k) \cap Here = {}
  BY SpotsAre, Len(rs) \in Nat
<1>6. IsFiniteSet(Spots(rs, k)) /\ W!Before(rs, k) = Cardinality(Spots(rs, k))
      /\ W!Before(rs, k) \in Nat /\ W!Before(rs, k + 1) = Cardinality(Spots(rs, k + 1))
  BY <1>3, BeforeCounts
<1>7. Cardinality(Spots(rs, k) \cup Here) = Cardinality(Spots(rs, k)) + n - 0
  <2> HIDE DEF Here
  <2>1. Cardinality(Spots(rs, k) \cup Here)
        = Cardinality(Spots(rs, k)) + Cardinality(Here) - Cardinality(Spots(rs, k) \cap Here)
    BY <1>2, <1>6, FS_Union
  <2>2. Cardinality({}) = 0
    BY FS_EmptySet
  <2> HIDE DEF n
  <2> QED BY <1>2, <1>5, <2>1, <2>2
<1>8. Cardinality(Spots(rs, k)) \in Nat
  BY <1>6
<1>9. W!Before(rs, k + 1) = W!Before(rs, k) + n
  <2>1. W!Before(rs, k + 1) = Cardinality(Spots(rs, k) \cup Here)
    BY <1>4, <1>6, Zenon
  <2> HIDE DEF Here, n
  <2> QED
    BY <1>1, <1>6, <1>7, <1>8, <2>1
<1> QED
  BY <1>9

LEMMA BeforeGrows ==
  ASSUME NEW rs \in Seq(Rounds), NEW k \in 1 .. Len(rs), NEW l \in k + 1 .. Len(rs) + 1
  PROVE  W!Before(rs, k) + Len(rs[k].results) <= W!Before(rs, l)
<1>1. k + 1 \in 1 .. Len(rs) + 1 /\ l \in 1 .. Len(rs) + 1 /\ \A m : m \in 1 .. (k + 1) - 1 => m \in 1 .. l - 1
  BY Len(rs) \in Nat
<1>2. Spots(rs, k + 1) \subseteq Spots(rs, l)
  BY <1>1, SpotsAre
<1>3. Cardinality(Spots(rs, k + 1)) <= Cardinality(Spots(rs, l))
  BY <1>1, <1>2, BeforeCounts, FS_Subset
<1> QED
  BY <1>1, <1>3, BeforeCounts, BeforeNext

LEMMA BeforeSame ==
  ASSUME NEW rs, NEW rt, NEW k,
         \A l \in 1 .. k - 1 : DOMAIN rs[l].results = DOMAIN rt[l].results
  PROVE  W!Before(rs, k) = W!Before(rt, k)
<1>1. {{l} \X DOMAIN rs[l].results : l \in 1 .. k - 1} = {{l} \X DOMAIN rt[l].results : l \in 1 .. k - 1}
  OBVIOUS
<1> QED
  BY <1>1 DEF W!Before

\* Two places never have the same number.
LEMMA PlacesDiffer ==
  ASSUME NEW rs \in Seq(Rounds), NEW k \in 1 .. Len(rs), NEW l \in 1 .. Len(rs),
         NEW i \in DOMAIN rs[k].results, NEW j \in DOMAIN rs[l].results,
         W!Before(rs, k) + i = W!Before(rs, l) + j
  PROVE  k = l /\ i = j
<1>1. /\ i \in Nat /\ i >= 1 /\ i <= Len(rs[k].results) /\ Len(rs[k].results) \in Nat
      /\ j \in Nat /\ j >= 1 /\ j <= Len(rs[l].results) /\ Len(rs[l].results) \in Nat
      /\ k \in Nat /\ l \in Nat /\ Len(rs) \in Nat
  BY RoundOf
<1>2. W!Before(rs, k) \in Nat /\ W!Before(rs, l) \in Nat
  BY <1>1, BeforeCounts
<1>3. CASE k < l
  <2>1. l \in k + 1 .. Len(rs) + 1
    BY <1>1, <1>3
  <2>2. W!Before(rs, k) + Len(rs[k].results) <= W!Before(rs, l)
    BY <2>1, BeforeGrows
  <2> QED BY <1>1, <1>2, <2>2
<1>4. CASE l < k
  <2>1. k \in l + 1 .. Len(rs) + 1
    BY <1>1, <1>4
  <2>2. W!Before(rs, l) + Len(rs[l].results) <= W!Before(rs, k)
    BY <2>1, BeforeGrows
  <2> QED BY <1>1, <1>2, <2>2
<1>5. CASE k = l
  BY <1>1, <1>2, <1>5
<1> QED
  BY <1>1, <1>3, <1>4, <1>5

\* What Marked leaves, and what it gives.
LEMMA MarkedRounds ==
  ASSUME NEW rs \in Seq(Rounds)
  PROVE  /\ W!Marked(rs) \in Seq(Rounds) /\ Len(W!Marked(rs)) = Len(rs)
         /\ \A k \in 1 .. Len(rs) :
              /\ DOMAIN W!Marked(rs)[k].results = DOMAIN rs[k].results
              /\ \A i \in DOMAIN rs[k].results :
                   /\ W!Marked(rs)[k].results[i].page = rs[k].results[i].page
                   /\ W!Marked(rs)[k].results[i].mark = MarkAt(rs, k, i)
<1> DEFINE n == Len(rs)
<1>1. n \in Nat /\ DOMAIN W!Marked(rs) = 1 .. n
  BY DEF W!Marked
<1>2. ASSUME NEW k \in 1 .. n
      PROVE  /\ W!Marked(rs)[k] \in Rounds
             /\ DOMAIN W!Marked(rs)[k].results = DOMAIN rs[k].results
             /\ \A i \in DOMAIN rs[k].results :
                   /\ W!Marked(rs)[k].results[i].page = rs[k].results[i].page
                   /\ W!Marked(rs)[k].results[i].mark = MarkAt(rs, k, i)
  <2> DEFINE old == rs[k].results
             m == Len(old)
             b == W!Before(rs, k)
             new == [i \in 1 .. m |-> IF old[i].mark = 0 THEN [old[i] EXCEPT !.mark = b + i] ELSE old[i]]
  <2>1. W!Marked(rs)[k] = [rs[k] EXCEPT !.results = new]
    BY DEF W!Marked
  <2>2. m \in Nat /\ DOMAIN old = 1 .. m /\ rs[k] \in Rounds /\ b \in Nat
    BY RoundOf, BeforeCounts
  <2>3. ASSUME NEW i \in 1 .. m PROVE old[i] \in Page
    BY <2>2 DEF Rounds
  <2>4. ASSUME NEW i \in 1 .. m
        PROVE  new[i] \in Page /\ new[i].page = old[i].page /\ new[i].mark = MarkAt(rs, k, i)
    <3>1. CASE old[i].mark = 0
      <4>1. new[i] = [old[i] EXCEPT !.mark = b + i]
        BY <3>1
      <4>2. MarkAt(rs, k, i) = b + i
        BY <3>1 DEF MarkAt
      <4> HIDE DEF new, old, b
      <4> QED BY <2>2, <2>3, <4>1, <4>2 DEF Page
    <3>2. CASE old[i].mark # 0
      BY <2>3, <3>2 DEF MarkAt
    <3> QED BY <3>1, <3>2
  <2>5. new \in Seq(Page) /\ DOMAIN new = DOMAIN old
    <3>1. new \in [1 .. m -> Page]
      BY <2>4
    <3> HIDE DEF new
    <3> QED BY <2>2, <3>1
  <2> HIDE DEF new
  <2>6. W!Marked(rs)[k].results = new /\ W!Marked(rs)[k] \in Rounds
    BY <2>1, <2>2, <2>5 DEF Rounds
  <2> QED
    BY <2>2, <2>4, <2>5, <2>6
<1>3. W!Marked(rs) \in [1 .. n -> Rounds]
  <2>1. W!Marked(rs) = [k \in 1 .. n |-> W!Marked(rs)[k]]
    BY DEF W!Marked
  <2> HIDE DEF n
  <2> QED
    BY <1>2, <2>1
<1> HIDE DEF n
<1>4. W!Marked(rs) \in Seq(Rounds)
  BY <1>1, <1>3
<1>5. Len(W!Marked(rs)) = n
  BY <1>1, <1>4
<1> QED
  BY <1>2, <1>4, <1>5 DEF n

LEMMA MarkedBefore ==
  ASSUME NEW rs \in Seq(Rounds), NEW k \in 1 .. Len(rs) + 1
  PROVE  W!Before(W!Marked(rs), k) = W!Before(rs, k)
<1>1. \A l \in 1 .. k - 1 : DOMAIN W!Marked(rs)[l].results = DOMAIN rs[l].results
  <2> TAKE l \in 1 .. k - 1
  <2>1. l \in 1 .. Len(rs)
    BY Len(rs) \in Nat
  <2> QED
    BY <2>1, MarkedRounds
<1> QED
  BY <1>1, BeforeSame

LEMMA CitesAre ==
  ASSUME NEW rs \in Seq(Rounds)
  PROVE  \A z : z \in Cites(rs) <=>
           \E k \in 1 .. Len(rs) : \E i \in DOMAIN rs[k].results :
             z = <<MarkAt(rs, k, i), rs[k].results[i].page>>
<1> DEFINE ms == W!Marked(rs)
<1> TAKE z
<1>0. \A k \in 1 .. Len(rs) :
        /\ DOMAIN ms[k].results = DOMAIN rs[k].results
        /\ \A i \in DOMAIN rs[k].results :
             ms[k].results[i].page = rs[k].results[i].page /\ ms[k].results[i].mark = MarkAt(rs, k, i)
  BY MarkedRounds
<1>1. \A x : x \in W!Results(ms) <=>
        \E k \in 1 .. Len(rs) : \E i \in DOMAIN ms[k].results : x = ms[k].results[i]
  <2>1. 1 .. Len(ms) = 1 .. Len(rs)
    BY MarkedRounds
  <2> HIDE DEF ms
  <2>2. \A x : x \in W!Results(ms) <=> \E k \in 1 .. Len(ms) : x \in W!Elements(ms[k].results)
    BY DEF W!Results
  <2>3. \A s, x : x \in W!Elements(s) <=> \E i \in DOMAIN s : x = s[i]
    BY DEF W!Elements
  <2> TAKE x
  <2>4. x \in W!Results(ms) <=> \E k \in 1 .. Len(rs) : x \in W!Elements(ms[k].results)
    BY <2>1, <2>2
  <2>5. \A k : x \in W!Elements(ms[k].results) <=> \E i \in DOMAIN ms[k].results : x = ms[k].results[i]
    BY <2>3
  <2> QED
    BY <2>4, <2>5
<1> HIDE DEF ms
<1>2. z \in W!Pairs(W!Results(ms)) <=> \E x \in W!Results(ms) : z = <<x.mark, x.page>>
  BY DEF W!Pairs
<1>3. ASSUME NEW x \in W!Results(ms), z = <<x.mark, x.page>>
      PROVE  \E k \in 1 .. Len(rs) : \E i \in DOMAIN rs[k].results :
               z = <<MarkAt(rs, k, i), rs[k].results[i].page>>
  <2>1. PICK k \in 1 .. Len(rs) : \E i \in DOMAIN ms[k].results : x = ms[k].results[i]
    BY <1>1, <1>3
  <2>2. PICK i \in DOMAIN ms[k].results : x = ms[k].results[i]
    BY <2>1
  <2>3. i \in DOMAIN rs[k].results /\ x.page = rs[k].results[i].page /\ x.mark = MarkAt(rs, k, i)
    BY <1>0, <2>2
  <2> QED
    BY <1>3, <2>3, Zenon
<1>4. ASSUME NEW k \in 1 .. Len(rs), NEW i \in DOMAIN rs[k].results,
             z = <<MarkAt(rs, k, i), rs[k].results[i].page>>
      PROVE  \E x \in W!Results(ms) : z = <<x.mark, x.page>>
  <2>1. ms[k].results[i] \in W!Results(ms)
    BY <1>0, <1>1, Zenon
  <2>2. z = <<ms[k].results[i].mark, ms[k].results[i].page>>
    BY <1>0, <1>4, Zenon
  <2> QED
    BY <2>1, <2>2
<1> QED
  BY <1>2, <1>3, <1>4, Zenon DEF Cites, ms

\* Aggregating twice changes nothing.
LEMMA MarkedAgain ==
  ASSUME NEW rs \in Seq(Rounds), Tidy(rs)
  PROVE  Tidy(W!Marked(rs)) /\ Cites(W!Marked(rs)) = Cites(rs)
<1> DEFINE ms == W!Marked(rs)
<1>1. ms \in Seq(Rounds) /\ Len(ms) = Len(rs)
  BY MarkedRounds
<1>2. ASSUME NEW k \in 1 .. Len(rs), NEW i \in DOMAIN rs[k].results
      PROVE  /\ ms[k].results[i].mark = W!Before(ms, k) + i
             /\ MarkAt(ms, k, i) = MarkAt(rs, k, i) /\ ms[k].results[i].page = rs[k].results[i].page
  <2>1. ms[k].results[i].mark = MarkAt(rs, k, i) /\ ms[k].results[i].page = rs[k].results[i].page
    BY MarkedRounds
  <2>2. k \in 1 .. Len(rs) + 1
    BY Len(rs) \in Nat
  <2>3. W!Before(ms, k) = W!Before(rs, k)
    BY <2>2, MarkedBefore
  <2>4. MarkAt(rs, k, i) = W!Before(rs, k) + i
    BY DEF MarkAt, Tidy
  <2> HIDE DEF ms
  <2> QED
    BY <2>1, <2>3, <2>4 DEF MarkAt
<1>3. \A k \in 1 .. Len(rs) : DOMAIN ms[k].results = DOMAIN rs[k].results
  BY MarkedRounds
<1> HIDE DEF ms
<1>4. Tidy(ms)
  BY <1>1, <1>2, <1>3 DEF Tidy
<1>5. ASSUME NEW z PROVE z \in Cites(ms) <=> z \in Cites(rs)
  <2>1. z \in Cites(ms) <=> \E k \in 1 .. Len(ms) : \E i \in DOMAIN ms[k].results :
                               z = <<MarkAt(ms, k, i), ms[k].results[i].page>>
    BY <1>1, CitesAre
  <2>2. z \in Cites(rs) <=> \E k \in 1 .. Len(rs) : \E i \in DOMAIN rs[k].results :
                               z = <<MarkAt(rs, k, i), rs[k].results[i].page>>
    BY CitesAre
  <2>3. \A k \in 1 .. Len(rs) : \A i \in DOMAIN rs[k].results :
          <<MarkAt(ms, k, i), ms[k].results[i].page>> = <<MarkAt(rs, k, i), rs[k].results[i].page>>
    BY <1>2
  <2>4. z \in Cites(ms) <=> \E k \in 1 .. Len(rs) : \E i \in DOMAIN rs[k].results :
                               z = <<MarkAt(ms, k, i), ms[k].results[i].page>>
    BY <1>1, <1>3, <2>1
  <2> QED
    BY <2>2, <2>3, <2>4
<1> QED
  BY <1>4, <1>5 DEF ms

LEMMA CitesDiffer ==
  ASSUME NEW rs \in Seq(Rounds), Tidy(rs), NEW x \in Cites(rs), NEW y \in Cites(rs), x[1] = y[1]
  PROVE  x = y
<1>1. PICK k \in 1 .. Len(rs) : \E i \in DOMAIN rs[k].results :
             x = <<MarkAt(rs, k, i), rs[k].results[i].page>>
  BY CitesAre
<1>2. PICK i \in DOMAIN rs[k].results : x = <<MarkAt(rs, k, i), rs[k].results[i].page>>
  BY <1>1
<1>3. PICK l \in 1 .. Len(rs) : \E j \in DOMAIN rs[l].results :
             y = <<MarkAt(rs, l, j), rs[l].results[j].page>>
  BY CitesAre
<1>4. PICK j \in DOMAIN rs[l].results : y = <<MarkAt(rs, l, j), rs[l].results[j].page>>
  BY <1>3
<1>5. MarkAt(rs, k, i) = W!Before(rs, k) + i /\ MarkAt(rs, l, j) = W!Before(rs, l) + j
  BY DEF MarkAt, Tidy
<1>6. k = l /\ i = j
  BY <1>2, <1>4, <1>5, PlacesDiffer
<1> QED
  BY <1>2, <1>4, <1>6

\* What the browser has been shown stays, as long as the results before it do.
LEMMA CitesGrow ==
  ASSUME NEW rs \in Seq(Rounds), NEW rt \in Seq(Rounds), Len(rs) <= Len(rt),
         \A k \in 1 .. Len(rs) : \A i \in DOMAIN rs[k].results :
            rt[k].results = rs[k].results /\ W!Before(rt, k) = W!Before(rs, k)
  PROVE  Cites(rs) \subseteq Cites(rt)
<1> SUFFICES ASSUME NEW z \in Cites(rs) PROVE z \in Cites(rt)
  OBVIOUS
<1>1. PICK k \in 1 .. Len(rs) : \E i \in DOMAIN rs[k].results :
             z = <<MarkAt(rs, k, i), rs[k].results[i].page>>
  BY CitesAre
<1>2. PICK i \in DOMAIN rs[k].results : z = <<MarkAt(rs, k, i), rs[k].results[i].page>>
  BY <1>1
<1>3. k \in 1 .. Len(rt)
  BY Len(rs) \in Nat, Len(rt) \in Nat
<1>4. rt[k].results = rs[k].results /\ MarkAt(rt, k, i) = MarkAt(rs, k, i)
  BY DEF MarkAt
<1> QED
  BY <1>2, <1>3, <1>4, CitesAre

(***************************************************************************)
(* What a search saves: the markers of its results are those of its rounds *)
(* (Ripe).  What a turn may count on while none of its rounds came from    *)
(* the cache: the offset is the number of results, and what the model was  *)
(* given the browser is shown (Numbered).                                  *)
(***************************************************************************)
Entries == [results : Seq(Page), rounds : Seq(Rounds)]

Ripe(e) ==
  e \in Entries /\ Tidy(e.rounds) /\ W!Pairs(W!Elements(e.results)) \subseteq Cites(e.rounds)

Shelved(kept) == kept \in [W!Queries -> Entries] /\ \A q \in W!Queries : Ripe(kept[q])

Fresh(rs) == \A k \in 1 .. Len(rs) : ~rs[k].hit

Numbered(rs, from, pairs) ==
  Fresh(rs) => Tidy(rs) /\ from = W!Before(rs, Len(rs) + 1) /\ pairs \subseteq Cites(rs)

Bare(results) ==
  /\ results \in Seq(Page) /\ Len(results) <= ResultLimit
  /\ \A i \in DOMAIN results : results[i].mark = 0

SearchInv ==
  /\ rounds \in Seq(Rounds) /\ counter \in Nat
  /\ Shelved(cache) /\ Ripe(entry)
  /\ turn = "prefetch" => \A k \in 1 .. Len(rounds) : Bare(rounds[k].results)
  /\ turn \in {"searching", "saving"} => rounds # <<>>
  /\ turn = "searching" => W!InTool
  /\ turn \in {"searching", "saving"} /\ W!InTool => W!Newest.results = <<>>
  /\ turn = "saving" /\ W!InTool =>
       entry.rounds # <<>> /\ Len(entry.rounds[1].results) <= ResultLimit
  /\ turn \in {"ready", "searching"} \/ (turn = "saving" /\ W!InTool) =>
       Numbered(rounds, offset, given)

-----------------------------------------------------------------------------
LEMMA EntryOf ==
  ASSUME NEW e \in Entries
  PROVE  e.results \in Seq(Page) /\ e.rounds \in Seq(Rounds)
  BY DEF Entries

LEMMA FirstsAmong ==
  ASSUME NEW rs
  PROVE  \A x \in W!Firsts(rs) : \E k \in 1 .. Len(rs) : x \in W!Elements(W!Marked(rs)[k].results)
<1> TAKE x \in W!Firsts(rs)
<1>1. PICK k \in 1 .. Len(rs) :
        x \in {y \in W!Elements(W!Marked(rs)[k].results) :
                 \A l \in 1 .. k - 1 : \A z \in W!Elements(rs[l].results) : z.page # y.page}
  BY DEF W!Firsts
<1>2. x \in W!Elements(W!Marked(rs)[k].results)
  BY <1>1
<1> QED
  BY <1>2

LEMMA ElementsOf ==
  ASSUME NEW s \in Seq(Page)
  PROVE  W!Elements(s) \subseteq Page /\ IsFiniteSet(W!Elements(s))
<1> DEFINE n == Len(s)
<1>1. n \in Nat /\ DOMAIN s = 1 .. n
  OBVIOUS
<1>2. s \in Surjection(1 .. n, W!Elements(s))
  BY <1>1 DEF Surjection, W!Elements
<1>3. IsFiniteSet(1 .. n)
  BY <1>1, FS_Interval
<1> HIDE DEF n
<1>4. IsFiniteSet(W!Elements(s))
  BY <1>2, <1>3, FS_Surjection
<1>5. W!Elements(s) \subseteq Page
  BY DEF W!Elements
<1> QED
  BY <1>4, <1>5

\* All that the rounds of a list hold is finitely much.
LEMMA ResultsFinite ==
  ASSUME NEW rs \in Seq(Rounds)
  PROVE  W!Results(rs) \subseteq Page /\ IsFiniteSet(W!Results(rs))
<1> DEFINE n == Len(rs)
           F == {W!Elements(rs[k].results) : k \in 1 .. n}
           f == [k \in 1 .. n |-> W!Elements(rs[k].results)]
<1>1. n \in Nat
  OBVIOUS
<1>2. \A k \in 1 .. n : W!Elements(rs[k].results) \subseteq Page /\ IsFiniteSet(W!Elements(rs[k].results))
  BY RoundOf, ElementsOf
<1>3. f \in Surjection(1 .. n, F)
  BY DEF Surjection
<1>4. IsFiniteSet(1 .. n)
  BY <1>1, FS_Interval
<1>5. IsFiniteSet(F)
  BY <1>3, <1>4, FS_Surjection
<1>6. IsFiniteSet(UNION F)
  BY <1>2, <1>5, FS_UNION
<1>7. W!Results(rs) = UNION F
  BY DEF W!Results
<1> QED
  BY <1>2, <1>6, <1>7

LEMMA AggregatesRipe ==
  ASSUME NEW rs \in Seq(Rounds), Tidy(rs), NEW e \in W!Aggregates(rs)
  PROVE  Ripe(e) /\ e.rounds = W!Marked(rs)
<1> DEFINE F == W!Firsts(rs)
           ms == W!Marked(rs)
           c == W!Cardinality(F)
<1>1. PICK ranked \in [1 .. c -> F] : e = [results |-> ranked, rounds |-> ms]
  BY DEF W!Aggregates
<1>2. ms \in Seq(Rounds) /\ Len(ms) = Len(rs) /\ Tidy(ms) /\ Cites(ms) = Cites(rs)
  BY MarkedRounds, MarkedAgain
<1>3. F \subseteq W!Results(ms)
  <2>1. ASSUME NEW x \in F PROVE x \in W!Results(ms)
    <3>1. PICK k \in 1 .. Len(rs) : x \in W!Elements(ms[k].results)
      BY FirstsAmong
    <3>2. k \in 1 .. Len(ms)
      BY <1>2
    <3> HIDE DEF ms
    <3> QED
      BY <3>1, <3>2 DEF W!Results
  <2> QED
    BY <2>1
<1>4. W!Results(ms) \subseteq Page /\ IsFiniteSet(W!Results(ms))
  BY <1>2, ResultsFinite
<1> HIDE DEF ms, F
<1>5. IsFiniteSet(F) /\ F \subseteq Page
  BY <1>3, <1>4, FS_Subset
<1>6. c \in Nat
  BY <1>5, SearchCounts, FS_CardinalityType
<1> HIDE DEF c
<1>7. ranked \in Seq(Page)
  BY <1>1, <1>5, <1>6
<1>8. e.results = ranked /\ e.rounds = ms /\ e \in Entries
  BY <1>1, <1>2, <1>7 DEF Entries
<1>9. W!Elements(ranked) \subseteq W!Results(ms)
  BY <1>1, <1>3 DEF W!Elements
<1>10. W!Pairs(W!Elements(ranked)) \subseteq W!Pairs(W!Results(ms))
  BY <1>9 DEF W!Pairs
<1>11. W!Pairs(W!Results(ms)) = Cites(rs)
  BY DEF Cites, ms
<1> QED
  BY <1>2, <1>8, <1>10, <1>11 DEF Ripe, ms

LEMMA NothingRipe == Ripe(W!NoEntry)
<1>1. W!NoEntry \in Entries /\ W!NoEntry.rounds = <<>> /\ W!NoEntry.results = <<>>
  BY DEF W!NoEntry, Entries
<1>2. Len(<<>>) = 0 /\ DOMAIN <<>> = {} /\ 1 .. 0 = {}
  OBVIOUS
<1>3. Tidy(W!NoEntry.rounds)
  BY <1>1, <1>2 DEF Tidy
<1>4. W!Elements(<<>>) = {}
  BY <1>2 DEF W!Elements
<1>5. W!Pairs({}) = {}
  BY DEF W!Pairs
<1> QED
  BY <1>1, <1>3, <1>4, <1>5 DEF Ripe

LEMMA FoundBare ==
  ASSUME NEW found \in W!Found
  PROVE  Bare(found)
<1>1. PICK s \in UNION {[1 .. n -> Pages] : n \in 0 .. ResultLimit} : found = W!Plain(s)
  BY DEF W!Found
<1>2. PICK n \in 0 .. ResultLimit : s \in [1 .. n -> Pages]
  BY <1>1
<1>3. n \in Nat /\ n <= ResultLimit
  BY <1>2, ServicesAssumption
<1>4. Len(s) = n
  BY <1>2, <1>3
<1>5. found = [i \in 1 .. n |-> [page |-> s[i], mark |-> 0]]
  BY <1>1, <1>4 DEF W!Plain
<1>6. \A i \in 1 .. n : found[i] = [page |-> s[i], mark |-> 0] /\ s[i] \in Pages
  BY <1>2, <1>5
<1>7. found \in [1 .. n -> Page]
  BY <1>5, <1>6 DEF Page
<1>8. DOMAIN found = 1 .. n /\ \A i \in 1 .. n : found[i].mark = 0
  BY <1>5, <1>6
<1> QED
  BY <1>3, <1>7, <1>8 DEF Bare

\* The answer of a tool call that went to Tavily.
LEMMA CompactCounts ==
  ASSUME NEW results, Bare(results), NEW from \in Nat
  PROVE  /\ W!Cardinality(W!Compact(results, from)) = Len(results)
         /\ \A z \in W!Pairs(W!Compact(results, from)) :
              \E i \in DOMAIN results : z = <<from + i, results[i].page>>
<1> DEFINE n == Len(results)
           C == W!Compact(results, from)
           at(i) == [results[i] EXCEPT !.mark = from + i]
           f == [i \in 1 .. n |-> at(i)]
<1>1. n \in Nat /\ DOMAIN results = 1 .. n /\ n <= ResultLimit /\ \A i \in 1 .. n : results[i] \in Page
  BY DEF Bare
<1>2. \A i \in 1 .. n : at(i).mark = from + i /\ at(i).page = results[i].page
  BY <1>1 DEF Page
<1>3. {i \in DOMAIN results : i <= ResultLimit} = 1 .. n
  BY <1>1, ServicesAssumption
<1>4. \A i \in 1 .. n : results[i].mark = 0
  BY <1>1 DEF Bare
<1>5. C = {at(i) : i \in 1 .. n}
  BY <1>3, <1>4 DEF W!Compact
<1> HIDE DEF at, C
<1>6. \A i, j \in 1 .. n : at(i) = at(j) => i = j
  <2> TAKE i, j \in 1 .. n
  <2>1. at(i).mark = from + i /\ at(j).mark = from + j
    BY <1>2
  <2> QED BY <1>1, <2>1
<1>7. f \in Bijection(1 .. n, C)
  BY <1>5, <1>6 DEF Bijection, Injection, Surjection, IsInjective
<1>8. IsFiniteSet(1 .. n) /\ Cardinality(1 .. n) = n
  BY <1>1, FS_Interval
<1>9. Cardinality(C) = n
  BY <1>7, <1>8, FS_Bijection DEF ExistsBijection
<1>10. ASSUME NEW z \in W!Pairs(C) PROVE \E i \in DOMAIN results : z = <<from + i, results[i].page>>
  <2>1. PICK x \in C : z = <<x.mark, x.page>>
    BY DEF W!Pairs
  <2>2. PICK i \in 1 .. n : x = at(i)
    BY <1>5
  <2> QED
    BY <1>1, <1>2, <2>1, <2>2
<1> QED
  BY <1>9, <1>10, SearchCounts DEF C

-----------------------------------------------------------------------------
\* A round gets its results.
Filled(rs, k, results) == [rs EXCEPT ![k].results = results, ![k].status = "done"]

LEMMA RecordedRounds ==
  ASSUME NEW rs \in Seq(Rounds), NEW k \in 1 .. Len(rs), NEW results \in Seq(Page), NEW rt,
         rt = Filled(rs, k, results)
  PROVE  /\ rt \in Seq(Rounds) /\ Len(rt) = Len(rs)
         /\ \A l \in 1 .. Len(rs) : l # k => rt[l] = rs[l]
         /\ rt[k].results = results /\ rt[k].status = "done" /\ rt[k].hit = rs[k].hit
<1> DEFINE new == [[rs[k] EXCEPT !.results = results] EXCEPT !.status = "done"]
           n == Len(rs)
<1>1. n \in Nat /\ rs \in [1 .. n -> Rounds] /\ rs[k] \in Rounds /\ k \in 1 .. n
  OBVIOUS
<1>2. new \in Rounds /\ new.results = results /\ new.status = "done" /\ new.hit = rs[k].hit
  BY <1>1 DEF Rounds
<1>3. rt = [rs EXCEPT ![k] = new]
  BY <1>1 DEF Filled
<1> HIDE DEF new
<1>4. rt \in [1 .. n -> Rounds] /\ rt[k] = new /\ \A l \in 1 .. n : l # k => rt[l] = rs[l]
  BY <1>1, <1>2, <1>3
<1> HIDE DEF n
<1>5. rt \in Seq(Rounds) /\ DOMAIN rt = 1 .. n
  BY ONLY <1>1, <1>4
<1>6. Len(rt) = n
  BY <1>1, <1>5
<1> QED
  BY <1>6, <1>2, <1>4, <1>5 DEF n

LEMMA Appended ==
  ASSUME NEW rs \in Seq(Rounds), NEW r \in Rounds, NEW rt, rt = Append(rs, r)
  PROVE  /\ rt \in Seq(Rounds) /\ Len(rt) = Len(rs) + 1 /\ rt[Len(rs) + 1] = r
         /\ \A l \in 1 .. Len(rs) : rt[l] = rs[l]
  OBVIOUS

LEMMA HitIs ==
  ASSUME NEW q, NEW i, NEW s, NEW results
  PROVE  W!Round(q, i, s, results, TRUE).hit
  BY DEF W!Round

LEMMA BareRounds ==
  ASSUME NEW rs, \A k \in 1 .. Len(rs) : Bare(rs[k].results)
  PROVE  Tidy(rs)
  BY DEF Bare, Tidy

\* A round without results changes nothing.
LEMMA AppendNumbered ==
  ASSUME NEW rs \in Seq(Rounds), NEW r \in Rounds, r.results = <<>>, NEW rt, rt = Append(rs, r),
         NEW from, NEW pairs, Numbered(rs, from, pairs)
  PROVE  Numbered(rt, from, pairs)
<1> SUFFICES ASSUME Fresh(rt)
    PROVE  Tidy(rt) /\ from = W!Before(rt, Len(rt) + 1) /\ pairs \subseteq Cites(rt)
  BY DEF Numbered
<1> DEFINE n == Len(rs)
<1>1. /\ rt \in Seq(Rounds) /\ Len(rt) = n + 1 /\ rt[n + 1] = r
      /\ \A l \in 1 .. n : rt[l] = rs[l]
  BY Appended
<1>2. n \in Nat
  OBVIOUS
<1>3. Fresh(rs)
  <2>1. \A l \in 1 .. n : l \in 1 .. Len(rt) /\ rt[l] = rs[l]
    BY <1>1, <1>2
  <2> QED
    BY <2>1, Zenon DEF Fresh
<1>4. Tidy(rs) /\ from = W!Before(rs, n + 1) /\ pairs \subseteq Cites(rs)
  BY <1>3 DEF Numbered
<1>5. ASSUME NEW k \in 1 .. n + 1 PROVE W!Before(rt, k) = W!Before(rs, k)
  <2>1. \A l \in 1 .. k - 1 : DOMAIN rt[l].results = DOMAIN rs[l].results
    BY <1>1, <1>2
  <2> QED
    BY ONLY <2>1, BeforeSame
<1>6. W!Before(rt, n + 2) = W!Before(rt, n + 1) + 0
  <2>1. n + 1 \in 1 .. Len(rt) /\ (n + 1) + 1 = n + 2
    BY <1>1, <1>2
  <2>2. Len(rt[n + 1].results) = 0
    BY <1>1
  <2> QED
    BY <1>1, <2>1, <2>2, BeforeNext
<1>7. W!Before(rs, n + 1) \in Nat
  BY <1>2, BeforeCounts
<1>8. W!Before(rt, Len(rt) + 1) = from
  <2>1. n + 1 \in 1 .. n + 1 /\ Len(rt) + 1 = n + 2
    BY <1>1, <1>2
  <2>2. W!Before(rt, n + 1) = W!Before(rs, n + 1)
    BY <1>5, <2>1
  <2> HIDE DEF n
  <2> QED
    BY <1>4, <1>6, <1>7, <2>1, <2>2
<1>9. Tidy(rt)
  <2> SUFFICES ASSUME NEW k \in 1 .. Len(rt), NEW i \in DOMAIN rt[k].results
      PROVE  rt[k].results[i].mark \in {0, W!Before(rt, k) + i}
    BY DEF Tidy
  <2>1. k \in 1 .. n
    <3>1. k # n + 1
      BY <1>1
    <3> QED BY <1>1, <1>2, <3>1
  <2>2. rt[k] = rs[k] /\ W!Before(rt, k) = W!Before(rs, k)
    BY <1>1, <1>2, <1>5, <2>1
  <2> QED
    BY <1>4, <2>1, <2>2 DEF Tidy
<1>10. Cites(rs) \subseteq Cites(rt)
  <2>1. \A k \in 1 .. Len(rs) : rt[k].results = rs[k].results /\ W!Before(rt, k) = W!Before(rs, k)
    BY <1>1, <1>2, <1>5
  <2>2. Len(rs) <= Len(rt)
    BY <1>1, <1>2
  <2> QED
    BY <1>1, <2>1, <2>2, CitesGrow
<1> QED
  BY <1>4, <1>8, <1>9, <1>10

LEMMA HitNumbered ==
  ASSUME NEW rs \in Seq(Rounds), NEW r \in Rounds, r.hit, NEW rt, rt = Append(rs, r), NEW from, NEW pairs
  PROVE  Numbered(rt, from, pairs)
<1>1. Len(rs) + 1 \in 1 .. Len(rt) /\ rt[Len(rs) + 1] = r
  BY Appended, Len(rs) \in Nat
<1>2. ~Fresh(rt)
  BY <1>1, Zenon DEF Fresh
<1> QED
  BY <1>2 DEF Numbered

\* The last round, which was empty, gets its results: the numbers that the model
\* is given are those of the places.
LEMMA RecordNumbered ==
  ASSUME NEW rs \in Seq(Rounds), rs # <<>>, rs[Len(rs)].results = <<>>, NEW results, Bare(results),
         NEW rt, rt = Filled(rs, Len(rs), results),
         NEW from, NEW pairs, Numbered(rs, from, pairs)
  PROVE  Numbered(rt, from + W!Cardinality(W!Compact(results, from)),
                  pairs \cup W!Pairs(W!Compact(results, from)))
<1> DEFINE n == Len(rs)
           C == W!Compact(results, from)
<1> SUFFICES ASSUME Fresh(rt)
    PROVE  /\ Tidy(rt) /\ from + W!Cardinality(C) = W!Before(rt, Len(rt) + 1)
           /\ pairs \cup W!Pairs(C) \subseteq Cites(rt)
  BY DEF Numbered
<1>1. n \in Nat /\ n \in 1 .. n /\ results \in Seq(Page)
  BY DEF Bare
<1>2. /\ rt \in Seq(Rounds) /\ Len(rt) = n
      /\ \A l \in 1 .. n : l # n => rt[l] = rs[l]
      /\ rt[n].results = results /\ rt[n].hit = rs[n].hit
  BY <1>1, RecordedRounds
<1>3. Fresh(rs)
  <2>1. \A l \in 1 .. n : rt[l].hit = rs[l].hit
    BY <1>2, Zenon
  <2> QED
    BY <1>2, <2>1, Zenon DEF Fresh
<1>4. Tidy(rs) /\ from = W!Before(rs, n + 1) /\ pairs \subseteq Cites(rs)
  BY <1>3 DEF Numbered
<1>5. ASSUME NEW k \in 1 .. n PROVE W!Before(rt, k) = W!Before(rs, k) /\ W!Before(rs, k) \in Nat
  <2>1. \A l \in 1 .. k - 1 : DOMAIN rt[l].results = DOMAIN rs[l].results
    BY <1>1, <1>2
  <2>2. k \in 1 .. Len(rs) + 1
    BY <1>1
  <2>3. W!Before(rt, k) = W!Before(rs, k)
    BY ONLY <2>1, BeforeSame
  <2> QED
    BY <2>2, <2>3, BeforeCounts
<1>6. from = W!Before(rs, n) /\ from \in Nat
  <2>1. W!Before(rs, n + 1) = W!Before(rs, n) + Len(rs[n].results)
    BY <1>1, BeforeNext
  <2>2. Len(rs[n].results) = 0 /\ W!Before(rs, n) \in Nat
    BY <1>1, <1>5
  <2> QED
    BY <1>4, <2>1, <2>2
<1>7. W!Before(rt, n + 1) = from + Len(results)
  <2>1. W!Before(rt, n + 1) = W!Before(rt, n) + Len(rt[n].results)
    BY <1>1, <1>2, BeforeNext
  <2> QED
    BY <1>1, <1>2, <1>5, <1>6, <2>1
<1>8. /\ W!Cardinality(C) = Len(results)
      /\ \A z \in W!Pairs(C) : \E i \in DOMAIN results : z = <<from + i, results[i].page>>
  BY <1>6, CompactCounts
<1> HIDE DEF C
<1>9. Tidy(rt)
  <2> SUFFICES ASSUME NEW k \in 1 .. n, NEW i \in DOMAIN rt[k].results
      PROVE  rt[k].results[i].mark \in {0, W!Before(rt, k) + i}
    BY <1>2 DEF Tidy
  <2>1. CASE k = n
    BY <1>2, <2>1 DEF Bare
  <2>2. CASE k # n
    <3>1. rt[k] = rs[k] /\ W!Before(rt, k) = W!Before(rs, k)
      BY <1>2, <1>5, <2>2
    <3> QED
      BY <1>4, <3>1 DEF Tidy
  <2> QED BY <2>1, <2>2
<1>10. Cites(rs) \subseteq Cites(rt)
  <2>1. ASSUME NEW k \in 1 .. Len(rs), NEW i \in DOMAIN rs[k].results
        PROVE  rt[k].results = rs[k].results /\ W!Before(rt, k) = W!Before(rs, k)
    <3>1. k # n
      OBVIOUS
    <3> QED
      BY <1>2, <1>5, <3>1
  <2>2. Len(rs) <= Len(rt)
    BY <1>1, <1>2
  <2> QED
    BY <1>2, <2>1, <2>2, CitesGrow
<1>11. ASSUME NEW z \in W!Pairs(C) PROVE z \in Cites(rt)
  <2>1. PICK i \in DOMAIN results : z = <<from + i, results[i].page>>
    BY <1>8
  <2>2. MarkAt(rt, n, i) = from + i
    <3>1. rt[n].results[i].mark = 0
      BY <1>2, <2>1 DEF Bare
    <3>2. W!Before(rt, n) = from
      BY <1>1, <1>5, <1>6
    <3> QED
      BY <3>1, <3>2 DEF MarkAt
  <2>3. n \in 1 .. Len(rt) /\ i \in DOMAIN rt[n].results /\ z = <<MarkAt(rt, n, i), rt[n].results[i].page>>
    BY <1>1, <1>2, <2>1, <2>2
  <2> QED
    BY <1>2, <2>3, CitesAre
<1> QED
  BY <1>2, <1>4, <1>7, <1>8, <1>9, <1>10, <1>11

LEMMA OpenNumbered ==
  ASSUME NEW e, Ripe(e)
  PROVE  /\ e.rounds \in Seq(Rounds)
         /\ Numbered(e.rounds, W!Before(e.rounds, Len(e.rounds) + 1), W!Pairs(W!Elements(e.results)))
  BY EntryOf DEF Ripe, Numbered

LEMMA SearchInitially == W!Init => SearchInv
<1> SUFFICES ASSUME W!Init PROVE SearchInv
  OBVIOUS
<1>1. turn = "off" /\ rounds = <<>> /\ counter = 0 /\ entry = W!NoEntry
      /\ cache = [q \in W!Queries |-> W!NoEntry]
  BY DEF W!Init
<1>2. W!NoEntry \in Entries
  BY NothingRipe DEF Ripe
<1>3. Shelved(cache)
  BY <1>1, <1>2, NothingRipe DEF Shelved
<1>4. rounds \in Seq(Rounds)
  BY <1>1
<1> QED
  BY <1>1, <1>3, <1>4, NothingRipe DEF SearchInv

LEMMA ReadyKeeps ==
  ASSUME turn' = "ready", rounds' \in Seq(Rounds), counter' \in Nat,
         Shelved(cache'), Ripe(entry'), Numbered(rounds', offset', given')
  PROVE  SearchInv'
  BY DEF SearchInv

LEMMA OpenKeeps ==
  ASSUME NEW e, Ripe(e), W!Open(e), Shelved(cache'), Ripe(entry')
  PROVE  SearchInv'
<1>1. /\ turn' = "ready" /\ rounds' = e.rounds
      /\ counter' = IF e.rounds = <<>> THEN 0 ELSE e.rounds[Len(e.rounds)].index
      /\ offset' = W!Before(e.rounds, Len(e.rounds) + 1)
      /\ given' = W!Pairs(W!Elements(e.results))
  BY DEF W!Open
<1>2. e.rounds \in Seq(Rounds) /\ Numbered(rounds', offset', given')
  BY <1>1, OpenNumbered
<1>3. counter' \in Nat
  <2>1. CASE e.rounds = <<>>
    BY <1>1, <2>1
  <2>2. CASE e.rounds # <<>>
    <3>1. Len(e.rounds) \in 1 .. Len(e.rounds)
      BY <1>2, <2>2
    <3>2. e.rounds[Len(e.rounds)] \in Rounds
      BY <1>2, <3>1, RoundOf
    <3> QED
      BY <1>1, <2>2, <3>2 DEF Rounds
  <2> QED BY <2>1, <2>2
<1> QED
  BY <1>1, <1>2, <1>3, ReadyKeeps

\* An entry may be put into the cache or taken out of it.
LEMMA ShelfKeeps ==
  ASSUME NEW kept, Shelved(kept), NEW e, Ripe(e), NEW q
  PROVE  Shelved([kept EXCEPT ![q] = e])
<1>1. e \in Entries
  BY DEF Ripe
<1>2. [kept EXCEPT ![q] = e] \in [W!Queries -> Entries]
  BY <1>1 DEF Shelved
<1>3. ASSUME NEW p \in W!Queries PROVE Ripe([kept EXCEPT ![q] = e][p])
  <2>1. CASE p = q
    BY <2>1 DEF Shelved
  <2>2. CASE p # q
    BY <2>2 DEF Shelved
  <2> QED BY <2>1, <2>2
<1> QED
  BY <1>2, <1>3 DEF Shelved

LEMMA BeginsKeep == ASSUME SearchInv, W!Begin \/ W!BeginCached PROVE SearchInv'
<1>1. UNCHANGED <<entry, cache>> /\ (W!Open(W!NoEntry) \/ W!Open(cache[q1]))
  BY DEF W!Begin, W!BeginCached
<1>2. Shelved(cache') /\ Ripe(entry')
  BY <1>1 DEF SearchInv
<1>3. Ripe(cache[q1])
  BY DEF SearchInv, Shelved, W!Queries
<1> QED
  BY <1>1, <1>2, <1>3, NothingRipe, OpenKeeps

LEMMA NoResults == <<>> \in Seq(Page) /\ Bare(<<>>)
  BY ServicesAssumption DEF Bare

\* A round of a search that has just begun, and of one that is refused.
LEMMA EmptyRound ==
  ASSUME NEW q \in W!Queries, NEW i \in Nat, NEW s \in {"searching", "done"}
  PROVE  /\ W!Round(q, i, s, <<>>, FALSE) \in Rounds
         /\ W!Round(q, i, s, <<>>, FALSE).results = <<>>
         /\ W!Round(q, i, s, <<>>, FALSE).status = s
  BY NoResults DEF W!Round, Rounds

LEMMA BeginFreshKeeps == ASSUME SearchInv, W!BeginFresh PROVE SearchInv'
<1> DEFINE r1 == W!Round(q1, 1, "searching", <<>>, FALSE)
           r2 == W!Round(q2, 2, "searching", <<>>, FALSE)
<1>1. turn' = "prefetch" /\ rounds' = <<r1, r2>> /\ UNCHANGED <<counter, offset, given, entry, cache>>
  BY DEF W!BeginFresh, W!marks
<1>2. /\ r1 \in Rounds /\ r1.results = <<>>
      /\ r2 \in Rounds /\ r2.results = <<>>
  <2>1. q1 \in W!Queries /\ q2 \in W!Queries
    BY DEF W!Queries
  <2> QED
    BY <2>1, EmptyRound
<1> HIDE DEF r1, r2
<1>3. rounds' \in Seq(Rounds) /\ Len(rounds') = 2 /\ rounds'[1] = r1 /\ rounds'[2] = r2
  BY <1>1, <1>2
<1>4. \A k \in 1 .. Len(rounds') : Bare(rounds'[k].results)
  BY <1>2, <1>3, NoResults
<1> QED
  BY <1>1, <1>3, <1>4 DEF SearchInv

LEMMA CompletesKeeps == ASSUME SearchInv, NEW k \in 1 .. 2, W!Completes(k) PROVE SearchInv'
<1>1. PICK found \in W!Found :
        rounds' = [rounds EXCEPT ![k].results = found, ![k].status = "done"]
  BY DEF W!Completes
<1>2. /\ turn = "prefetch" /\ turn' = "prefetch" /\ k <= Len(rounds)
      /\ UNCHANGED <<counter, offset, given, entry, cache>>
  BY DEF W!Completes, W!marks
<1>3. Bare(found) /\ found \in Seq(Page)
  BY FoundBare DEF Bare
<1>4. rounds \in Seq(Rounds) /\ k \in 1 .. Len(rounds) /\ \A l \in 1 .. Len(rounds) : Bare(rounds[l].results)
  BY <1>2 DEF SearchInv
<1>5. rounds' = Filled(rounds, k, found)
  BY <1>1 DEF Filled
<1>6. /\ rounds' \in Seq(Rounds) /\ Len(rounds') = Len(rounds)
      /\ \A l \in 1 .. Len(rounds) : l # k => rounds'[l] = rounds[l]
      /\ rounds'[k].results = found
  BY <1>3, <1>4, <1>5, RecordedRounds
<1>7. \A l \in 1 .. Len(rounds') : Bare(rounds'[l].results)
  BY <1>3, <1>4, <1>6
<1> QED
  BY <1>2, <1>6, <1>7 DEF SearchInv

LEMMA PrefetchedKeeps == ASSUME SearchInv, W!Prefetched PROVE SearchInv'
<1>1. PICK e \in W!Aggregates(rounds) :
        IF e.results = <<>> THEN W!Open(e) /\ UNCHANGED entry
        ELSE turn' = "saving" /\ entry' = e /\ UNCHANGED <<rounds, counter, offset, given>>
  BY DEF W!Prefetched, W!marks
<1>2. /\ turn = "prefetch" /\ UNCHANGED cache
      /\ \A k \in 1 .. Len(rounds) : rounds[k].status = "done"
  BY DEF W!Prefetched
<1>3. rounds \in Seq(Rounds) /\ Tidy(rounds)
  BY <1>2, BareRounds DEF SearchInv
<1>4. Ripe(e) /\ Shelved(cache')
  BY <1>2, <1>3, AggregatesRipe DEF SearchInv
<1>5. CASE e.results = <<>>
  <2>1. W!Open(e) /\ Ripe(entry')
    BY <1>1, <1>5 DEF SearchInv
  <2> QED
    BY <1>4, <2>1, OpenKeeps
<1>6. CASE e.results # <<>>
  <2>1. turn' = "saving" /\ entry' = e /\ UNCHANGED <<rounds, counter, offset, given>>
    BY <1>1, <1>6
  <2>2. rounds # <<>>
    <3>1. SUFFICES ASSUME rounds = <<>> PROVE FALSE
      OBVIOUS
    <3>2. W!Firsts(rounds) = {}
      BY <3>1, FirstsAmong
    <3>3. W!Cardinality(W!Firsts(rounds)) = 0
      BY <3>2, SearchCounts, FS_EmptySet
    <3>4. e.results \in [1 .. 0 -> W!Firsts(rounds)]
      BY <3>3 DEF W!Aggregates
    <3> QED
      BY <1>6, <3>4
  <2>3. Len(rounds) \in 1 .. Len(rounds)
    BY <1>3, <2>2
  <2>4. ~W!InTool'
    BY <1>2, <2>1, <2>3 DEF W!InTool, W!Newest
  <2> QED
    BY <1>3, <1>4, <2>1, <2>2, <2>4 DEF SearchInv
<1> QED
  BY <1>5, <1>6

LEMMA NewestIs ==
  ASSUME SearchInv, rounds # <<>>
  PROVE  /\ rounds \in Seq(Rounds) /\ Len(rounds) \in 1 .. Len(rounds)
         /\ W!Newest \in Rounds /\ W!Newest = rounds[Len(rounds)]
<1>1. rounds \in Seq(Rounds)
  BY DEF SearchInv
<1>2. Len(rounds) \in 1 .. Len(rounds)
  BY <1>1
<1> QED
  BY <1>1, <1>2, RoundOf DEF W!Newest

\* A tool call that went to Tavily has its answer.
LEMMA RecordKeeps ==
  ASSUME SearchInv, turn = "searching" \/ (turn = "saving" /\ W!InTool), NEW results, Bare(results),
         W!Record(results), Shelved(cache'), Ripe(entry')
  PROVE  SearchInv'
<1>1. /\ rounds # <<>> /\ W!Newest.results = <<>> /\ counter \in Nat
      /\ Numbered(rounds, offset, given)
  BY DEF SearchInv
<1>2. /\ rounds' = Filled(rounds, Len(rounds), results) /\ turn' = "ready" /\ counter' = counter
      /\ given' = given \cup W!Pairs(W!Compact(results, offset))
      /\ offset' = offset + W!Cardinality(W!Compact(results, offset))
  BY DEF W!Record, W!Answers, Filled
<1>3. /\ rounds \in Seq(Rounds) /\ Len(rounds) \in 1 .. Len(rounds)
      /\ rounds[Len(rounds)].results = <<>> /\ results \in Seq(Page)
  BY <1>1, NewestIs DEF Bare
<1>4. rounds' \in Seq(Rounds)
  BY <1>2, <1>3, RecordedRounds
<1>5. Numbered(rounds', offset', given')
  BY <1>1, <1>2, <1>3, RecordNumbered
<1> QED
  BY <1>1, <1>2, <1>4, <1>5, ReadyKeeps

LEMMA Unmarked ==
  ASSUME NEW e \in Seq(Page), Len(e) <= ResultLimit
  PROVE  Bare([i \in DOMAIN e |-> [e[i] EXCEPT !.mark = 0]])
<1> DEFINE n == Len(e)
           f == [i \in 1 .. n |-> [e[i] EXCEPT !.mark = 0]]
<1>1. n \in Nat /\ DOMAIN e = 1 .. n /\ \A i \in 1 .. n : e[i] \in Page
  OBVIOUS
<1>2. \A i \in 1 .. n : f[i] \in Page /\ f[i].mark = 0
  BY <1>1 DEF Page
<1>3. f \in [1 .. n -> Page]
  BY <1>2
<1>4. f = [i \in DOMAIN e |-> [e[i] EXCEPT !.mark = 0]]
  BY <1>1
<1> HIDE DEF f, n
<1>5. f \in Seq(Page) /\ DOMAIN f = 1 .. n
  BY <1>1, <1>3
<1>6. Len(f) = n
  BY <1>1, <1>5
<1>7. Bare(f)
  BY <1>2, <1>5, <1>6 DEF Bare, n
<1> QED
  BY <1>4, <1>7

LEMMA SavedKeeps == ASSUME SearchInv, W!Saved PROVE SearchInv'
<1>1. /\ turn = "saving" /\ entry' = W!NoEntry /\ rounds # <<>>
      /\ \E q : cache' = [cache EXCEPT ![q] = entry]
  BY DEF W!Saved, SearchInv
<1>2. Shelved(cache') /\ Ripe(entry')
  <2>1. Shelved(cache) /\ Ripe(entry)
    BY DEF SearchInv
  <2>2. PICK q : cache' = [cache EXCEPT ![q] = entry]
    BY <1>1
  <2> QED
    BY <1>1, <2>1, <2>2, ShelfKeeps, NothingRipe
<1>3. CASE W!InTool
  <2> DEFINE e == entry.rounds[1].results
             results == [i \in DOMAIN e |-> [e[i] EXCEPT !.mark = 0]]
  <2>1. W!Record(results)
    BY <1>3 DEF W!Saved
  <2>2. entry.rounds # <<>> /\ Len(e) <= ResultLimit /\ Ripe(entry)
    BY <1>1, <1>3 DEF SearchInv
  <2>3. entry.rounds \in Seq(Rounds)
    BY <2>2, EntryOf DEF Ripe
  <2>4. 1 \in 1 .. Len(entry.rounds)
    BY <2>2, <2>3
  <2>5. e \in Seq(Page)
    BY <2>3, <2>4, RoundOf
  <2> HIDE DEF e
  <2>6. Bare(results)
    BY <2>2, <2>5, Unmarked
  <2> HIDE DEF results
  <2> QED
    BY <1>1, <1>2, <1>3, <2>1, <2>6, RecordKeeps
<1>4. CASE ~W!InTool
  <2>1. W!Open(entry) /\ Ripe(entry)
    BY <1>4 DEF W!Saved, SearchInv
  <2> QED
    BY <1>2, <2>1, OpenKeeps
<1> QED
  BY <1>3, <1>4

LEMMA SaveFailsKeeps == ASSUME SearchInv, W!SaveFails PROVE SearchInv'
<1>1. /\ turn = "saving" /\ entry' = W!NoEntry /\ turn' = IF W!InTool THEN "ready" ELSE "failed"
      /\ UNCHANGED <<rounds, counter, offset, given, cache>>
  BY DEF W!SaveFails, W!marks
<1>2. rounds' \in Seq(Rounds) /\ counter' \in Nat /\ Shelved(cache') /\ Ripe(entry')
  BY <1>1, NothingRipe DEF SearchInv
<1>3. CASE W!InTool
  <2>1. Numbered(rounds', offset', given')
    BY <1>1, <1>3 DEF SearchInv
  <2> QED
    BY <1>1, <1>2, <1>3, <2>1, ReadyKeeps
<1>4. CASE ~W!InTool
  BY <1>1, <1>2, <1>4 DEF SearchInv
<1> QED
  BY <1>3, <1>4

LEMMA LostKeeps == ASSUME SearchInv, NEW q \in W!Queries, W!Lost(q) PROVE SearchInv'
<1>1. /\ cache' = [cache EXCEPT ![q] = W!NoEntry]
      /\ UNCHANGED <<turn, rounds, counter, offset, given, entry>>
  BY DEF W!Lost, W!marks
<1>2. Shelved(cache')
  BY <1>1, NothingRipe, ShelfKeeps DEF SearchInv
<1>3. (W!InTool' <=> W!InTool) /\ W!Newest' = W!Newest
  BY <1>1 DEF W!InTool, W!Newest
<1> QED
  BY <1>1, <1>2, <1>3 DEF SearchInv

LEMMA AskCachedKeeps == ASSUME SearchInv, NEW q \in W!Queries, W!AskCached(q) PROVE SearchInv'
<1> DEFINE r == W!Round(q, counter + 1, "done", cache[q].results, TRUE)
<1>1. /\ turn = "ready" /\ turn' = "ready" /\ counter' = counter + 1
      /\ rounds' = Append(rounds, r) /\ UNCHANGED <<entry, cache>>
  BY DEF W!AskCached, W!NewRound
<1>2. rounds \in Seq(Rounds) /\ counter \in Nat /\ counter + 1 \in Nat /\ Shelved(cache) /\ Ripe(entry)
  BY DEF SearchInv
<1>3. cache[q].results \in Seq(Page)
  BY <1>2, EntryOf DEF Shelved
<1>4. r \in Rounds
  BY <1>2, <1>3 DEF W!Round, Rounds
<1>5. r.hit
  BY HitIs
<1> HIDE DEF r
<1>6. rounds' \in Seq(Rounds)
  BY <1>1, <1>2, <1>4, Appended
<1>7. Numbered(rounds', offset', given')
  BY <1>1, <1>2, <1>4, <1>5, HitNumbered
<1> QED
  BY <1>1, <1>2, <1>6, <1>7, ReadyKeeps

LEMMA AskFreshKeeps == ASSUME SearchInv, NEW q \in W!Queries, W!AskFresh(q) PROVE SearchInv'
<1> DEFINE r == W!Round(q, counter + 1, "searching", <<>>, FALSE)
<1>1. /\ turn = "ready" /\ turn' = "searching" /\ counter' = counter + 1
      /\ rounds' = Append(rounds, r) /\ UNCHANGED <<offset, given, entry, cache>>
  BY DEF W!AskFresh, W!NewRound, W!marks
<1>2. /\ rounds \in Seq(Rounds) /\ counter + 1 \in Nat /\ Shelved(cache) /\ Ripe(entry)
      /\ Numbered(rounds, offset, given)
  BY <1>1 DEF SearchInv
<1>3. r \in Rounds /\ r.results = <<>> /\ r.status = "searching"
  BY <1>2, EmptyRound
<1> HIDE DEF r
<1>4. rounds' \in Seq(Rounds) /\ Len(rounds') = Len(rounds) + 1 /\ rounds'[Len(rounds) + 1] = r
  BY <1>1, <1>2, <1>3, Appended
<1>5. rounds' # <<>>
  BY <1>2, <1>4
<1>6. Numbered(rounds', offset', given')
  BY <1>1, <1>2, <1>3, AppendNumbered
<1>7. W!Newest' = r /\ W!InTool'
  BY <1>3, <1>4 DEF W!InTool, W!Newest
<1> QED
  BY <1>1, <1>2, <1>3, <1>4, <1>5, <1>6, <1>7 DEF SearchInv

LEMMA RefuseKeeps == ASSUME SearchInv, NEW q \in W!Queries, W!Refuse(q) PROVE SearchInv'
<1> DEFINE r == W!Round(q, counter + 1, "done", <<>>, FALSE)
<1>1. /\ turn = "ready" /\ turn' = "ready" /\ counter' = counter + 1
      /\ rounds' = Append(rounds, r) /\ UNCHANGED <<offset, given, entry, cache>>
  BY DEF W!Refuse, W!marks
<1>2. /\ rounds \in Seq(Rounds) /\ counter + 1 \in Nat /\ Shelved(cache) /\ Ripe(entry)
      /\ Numbered(rounds, offset, given)
  BY <1>1 DEF SearchInv
<1>3. r \in Rounds /\ r.results = <<>>
  BY <1>2, EmptyRound
<1> HIDE DEF r
<1>4. rounds' \in Seq(Rounds)
  BY <1>1, <1>2, <1>3, Appended
<1>5. Numbered(rounds', offset', given')
  BY <1>1, <1>2, <1>3, AppendNumbered
<1> QED
  BY <1>1, <1>2, <1>4, <1>5, ReadyKeeps

LEMMA FindsKeeps == ASSUME SearchInv, W!Finds PROVE SearchInv'
<1>1. PICK found \in W!Found :
        entry' \in W!Aggregates(<<[W!Newest EXCEPT !.results = found, !.status = "done"]>>)
  BY DEF W!Finds
<1>2. turn = "searching" /\ turn' = "saving" /\ UNCHANGED <<rounds, counter, offset, given, cache>>
  BY DEF W!Finds, W!marks
<1>3. /\ rounds # <<>> /\ W!InTool /\ W!Newest.results = <<>> /\ Shelved(cache)
      /\ counter \in Nat /\ Numbered(rounds, offset, given)
  BY <1>2 DEF SearchInv
<1>4. W!Newest \in Rounds /\ rounds \in Seq(Rounds)
  BY <1>3, NewestIs
<1>5. Bare(found) /\ found \in Seq(Page) /\ Len(found) <= ResultLimit
  BY FoundBare DEF Bare
<1> DEFINE r == [W!Newest EXCEPT !.results = found, !.status = "done"]
           rs == <<r>>
<1>6. r \in Rounds /\ r.results = found
  BY <1>4, <1>5 DEF Rounds
<1>7. entry' \in W!Aggregates(rs)
  BY <1>1
<1> HIDE DEF r
<1>8. rs \in Seq(Rounds) /\ Len(rs) = 1 /\ rs[1] = r
  BY <1>6
<1> HIDE DEF rs
<1>9. Tidy(rs)
  <2>1. \A k \in 1 .. Len(rs) : Bare(rs[k].results)
    BY <1>5, <1>6, <1>8
  <2> QED
    BY <2>1, BareRounds
<1>10. Ripe(entry') /\ entry'.rounds = W!Marked(rs)
  BY <1>7, <1>8, <1>9, AggregatesRipe
<1>11. /\ W!Marked(rs) \in Seq(Rounds) /\ Len(W!Marked(rs)) = 1
       /\ DOMAIN W!Marked(rs)[1].results = DOMAIN rs[1].results
  BY <1>8, MarkedRounds
<1>12. entry'.rounds # <<>>
  <2>1. Len(W!Marked(rs)) # Len(<<>>)
    BY <1>11
  <2> QED
    BY <1>10, <2>1
<1>13. Len(entry'.rounds[1].results) <= ResultLimit
  <2>1. 1 \in 1 .. Len(W!Marked(rs))
    BY <1>11
  <2>2. W!Marked(rs)[1].results \in Seq(Page)
    BY <1>11, <2>1, RoundOf
  <2>3. Len(W!Marked(rs)[1].results) = Len(found)
    BY <1>5, <1>6, <1>8, <1>11, <2>2
  <2> QED
    BY <1>5, <1>10, <2>3
<1>14. W!InTool' /\ W!Newest' = W!Newest
  BY <1>2, <1>3 DEF W!InTool, W!Newest
<1> QED
  BY <1>2, <1>3, <1>4, <1>10, <1>12, <1>13, <1>14 DEF SearchInv

LEMMA SearchPreserved == SearchInv /\ [W!Next]_(W!vars) => SearchInv'
<1> SUFFICES ASSUME SearchInv, [W!Next]_(W!vars) PROVE SearchInv'
  OBVIOUS
<1>1. CASE W!FindsNothing
  <2>1. turn = "searching" /\ W!Record(<<>>) /\ UNCHANGED <<entry, cache>>
    BY <1>1 DEF W!FindsNothing
  <2>2. Shelved(cache') /\ Ripe(entry')
    BY <2>1 DEF SearchInv
  <2> QED
    BY <2>1, <2>2, NoResults, RecordKeeps
<1>2. CASE W!End
  <2>1. turn' = "off" /\ rounds' = <<>> /\ counter' = 0 /\ UNCHANGED <<entry, cache>>
    BY <1>2 DEF W!End
  <2>2. rounds' \in Seq(Rounds)
    BY <2>1
  <2> QED
    BY <2>1, <2>2 DEF SearchInv
<1>3. CASE UNCHANGED W!vars
  <2>1. UNCHANGED <<turn, rounds, counter, offset, given, entry, cache>>
    BY <1>3 DEF W!vars, W!marks
  <2>2. (W!InTool' <=> W!InTool) /\ W!Newest' = W!Newest
    BY <2>1 DEF W!InTool, W!Newest
  <2> QED
    BY <2>1, <2>2 DEF SearchInv
<1> QED
  BY <1>1, <1>2, <1>3, BeginsKeep, BeginFreshKeeps, CompletesKeeps, PrefetchedKeeps, SavedKeeps,
     SaveFailsKeeps, FindsKeeps, AskCachedKeeps, AskFreshKeeps, RefuseKeeps, LostKeeps DEF W!Next

(***************************************************************************)
(* MarkersAgree: in a turn whose tool calls all went to Tavily, a marker   *)
(* that the model was given stands for the same page in the rounds of the  *)
(* browser, and for no other, for every number of results, searches and    *)
(* turns, however the searches of the prefetch overtook each other and     *)
(* whichever save failed.                                                  *)
(***************************************************************************)
THEOREM MarkersAgreeAlways == W!Spec => []MarkersAgree
<1>1. SearchInv => MarkersAgree
  <2> SUFFICES ASSUME SearchInv, turn = "ready", \A k \in 1 .. Len(rounds) : ~rounds[k].hit
      PROVE  given \subseteq Cites(rounds) /\ \A x, y \in Cites(rounds) : x[1] = y[1] => x = y
    BY DEF MarkersAgree, W!MarkersAgree, Cites
  <2>1. rounds \in Seq(Rounds) /\ Numbered(rounds, offset, given) /\ Fresh(rounds)
    BY DEF SearchInv, Fresh
  <2>2. Tidy(rounds) /\ given \subseteq Cites(rounds)
    BY <2>1 DEF Numbered
  <2> QED
    BY <2>1, <2>2, CitesDiffer
<1> QED
  BY SearchInitially, SearchPreserved, <1>1, PTL DEF W!Spec

(***************************************************************************)
(* The specification that the run services checks, in which one machine    *)
(* takes steps and the others rest, has the safety part of each machine    *)
(* proved about here; so all that was proved of them holds of it.          *)
(***************************************************************************)
THEOREM ServicesHold ==
  MCSpec => [](/\ NoLostUpdate /\ SearchFindsWhatStays /\ AnswersStayInScope
               /\ AnnouncedOnceNeverLost /\ OverrunBounded /\ CallsKeepOrder
               /\ WellLayered /\ MarkersAgree)
<1>1. MCInit => M!Init /\ G!Init /\ S!Init /\ R!Init /\ B!Init /\ T!Init /\ W!Init
  BY DEF MCInit
<1>2. [MCNext]_all => [M!Next]_(M!vars)
  BY DEF MCNext, all, dataVars, memoryVars, M!vars
<1>3. [MCNext]_all => [G!Next]_(G!ragVars)
  BY DEF MCNext, all, fileVars, G!ragVars
<1>4. [MCNext]_all => [S!Next]_(S!vars)
  BY DEF MCNext, all, dataVars, cacheVars, S!vars
<1>5. [MCNext]_all => [R!Next]_(R!vars)
  BY DEF MCNext, all, dataVars, reminderVars, R!vars
<1>6. [MCNext]_all => [B!Next]_(B!vars)
  BY DEF MCNext, all, dataVars, budgetVars, B!vars
<1>7. [MCNext]_all => [T!Next]_(T!vars)
  BY DEF MCNext, all, toolVars, T!vars, T!turn
<1>8. [MCNext]_all => [W!Next]_(W!vars)
  BY DEF MCNext, all, searchVars, W!vars, W!marks
<1>9. [MCNext]_all => [Next]_vars
  BY DEF MCNext, all, vars
<1>10. MCInit => Init
  BY DEF MCInit
<1>11. MCSpec => /\ Spec /\ M!Spec /\ S!Spec /\ R!Spec /\ B!Spec /\ T!Spec /\ W!Spec
                /\ G!Init /\ [][G!Next]_(G!ragVars)
  BY <1>1, <1>2, <1>3, <1>4, <1>5, <1>6, <1>7, <1>8, <1>9, <1>10, PTL
     DEF MCSpec, Spec, M!Spec, S!Spec, R!Spec, B!Spec, T!Spec, W!Spec
<1> QED
  BY <1>11, NoUpdateIsLost, SearchFinds, AnswersStay, RemindersHold, OverrunIsBounded, CallsKeep, LayersHold,
     MarkersAgreeAlways, PTL
=============================================================================
