--------------------------- MODULE AgentRunProofs ---------------------------
(***************************************************************************)
(* Safety of a durable agent run for every plan, every layering and any    *)
(* number of crashes, requests and stragglers: what the file calls         *)
(* succeeded is whole, layers start on durable outputs, a busy run has a   *)
(* worker, and a resume keeps what succeeded.                              *)
(***************************************************************************)
EXTENDS AgentRun, TLAPS

(***************************************************************************)
(* The inductive invariant.  SucceededIsWhole needs to know that no event  *)
(* of a running agent hits a node that succeeded, hence Unfinished; that a *)
(* call which returns has streamed into an entry that was empty when it    *)
(* started, hence Cleared; that a first execution starts with nothing in   *)
(* the file, hence Untouched, which holds because only an executing        *)
(* thread, whose status is running or was orphaned by a sweep, writes      *)
(* there, and has no call at work once the layers are over, hence Working; *)
(* and that a resume skips every node that succeeded, hence                *)
(* Recorded and Reopened.  LayersSettled is what EarlierLayersDurable      *)
(* says, with what the thread knows.  An entry that a straggler has hit is *)
(* left out wherever the file's output is meant, never where the thread's  *)
(* memory is.                                                              *)
(***************************************************************************)
Executing == {"reset", "tier", "revise", "revising", "redo", "redoing",
              "clear", "synth", "finish", "close"}

\* Until the first execution nothing has succeeded.
Untouched ==
  \/ status \in {"none", "awaiting_plan"}
  \/ pc \in {"planning", "approved"}
  \/ pc = "start" /\ job \in {"start", "continue"}
  => \A n \in Nodes :
       node[n] # "succeeded" /\ (n \notin stained => output[n] = "none")

\* A thread that executes has said so in the file, unless a sweep wrote over it.
ExecutingStatus == pc \in Executing => status \in {"running", "orphaned"}

\* What the thread is about to run, runs or has seen fail is not succeeded.
Unfinished ==
  \A n \in Nodes :
    \/ work[n] \in Running \cup {"failed"}
    \/ work[n] = "none" /\ pc \in {"reset", "tier"}
    \/ work[n] = "none" /\ pc \in {"revising", "redoing"} /\ n = target
    => node[n] # "succeeded"

\* Whoever succeeded has an entry: the seeds of a resume leave out nobody it
\* does not reset.
Recorded == \A n \in Nodes : node[n] = "succeeded" => output[n] # "none"

\* What the thread is about to run has no entry; what streams has begun one.
Cleared ==
  \A n \in Nodes \ stained :
    /\ work[n] = "none"
       /\ \/ pc = "tier"
          \/ pc = "reset" /\ n \notin todo
          \/ pc \in {"revising", "redoing"} /\ n = target
       => output[n] = "none"
    /\ work[n] = "retrying" => output[n] = "none"
    /\ work[n] \in {"running", "again"} => output[n] = "partial"

\* Only a layer, a revision and a rerun have calls at work.
Working ==
  \A n \in Nodes :
    work[n] \in Running =>
      \/ pc = "tier"
      \/ pc \in {"revising", "redoing"} /\ n = target

\* A thread starts without outputs; a resume has those it will not reset.
Reopened ==
  /\ pc \in {"start", "planning", "approved", "redo"} =>
       \A n \in Nodes : work[n] = "none"
  /\ pc = "reset" =>
       \A n \in Nodes :
         \/ work[n] = "none"
         \/ /\ work[n] = "seed" /\ n \notin todo
            /\ n \notin stained => output[n] \in OutputOf("seed")

\* What a layer builds on is settled in the thread and final in the file.
LayersSettled ==
  pc = "tier" =>
    \A n \in Nodes :
      /\ work[n] \in Settled /\ n \notin stained =>
           output[n] \in OutputOf(work[n])
      /\ work[n] \notin Settled \cup {"none"} =>
           \A m \in Nodes : LayerOf[m] < LayerOf[n] => work[m] \in Settled

\* A thread, and what it knows, live in a running process; a rerun or a
\* revision has an agent to run.
Threaded ==
  /\ pc # "none" => up
  /\ ~up => \A n \in Nodes : work[n] = "none"
  /\ pc \in {"redo", "redoing", "revising"} => target \in Nodes

\* The inductive invariant.
IInv ==
  /\ TypeOK /\ SucceededIsWhole /\ BusyHasWorker /\ FinishHasAnswer
  /\ Untouched /\ ExecutingStatus /\ Unfinished /\ Reopened
  /\ LayersSettled /\ Threaded /\ Recorded /\ Cleared /\ Working

-----------------------------------------------------------------------------
(* Type correctness.                                                       *)

\* A counter below its bound stays within it.
LEMMA CounterStep ==
  ASSUME NEW M \in Nat, NEW c \in 0..M, c < M
  PROVE  c + 1 \in 0..M
OBVIOUS

\* Every step of the thread, of a handler, of the sweep and of the server
\* keeps the file and the thread's memory well formed.
LEMMA TypePreserved ==
  ASSUME TypeOK, Threaded, Next
  PROVE  TypeOK'
<1> USE ConstantsAssumption
    DEF TypeOK, Statuses, Places, Progress, States, Outputs, Answers,
        Running, Settled, Busy, Set, Go, disk, plumbing, bounds,
        Emissions, Afresh, Further, Say, Trouble
\* start_planned_run and continue_with_plan.
<1>1. ASSUME JobInvalid PROVE TypeOK'
  BY <1>1, ZenonT(40) DEF JobInvalid, Fail
<1>2. ASSUME StartPlanning PROVE TypeOK'
  BY <1>2, ZenonT(40) DEF StartPlanning
<1>3. ASSUME Planned PROVE TypeOK'
  BY <1>3, ZenonT(40) DEF Planned
<1>4. ASSUME PlanApproved PROVE TypeOK'
  BY <1>4, ZenonT(40) DEF PlanApproved
<1>5. ASSUME ContinuePlan PROVE TypeOK'
  BY <1>5, ZenonT(40) DEF ContinuePlan
\* resume_run.
<1>6. ASSUME ResumeAnswered PROVE TypeOK'
  BY <1>6, ZenonT(40) DEF ResumeAnswered, Resuming, Incomplete, Succeeded
<1>7. ASSUME ResumeUnanswered PROVE TypeOK'
  BY <1>7, ZenonT(40) DEF ResumeUnanswered, Resuming, Incomplete, Succeeded
<1>8. ASSUME ResumeIncomplete PROVE TypeOK'
  BY <1>8, ZenonT(40)
     DEF ResumeIncomplete, Resuming, Incomplete, Succeeded, Seeds
<1>9. ASSUME ResumeExecutes PROVE TypeOK'
  BY <1>9, ZenonT(40) DEF ResumeExecutes
\* The end of a layer, and of the layers.
<1>10. ASSUME NEW n \in Nodes, TierPosts(n) PROVE TypeOK'
  <2>1. work[n] \in {"whole", "failed"}
    BY <1>10 DEF TierPosts, TierEnded, Tier, Unsettled
  <2>2. (/\ status \in Statuses /\ answer \in Answers
         /\ node \in [Nodes -> States] /\ output \in [Nodes -> Outputs])'
    BY <1>10, <2>1 DEF TierPosts, AgentOutput
  <2>3. (/\ up \in BOOLEAN /\ pc \in Places /\ sweeping \in BOOLEAN
         /\ job \in {"start", "continue", "resume", "auto", "rerun"}
         /\ target \in Nodes \cup {None} /\ resynth \in BOOLEAN
         /\ work \in [Nodes -> Progress] /\ todo \subseteq Nodes)'
    BY <1>10 DEF TierPosts, Posted
  <2>4. (/\ requests \in 0..MaxRequests /\ troubles \in 0..MaxTroubles
         /\ late \subseteq Nodes \X Emissions /\ stained \subseteq Nodes)'
    BY <1>10 DEF TierPosts
  <2> QED  BY <2>2, <2>3, <2>4
<1>11. ASSUME BudgetSpent PROVE TypeOK'
  BY <1>11, ZenonT(40) DEF BudgetSpent, Tier, Unsettled
<1>12. ASSUME TiersEnd PROVE TypeOK'
  BY <1>12, ZenonT(40) DEF TiersEnd, Tier, Unsettled
\* The revision.
<1>13. ASSUME NoRevision PROVE TypeOK'
  BY <1>13, ZenonT(40) DEF NoRevision
<1>14. ASSUME RevisionRuns PROVE TypeOK'
  BY <1>14, ZenonT(40) DEF RevisionRuns, AgentRunning
<1>15. ASSUME RevisionReturns PROVE TypeOK'
  <2>1. (/\ status \in Statuses /\ answer \in Answers
         /\ node \in [Nodes -> States] /\ output \in [Nodes -> Outputs])'
    BY <1>15 DEF RevisionReturns, AgentDone, Ends
  <2>2. (/\ up \in BOOLEAN /\ pc \in Places /\ sweeping \in BOOLEAN
         /\ job \in {"start", "continue", "resume", "auto", "rerun"}
         /\ target \in Nodes \cup {None} /\ resynth \in BOOLEAN
         /\ work \in [Nodes -> Progress] /\ todo \subseteq Nodes)'
    BY <1>15 DEF RevisionReturns, AgentDone, Ends
  <2>3. (/\ requests \in 0..MaxRequests /\ troubles \in 0..MaxTroubles
         /\ late \subseteq Nodes \X Emissions /\ stained \subseteq Nodes)'
    BY <1>15 DEF RevisionReturns, AgentDone, Ends
  <2> QED  BY <2>1, <2>2, <2>3
<1>16. ASSUME RevisionRaises PROVE TypeOK'
  <2>1. (/\ status \in Statuses /\ answer \in Answers
         /\ node \in [Nodes -> States] /\ output \in [Nodes -> Outputs])'
    BY <1>16 DEF RevisionRaises, AgentError, Ends
  <2>2. (/\ up \in BOOLEAN /\ pc \in Places /\ sweeping \in BOOLEAN
         /\ job \in {"start", "continue", "resume", "auto", "rerun"}
         /\ target \in Nodes \cup {None} /\ resynth \in BOOLEAN
         /\ work \in [Nodes -> Progress] /\ todo \subseteq Nodes)'
    BY <1>16 DEF RevisionRaises, AgentError, Ends
  <2>3. (/\ requests \in 0..MaxRequests /\ troubles \in 0..MaxTroubles
         /\ late \subseteq Nodes \X Emissions /\ stained \subseteq Nodes)'
    BY <1>16 DEF RevisionRaises, AgentError, Ends
  <2> QED  BY <2>1, <2>2, <2>3
\* rerun_agent.
<1>17. ASSUME RerunSynthesis PROVE TypeOK'
  BY <1>17, ZenonT(40) DEF RerunSynthesis
<1>18. ASSUME RerunAgent PROVE TypeOK'
  BY <1>18, ZenonT(40) DEF RerunAgent
<1>19. ASSUME RerunReset PROVE TypeOK'
  BY <1>19, ZenonT(40) DEF RerunReset, AgentReset
<1>20. ASSUME RerunRuns PROVE TypeOK'
  BY <1>20, ZenonT(40) DEF RerunRuns, AgentRunning
<1>21. ASSUME RerunReturns PROVE TypeOK'
  <2>1. (/\ status \in Statuses /\ answer \in Answers
         /\ node \in [Nodes -> States] /\ output \in [Nodes -> Outputs])'
    BY <1>21 DEF RerunReturns, AgentOutput, Ends, AfterRerun, Threaded
  <2>2. (/\ up \in BOOLEAN /\ pc \in Places /\ sweeping \in BOOLEAN
         /\ job \in {"start", "continue", "resume", "auto", "rerun"}
         /\ target \in Nodes \cup {None} /\ resynth \in BOOLEAN
         /\ work \in [Nodes -> Progress] /\ todo \subseteq Nodes)'
    BY <1>21 DEF RerunReturns, AgentOutput, Ends, AfterRerun, Threaded
  <2>3. (/\ requests \in 0..MaxRequests /\ troubles \in 0..MaxTroubles
         /\ late \subseteq Nodes \X Emissions /\ stained \subseteq Nodes)'
    BY <1>21 DEF RerunReturns, AgentOutput, Ends, AfterRerun, Threaded
  <2> QED  BY <2>1, <2>2, <2>3
<1>22. ASSUME RerunRaises PROVE TypeOK'
  <2>1. (/\ status \in Statuses /\ answer \in Answers
         /\ node \in [Nodes -> States] /\ output \in [Nodes -> Outputs])'
    BY <1>22 DEF RerunRaises, AgentOutput, Ends, AfterRerun, Threaded
  <2>2. (/\ up \in BOOLEAN /\ pc \in Places /\ sweeping \in BOOLEAN
         /\ job \in {"start", "continue", "resume", "auto", "rerun"}
         /\ target \in Nodes \cup {None} /\ resynth \in BOOLEAN
         /\ work \in [Nodes -> Progress] /\ todo \subseteq Nodes)'
    BY <1>22 DEF RerunRaises, AgentOutput, Ends, AfterRerun, Threaded
  <2>3. (/\ requests \in 0..MaxRequests /\ troubles \in 0..MaxTroubles
         /\ late \subseteq Nodes \X Emissions /\ stained \subseteq Nodes)'
    BY <1>22 DEF RerunRaises, AgentOutput, Ends, AfterRerun, Threaded
  <2> QED  BY <2>1, <2>2, <2>3
\* The synthesis and the end of a job.
<1>23. ASSUME ClearAnswer PROVE TypeOK'
  BY <1>23, ZenonT(40) DEF ClearAnswer
<1>24. ASSUME NothingToSynthesize PROVE TypeOK'
  BY <1>24, ZenonT(40) DEF NothingToSynthesize, Fail, HasOutputs
<1>25. ASSUME SynthesisContent PROVE TypeOK'
  BY <1>25, ZenonT(40) DEF SynthesisContent, HasOutputs
<1>26. ASSUME SynthesisEnds PROVE TypeOK'
  BY <1>26, ZenonT(40) DEF SynthesisEnds, HasOutputs
<1>27. ASSUME SynthesisBreaks PROVE TypeOK'
  BY <1>27, ZenonT(40) DEF SynthesisBreaks, HasOutputs
<1>28. ASSUME Finish PROVE TypeOK'
  BY <1>28, ZenonT(40) DEF Finish
<1>29. ASSUME Close PROVE TypeOK'
  BY <1>29, ZenonT(40) DEF Close
<1>30. ASSUME Exit PROVE TypeOK'
  BY <1>30, ZenonT(40) DEF Exit
\* Steps of one agent.
<1>31. ASSUME NEW n \in Nodes, ResumeReset(n) PROVE TypeOK'
  BY <1>31, ZenonT(40) DEF ResumeReset, AgentReset
<1>32. ASSUME NEW n \in Nodes, StreamBreaks(n) PROVE TypeOK'
  <2>1. (/\ status \in Statuses /\ answer \in Answers
         /\ node \in [Nodes -> States] /\ output \in [Nodes -> Outputs])'
    BY <1>32 DEF StreamBreaks, AgentReset
  <2>2. (/\ up \in BOOLEAN /\ pc \in Places /\ sweeping \in BOOLEAN
         /\ job \in {"start", "continue", "resume", "auto", "rerun"}
         /\ target \in Nodes \cup {None} /\ resynth \in BOOLEAN
         /\ work \in [Nodes -> Progress] /\ todo \subseteq Nodes)'
    BY <1>32 DEF StreamBreaks, AgentReset
  <2>3. (/\ requests \in 0..MaxRequests /\ troubles \in 0..MaxTroubles
         /\ late \subseteq Nodes \X Emissions /\ stained \subseteq Nodes)'
    BY <1>32 DEF StreamBreaks, AgentReset
  <2> QED  BY <2>1, <2>2, <2>3
<1>33. ASSUME NEW n \in Nodes, StreamRestarts(n) PROVE TypeOK'
  <2>1. (/\ status \in Statuses /\ answer \in Answers
         /\ node \in [Nodes -> States] /\ output \in [Nodes -> Outputs])'
    BY <1>33 DEF StreamRestarts, AgentRunning
  <2>2. (/\ up \in BOOLEAN /\ pc \in Places /\ sweeping \in BOOLEAN
         /\ job \in {"start", "continue", "resume", "auto", "rerun"}
         /\ target \in Nodes \cup {None} /\ resynth \in BOOLEAN
         /\ work \in [Nodes -> Progress] /\ todo \subseteq Nodes)'
    BY <1>33 DEF StreamRestarts, AgentRunning
  <2>3. (/\ requests \in 0..MaxRequests /\ troubles \in 0..MaxTroubles
         /\ late \subseteq Nodes \X Emissions /\ stained \subseteq Nodes)'
    BY <1>33 DEF StreamRestarts, AgentRunning
  <2> QED  BY <2>1, <2>2, <2>3
<1>34. ASSUME NEW n \in Nodes, AgentStarts(n) PROVE TypeOK'
  <2>1. (/\ status \in Statuses /\ answer \in Answers
         /\ node \in [Nodes -> States] /\ output \in [Nodes -> Outputs])'
    BY <1>34 DEF AgentStarts, AgentRunning, Tier, Unsettled
  <2>2. (/\ up \in BOOLEAN /\ pc \in Places /\ sweeping \in BOOLEAN
         /\ job \in {"start", "continue", "resume", "auto", "rerun"}
         /\ target \in Nodes \cup {None} /\ resynth \in BOOLEAN
         /\ work \in [Nodes -> Progress] /\ todo \subseteq Nodes)'
    BY <1>34 DEF AgentStarts, AgentRunning, Tier, Unsettled
  <2>3. (/\ requests \in 0..MaxRequests /\ troubles \in 0..MaxTroubles
         /\ late \subseteq Nodes \X Emissions /\ stained \subseteq Nodes)'
    BY <1>34 DEF AgentStarts, AgentRunning, Tier, Unsettled
  <2> QED  BY <2>1, <2>2, <2>3
<1>35. ASSUME NEW n \in Nodes, AgentReturns(n) PROVE TypeOK'
  BY <1>35, ZenonT(40)
     DEF AgentReturns, AgentDone, Ends, TierStarted, Tier, Unsettled
<1>36. ASSUME NEW n \in Nodes, AgentRaises(n) PROVE TypeOK'
  BY <1>36, ZenonT(40) DEF AgentRaises, AgentError, Ends
<1>37. ASSUME NEW n \in Nodes, Revise(n) PROVE TypeOK'
  BY <1>37, ZenonT(40) DEF Revise, AgentReset
\* The handlers.
<1>38. ASSUME Create PROVE TypeOK'
  BY <1>38, ZenonT(40) DEF Create, EnsureStarted
<1>39. ASSUME ConfirmPlan PROVE TypeOK'
  <2>1. (/\ status \in Statuses /\ answer \in Answers
         /\ node \in [Nodes -> States] /\ output \in [Nodes -> Outputs])'
    BY <1>39 DEF ConfirmPlan, EnsureStarted, Request
  <2>2. (/\ up \in BOOLEAN /\ pc \in Places /\ sweeping \in BOOLEAN
         /\ job \in {"start", "continue", "resume", "auto", "rerun"}
         /\ target \in Nodes \cup {None} /\ resynth \in BOOLEAN
         /\ work \in [Nodes -> Progress] /\ todo \subseteq Nodes)'
    BY <1>39 DEF ConfirmPlan, EnsureStarted, Request
  <2>3. (/\ requests \in 0..MaxRequests /\ troubles \in 0..MaxTroubles
         /\ late \subseteq Nodes \X Emissions /\ stained \subseteq Nodes)'
    BY <1>39, CounterStep DEF ConfirmPlan, EnsureStarted, Request
  <2> QED  BY <2>1, <2>2, <2>3
<1>40. ASSUME Resume PROVE TypeOK'
  <2>1. (/\ status \in Statuses /\ answer \in Answers
         /\ node \in [Nodes -> States] /\ output \in [Nodes -> Outputs])'
    BY <1>40 DEF Resume, EnsureStarted, Request
  <2>2. (/\ up \in BOOLEAN /\ pc \in Places /\ sweeping \in BOOLEAN
         /\ job \in {"start", "continue", "resume", "auto", "rerun"}
         /\ target \in Nodes \cup {None} /\ resynth \in BOOLEAN
         /\ work \in [Nodes -> Progress] /\ todo \subseteq Nodes)'
    BY <1>40 DEF Resume, EnsureStarted, Request
  <2>3. (/\ requests \in 0..MaxRequests /\ troubles \in 0..MaxTroubles
         /\ late \subseteq Nodes \X Emissions /\ stained \subseteq Nodes)'
    BY <1>40, CounterStep DEF Resume, EnsureStarted, Request
  <2> QED  BY <2>1, <2>2, <2>3
<1>41. ASSUME NEW t \in Nodes \cup {None}, NEW r \in BOOLEAN, Rerun(t, r)
       PROVE  TypeOK'
  <2>1. (/\ status \in Statuses /\ answer \in Answers
         /\ node \in [Nodes -> States] /\ output \in [Nodes -> Outputs])'
    BY <1>41 DEF Rerun, EnsureStarted, Request
  <2>2. (/\ up \in BOOLEAN /\ pc \in Places /\ sweeping \in BOOLEAN
         /\ job \in {"start", "continue", "resume", "auto", "rerun"}
         /\ target \in Nodes \cup {None} /\ resynth \in BOOLEAN
         /\ work \in [Nodes -> Progress] /\ todo \subseteq Nodes)'
    BY <1>41 DEF Rerun, EnsureStarted, Request
  <2>3. (/\ requests \in 0..MaxRequests /\ troubles \in 0..MaxTroubles
         /\ late \subseteq Nodes \X Emissions /\ stained \subseteq Nodes)'
    BY <1>41, CounterStep DEF Rerun, EnsureStarted, Request
  <2> QED  BY <2>1, <2>2, <2>3
\* The sweep, crashes and boot.
<1>42. ASSUME SweepReads PROVE TypeOK'
  <2>1. (/\ status \in Statuses /\ answer \in Answers
         /\ node \in [Nodes -> States] /\ output \in [Nodes -> Outputs])'
    BY <1>42 DEF SweepReads
  <2>2. (/\ up \in BOOLEAN /\ pc \in Places /\ sweeping \in BOOLEAN
         /\ job \in {"start", "continue", "resume", "auto", "rerun"}
         /\ target \in Nodes \cup {None} /\ resynth \in BOOLEAN
         /\ work \in [Nodes -> Progress] /\ todo \subseteq Nodes)'
    BY <1>42 DEF SweepReads
  <2>3. (/\ requests \in 0..MaxRequests /\ troubles \in 0..MaxTroubles
         /\ late \subseteq Nodes \X Emissions /\ stained \subseteq Nodes)'
    BY <1>42, CounterStep DEF SweepReads
  <2> QED  BY <2>1, <2>2, <2>3
<1>43. ASSUME SweepMarks PROVE TypeOK'
  BY <1>43, ZenonT(40) DEF SweepMarks
<1>44. ASSUME Crash PROVE TypeOK'
  <2>1. (/\ status \in Statuses /\ answer \in Answers
         /\ node \in [Nodes -> States] /\ output \in [Nodes -> Outputs])'
    BY <1>44 DEF Crash
  <2>2. (/\ up \in BOOLEAN /\ pc \in Places /\ sweeping \in BOOLEAN
         /\ job \in {"start", "continue", "resume", "auto", "rerun"}
         /\ target \in Nodes \cup {None} /\ resynth \in BOOLEAN
         /\ work \in [Nodes -> Progress] /\ todo \subseteq Nodes)'
    BY <1>44 DEF Crash
  <2>3. (/\ requests \in 0..MaxRequests /\ troubles \in 0..MaxTroubles
         /\ late \subseteq Nodes \X Emissions /\ stained \subseteq Nodes)'
    BY <1>44, CounterStep DEF Crash
  <2> QED  BY <2>1, <2>2, <2>3
<1>45. ASSUME Boot PROVE TypeOK'
  <2>1. (/\ status \in Statuses /\ answer \in Answers
         /\ node \in [Nodes -> States] /\ output \in [Nodes -> Outputs])'
    BY <1>45 DEF Boot, Orphaned
  <2>2. (/\ up \in BOOLEAN /\ pc \in Places /\ sweeping \in BOOLEAN
         /\ job \in {"start", "continue", "resume", "auto", "rerun"}
         /\ target \in Nodes \cup {None} /\ resynth \in BOOLEAN
         /\ work \in [Nodes -> Progress] /\ todo \subseteq Nodes)'
    BY <1>45 DEF Boot, Orphaned
  <2>3. (/\ requests \in 0..MaxRequests /\ troubles \in 0..MaxTroubles
         /\ late \subseteq Nodes \X Emissions /\ stained \subseteq Nodes)'
    BY <1>45 DEF Boot, Orphaned
  <2> QED  BY <2>1, <2>2, <2>3
<1>46. ASSUME Quiet PROVE TypeOK'
  BY <1>46, ZenonT(40) DEF Quiet, vars
\* A given-up call, its late event, and the post of a revision.
<1>47. ASSUME NEW n \in Nodes, AgentTimesOut(n) PROVE TypeOK'
  <2>1. (/\ status \in Statuses /\ answer \in Answers
         /\ node \in [Nodes -> States] /\ output \in [Nodes -> Outputs])'
    BY <1>47 DEF AgentTimesOut, AgentError
  <2>2. (/\ up \in BOOLEAN /\ pc \in Places /\ sweeping \in BOOLEAN
         /\ job \in {"start", "continue", "resume", "auto", "rerun"}
         /\ target \in Nodes \cup {None} /\ resynth \in BOOLEAN
         /\ work \in [Nodes -> Progress] /\ todo \subseteq Nodes)'
    BY <1>47 DEF AgentTimesOut
  <2>3. NextOf(work[n]) \subseteq Emissions
    BY DEF NextOf
  <2>4. \/ UNCHANGED <<late, troubles>>
        \/ /\ troubles < MaxTroubles /\ troubles' = troubles + 1
           /\ \E e \in Emissions : late' = late \cup {<<n, e>>}
    BY <1>47, <2>3 DEF AgentTimesOut
  <2>5. troubles' \in 0..MaxTroubles
    <3>1. troubles \in 0..MaxTroubles /\ MaxTroubles \in Nat
      OBVIOUS
    <3> QED  BY ONLY <2>4, <3>1, CounterStep
  <2>6. late' \subseteq Nodes \X Emissions
    <3>1. late \subseteq Nodes \X Emissions
      OBVIOUS
    <3> QED  BY ONLY <2>4, <3>1, n \in Nodes
  <2>7. requests' = requests /\ stained' = stained
    BY <1>47 DEF AgentTimesOut
  <2> QED  BY <2>1, <2>2, <2>5, <2>6, <2>7
<1>48. ASSUME NEW n \in Nodes, NEW e \in Emissions, StragglerEmits(n, e)
       PROVE  TypeOK'
  <2>1. (/\ status \in Statuses /\ answer \in Answers
         /\ node \in [Nodes -> States] /\ output \in [Nodes -> Outputs])'
    BY <1>48 DEF StragglerEmits, AgentDelta, AgentReset, AgentRunning
  <2>2. (/\ up \in BOOLEAN /\ pc \in Places /\ sweeping \in BOOLEAN
         /\ job \in {"start", "continue", "resume", "auto", "rerun"}
         /\ target \in Nodes \cup {None} /\ resynth \in BOOLEAN
         /\ work \in [Nodes -> Progress] /\ todo \subseteq Nodes)'
    BY <1>48 DEF StragglerEmits
  <2>3. (/\ requests \in 0..MaxRequests /\ troubles \in 0..MaxTroubles
         /\ late \subseteq Nodes \X Emissions /\ stained \subseteq Nodes)'
    BY <1>48 DEF StragglerEmits
  <2> QED  BY <2>1, <2>2, <2>3
<1>49. ASSUME RevisionPosts PROVE TypeOK'
  BY <1>49, ZenonT(40) DEF RevisionPosts, AgentOutput, Threaded
<1> QED
  BY <1>1, <1>2, <1>3, <1>4, <1>5, <1>6, <1>7, <1>8, <1>9, <1>10, <1>11,
    <1>12, <1>13, <1>14, <1>15, <1>16, <1>17, <1>18, <1>19, <1>20, <1>21,
    <1>22, <1>23, <1>24, <1>25, <1>26, <1>27, <1>28, <1>29, <1>30, <1>31,
    <1>32, <1>33, <1>34, <1>35, <1>36, <1>37, <1>38, <1>39, <1>40, <1>41,
    <1>42, <1>43, <1>44, <1>45, <1>46, <1>47, <1>48, <1>49
    DEF Next, ThreadStep, Straggle, UserStep

-----------------------------------------------------------------------------
(* The inductive step.                                                     *)

\* An agent of the first unsettled layer starts when every agent of the
\* earlier layers is settled.
LEMMA EarlierSettled ==
  ASSUME TypeOK, NEW n \in Tier, NEW m \in Nodes, LayerOf[m] < LayerOf[n]
  PROVE  work[m] \in Settled
<1>1. n \in Nodes /\ LayerOf[n] \in Nat /\ LayerOf[m] \in Nat
  BY ConstantsAssumption DEF Tier, Unsettled
<1>2. m \in Unsettled => LayerOf[n] <= LayerOf[m]
  BY DEF Tier
<1> QED  BY <1>1, <1>2 DEF Unsettled

\* Whoever runs in a layer is of the first unsettled one.
LEMMA LayersIdle ==
  ASSUME TypeOK, LayersSettled, pc = "tier",
         \A n \in Tier : work[n] = "none"
  PROVE  \A n \in Nodes : work[n] \notin Running
<1> SUFFICES ASSUME NEW n \in Nodes, work[n] \in Running PROVE FALSE
  OBVIOUS
<1>1. \A m \in Nodes : LayerOf[m] < LayerOf[n] => work[m] \in Settled
  BY DEF LayersSettled, Running, Settled
<1>2. \A m \in Unsettled : LayerOf[n] <= LayerOf[m]
  BY <1>1, ConstantsAssumption DEF Unsettled
<1>3. n \in Tier
  BY <1>2 DEF Tier, Unsettled, Running, Settled
<1> QED  BY <1>3 DEF Running

\* The plan is in the file and nothing has run.
LEMMA PlannedStep ==
  ASSUME IInv, Planned, TypeOK'
  PROVE  IInv'
<1>1. /\ pc = "planning" /\ UNCHANGED <<up, node, output, answer, stained, work,
                                         todo, job, target>>
      /\ \/ status' = "awaiting_plan" /\ pc' = "exit"
         \/ status' = "running" /\ pc' = "tier"
  BY DEF Planned, Set, Go, plumbing, bounds
<1>2. Untouched' /\ Reopened'
  BY <1>1 DEF IInv, Untouched, Reopened
<1>3. SucceededIsWhole' /\ Recorded'
  BY <1>1 DEF IInv, SucceededIsWhole, Recorded
<1>4. Unfinished' /\ Cleared'
  BY <1>1 DEF IInv, Untouched, Reopened, Unfinished, Cleared, Running
<1>5. LayersSettled'
  BY <1>1 DEF IInv, Reopened, LayersSettled, Settled
<1>6. BusyHasWorker' /\ FinishHasAnswer' /\ ExecutingStatus' /\ Threaded'
     /\ Working'
  BY <1>1 DEF IInv, BusyHasWorker, FinishHasAnswer, ExecutingStatus, Executing,
              Threaded, Busy, Working, Reopened, Running
<1> QED  BY <1>2, <1>3, <1>4, <1>5, <1>6 DEF IInv

\* The entry of the agent to run again is empty.
LEMMA RerunResetStep ==
  ASSUME IInv, RerunReset, TypeOK'
  PROVE  IInv'
<1>1. /\ pc = "redo" /\ pc' = "redoing" /\ target \in Nodes
      /\ node' = [node EXCEPT ![target] = "retrying"]
      /\ output' = [output EXCEPT ![target] = "none"]
      /\ stained' = stained \ {target} /\ stained \subseteq Nodes
      /\ UNCHANGED <<status, answer, up, job, target, work, todo>>
      /\ node \in [Nodes -> States] /\ output \in [Nodes -> Outputs]
      /\ \A n \in Nodes : work[n] \notin Running
  BY DEF IInv, TypeOK, Threaded, Reopened, Running, RerunReset, AgentReset,
         Afresh, Go, plumbing, bounds
<1>2. Untouched' /\ Reopened' /\ LayersSettled'
  BY <1>1 DEF IInv, ExecutingStatus, Executing, Untouched, Reopened,
              LayersSettled
<1>3. SucceededIsWhole' /\ Recorded'
  BY <1>1 DEF IInv, SucceededIsWhole, Recorded
<1>4. Unfinished'
  BY <1>1 DEF IInv, Unfinished
<1>5. Cleared'
  BY <1>1 DEF Cleared, Running
<1>6. BusyHasWorker' /\ FinishHasAnswer' /\ ExecutingStatus' /\ Threaded'
     /\ Working'
  BY <1>1 DEF IInv, BusyHasWorker, FinishHasAnswer, ExecutingStatus, Executing,
              Threaded, Busy, Working, Reopened, Running
<1> QED  BY <1>2, <1>3, <1>4, <1>5, <1>6 DEF IInv

\* The first stream broke: the entry is empty again.
LEMMA StreamBreaksStep ==
  ASSUME IInv, NEW n \in Nodes, StreamBreaks(n), TypeOK'
  PROVE  IInv'
<1>1. /\ work[n] = "running" /\ work' = [work EXCEPT ![n] = "retrying"]
      /\ node' = [node EXCEPT ![n] = "retrying"]
      /\ output' = [output EXCEPT ![n] = "none"]
      /\ stained' = stained \ {n}
      /\ UNCHANGED <<status, answer, up, pc, job, target, todo>>
      /\ node \in [Nodes -> States] /\ output \in [Nodes -> Outputs]
      /\ work \in [Nodes -> Progress]
  BY DEF IInv, TypeOK, StreamBreaks, AgentReset, Afresh, Go, plumbing, bounds
<1>2. LayersSettled'
  BY <1>1 DEF IInv, LayersSettled, Settled
<1>3. SucceededIsWhole' /\ Recorded'
  BY <1>1 DEF IInv, SucceededIsWhole, Recorded, Unfinished, Cleared, Running
<1>4. Unfinished'
  BY <1>1 DEF IInv, Unfinished, Running
<1>5. Cleared'
  BY <1>1 DEF IInv, Cleared
<1>6. Reopened'
  <2>1. pc \notin {"start", "planning", "approved", "redo", "reset"}
    BY <1>1 DEF IInv, Reopened
  <2> QED  BY <1>1, <2>1 DEF Reopened
<1>9. Untouched'
  <2> SUFFICES ASSUME NEW m \in Nodes,
                      \/ status \in {"none", "awaiting_plan"}
                      \/ pc \in {"planning", "approved"}
                      \/ pc = "start" /\ job \in {"start", "continue"}
               PROVE  /\ node'[m] # "succeeded"
                      /\ m \notin stained' => output'[m] = "none"
    BY <1>1 DEF Untouched
  <2>1. /\ \A k \in Nodes : node[k] # "succeeded"
        /\ \A k \in Nodes \ stained : output[k] = "none"
    BY DEF IInv, Untouched
  <2>2. CASE m # n
    BY <1>1, <2>1, <2>2
  <2>3. CASE m = n
    BY <1>1, <2>1, <2>3 DEF IInv, Cleared
  <2> QED  BY <2>2, <2>3
<1>7. BusyHasWorker' /\ FinishHasAnswer' /\ ExecutingStatus'
  BY <1>1 DEF IInv, BusyHasWorker, FinishHasAnswer, ExecutingStatus, Busy
<1>8. Threaded' /\ Working'
  BY <1>1 DEF IInv, Threaded, Working, Running
<1> QED  BY <1>2, <1>3, <1>4, <1>5, <1>6, <1>7, <1>8, <1>9 DEF IInv

\* The second stream begins an entry.
LEMMA StreamRestartsStep ==
  ASSUME IInv, NEW n \in Nodes, StreamRestarts(n), TypeOK'
  PROVE  IInv'
<1>1. /\ work[n] = "retrying" /\ work' = [work EXCEPT ![n] = "again"]
      /\ node' = [node EXCEPT ![n] = "running"]
      /\ output' = [output EXCEPT ![n] = IF @ = "none" THEN "partial" ELSE @]
      /\ stained' = stained
      /\ UNCHANGED <<status, answer, up, pc, job, target, todo>>
      /\ node \in [Nodes -> States] /\ output \in [Nodes -> Outputs]
      /\ work \in [Nodes -> Progress]
  BY DEF IInv, TypeOK, StreamRestarts, AgentRunning, Further, Go, plumbing, bounds
<1>2. LayersSettled'
  BY <1>1 DEF IInv, LayersSettled, Settled
<1>3. SucceededIsWhole' /\ Recorded'
  BY <1>1 DEF IInv, SucceededIsWhole, Recorded, Unfinished, Cleared, Running
<1>4. Unfinished'
  BY <1>1 DEF IInv, Unfinished, Running
<1>5. Cleared'
  BY <1>1 DEF IInv, Cleared
<1>6. Reopened'
  <2>1. pc \notin {"start", "planning", "approved", "redo", "reset"}
    BY <1>1 DEF IInv, Reopened
  <2> QED  BY <1>1, <2>1 DEF Reopened
<1>9. Untouched'
  <2> SUFFICES ASSUME NEW m \in Nodes,
                      \/ status \in {"none", "awaiting_plan"}
                      \/ pc \in {"planning", "approved"}
                      \/ pc = "start" /\ job \in {"start", "continue"}
               PROVE  /\ node'[m] # "succeeded"
                      /\ m \notin stained' => output'[m] = "none"
    BY <1>1 DEF Untouched
  <2>1. /\ \A k \in Nodes : node[k] # "succeeded"
        /\ \A k \in Nodes \ stained : output[k] = "none"
    BY DEF IInv, Untouched
  <2>2. CASE m # n
    BY <1>1, <2>1, <2>2
  <2>3. m # n
    BY <1>1 DEF IInv, Working, ExecutingStatus, Executing, Running
  <2> QED  BY <2>2, <2>3
<1>7. BusyHasWorker' /\ FinishHasAnswer' /\ ExecutingStatus'
  BY <1>1 DEF IInv, BusyHasWorker, FinishHasAnswer, ExecutingStatus, Busy
<1>8. Threaded' /\ Working'
  BY <1>1 DEF IInv, Threaded, Working, Running
<1> QED  BY <1>2, <1>3, <1>4, <1>5, <1>6, <1>7, <1>8, <1>9 DEF IInv

\* A late event hits one entry, which is stained from then on.
LEMMA StragglerStep ==
  ASSUME IInv, NEW n \in Nodes, NEW e \in Emissions, StragglerEmits(n, e), TypeOK'
  PROVE  IInv'
<1>1. /\ stained' = stained \cup {n}
      /\ \A m \in Nodes \ {n} : node'[m] = node[m] /\ output'[m] = output[m]
      /\ UNCHANGED <<status, answer, up, pc, job, target, work, todo>>
      /\ node'[n] = "succeeded" => node[n] = "succeeded" /\ output'[n] # "none"
  <2>1. node \in [Nodes -> States] /\ output \in [Nodes -> Outputs]
    BY DEF IInv, TypeOK
  <2>2. CASE e = "delta" /\ AgentDelta(n)
    BY <2>1, <2>2 DEF StragglerEmits, AgentDelta
  <2>3. CASE e = "reset" /\ AgentReset(n)
    BY <2>1, <2>3 DEF StragglerEmits, AgentReset
  <2>4. CASE e = "running" /\ AgentRunning(n)
    BY <2>1, <2>4 DEF StragglerEmits, AgentRunning
  <2> QED  BY <2>2, <2>3, <2>4 DEF StragglerEmits
<1>2. SucceededIsWhole' /\ Cleared'
  BY <1>1 DEF IInv, SucceededIsWhole, Cleared
<1>3. Unfinished' /\ Recorded'
  BY <1>1 DEF IInv, Unfinished, Recorded
<1>4. LayersSettled'
  BY <1>1 DEF IInv, LayersSettled
<1>5. Untouched'
  BY <1>1 DEF IInv, Untouched
<1>6. Reopened'
  BY <1>1 DEF IInv, Reopened
<1>7. BusyHasWorker' /\ FinishHasAnswer' /\ ExecutingStatus' /\ Threaded'
     /\ Working'
  BY <1>1 DEF IInv, BusyHasWorker, FinishHasAnswer, ExecutingStatus, Threaded,
              Working
<1> QED  BY <1>2, <1>3, <1>4, <1>5, <1>6, <1>7 DEF IInv

\* Every step preserves the inductive invariant.
LEMMA Preserved ==
  ASSUME IInv, Next
  PROVE  IInv'
<1>0. TypeOK'
  BY TypePreserved DEF IInv
<1> USE <1>0, ConstantsAssumption
    DEF IInv, TypeOK, SucceededIsWhole, BusyHasWorker, FinishHasAnswer,
        Untouched, ExecutingStatus, Unfinished, Reopened, LayersSettled,
        Threaded, Recorded, Cleared, Working, Busy, Running, Settled, Executing,
        Set, Go, disk, plumbing, bounds, OutputOf,
        Afresh, Further, Say, Trouble
\* start_planned_run and continue_with_plan.
<1>1. ASSUME JobInvalid PROVE IInv'
  BY <1>1, ZenonT(40) DEF JobInvalid, Fail
<1>2. ASSUME StartPlanning PROVE IInv'
  BY <1>2, ZenonT(40) DEF StartPlanning
<1>3. ASSUME Planned PROVE IInv'
  BY <1>3, PlannedStep
<1>4. ASSUME PlanApproved PROVE IInv'
  BY <1>4, ZenonT(40) DEF PlanApproved
<1>5. ASSUME ContinuePlan PROVE IInv'
  BY <1>5, ZenonT(40) DEF ContinuePlan
\* resume_run.
<1>6. ASSUME ResumeAnswered PROVE IInv'
  BY <1>6, ZenonT(40) DEF ResumeAnswered, Resuming, Incomplete, Succeeded
<1>7. ASSUME ResumeUnanswered PROVE IInv'
  BY <1>7, ZenonT(40) DEF ResumeUnanswered, Resuming, Incomplete, Succeeded
<1>8. ASSUME ResumeIncomplete PROVE IInv'
  BY <1>8, ZenonT(40)
     DEF ResumeIncomplete, Resuming, Incomplete, Succeeded, Seeds
<1>9. ASSUME ResumeExecutes PROVE IInv'
  BY <1>9, ZenonT(40) DEF ResumeExecutes
\* The end of a layer, and of the layers.
<1>10. ASSUME NEW n \in Nodes, TierPosts(n) PROVE IInv'
  <2>1. work[n] \in {"whole", "failed"}
    BY <1>10 DEF TierPosts, TierEnded, Tier, Unsettled
  <2>2. SucceededIsWhole' /\ Unfinished' /\ Recorded' /\ Cleared'
    BY <1>10, <2>1 DEF TierPosts, TierEnded, Posted, AgentOutput
  <2>3. LayersSettled'
    BY <1>10, <2>1 DEF TierPosts, TierEnded, Posted, AgentOutput
  <2>4. Untouched' /\ Reopened'
    BY <1>10, <2>1 DEF TierPosts, TierEnded, Posted, AgentOutput
  <2>5. BusyHasWorker' /\ FinishHasAnswer' /\ ExecutingStatus' /\ Threaded'
        /\ Working'
    BY <1>10 DEF TierPosts, TierEnded, Posted, AgentOutput
  <2> QED  BY <2>2, <2>3, <2>4, <2>5
<1>11. ASSUME BudgetSpent PROVE IInv'
  BY <1>11, LayersIdle DEF BudgetSpent
<1>12. ASSUME TiersEnd PROVE IInv'
  BY <1>12, LayersIdle DEF TiersEnd
\* The revision.
<1>13. ASSUME NoRevision PROVE IInv'
  BY <1>13, ZenonT(40) DEF NoRevision
<1>14. ASSUME RevisionRuns PROVE IInv'
  BY <1>14, SMTT(30) DEF RevisionRuns, AgentRunning
<1>15. ASSUME RevisionReturns PROVE IInv'
  BY <1>15, SMTT(30) DEF RevisionReturns, AgentDone, Ends
<1>16. ASSUME RevisionRaises PROVE IInv'
  BY <1>16, SMTT(30) DEF RevisionRaises, AgentError, Ends
\* rerun_agent.
<1>17. ASSUME RerunSynthesis PROVE IInv'
  BY <1>17, ZenonT(40) DEF RerunSynthesis
<1>18. ASSUME RerunAgent PROVE IInv'
  BY <1>18, ZenonT(40) DEF RerunAgent
<1>19. ASSUME RerunReset PROVE IInv'
  BY <1>19, RerunResetStep
<1>20. ASSUME RerunRuns PROVE IInv'
  BY <1>20, SMTT(30) DEF RerunRuns, AgentRunning
<1>21. ASSUME RerunReturns PROVE IInv'
  BY <1>21, SMTT(30) DEF RerunReturns, AgentOutput, Ends, AfterRerun
<1>22. ASSUME RerunRaises PROVE IInv'
  BY <1>22, SMTT(30) DEF RerunRaises, AgentOutput, Ends, AfterRerun
\* The synthesis and the end of a job.
<1>23. ASSUME ClearAnswer PROVE IInv'
  BY <1>23, ZenonT(40) DEF ClearAnswer
<1>24. ASSUME NothingToSynthesize PROVE IInv'
  BY <1>24, ZenonT(40) DEF NothingToSynthesize, Fail, HasOutputs
<1>25. ASSUME SynthesisContent PROVE IInv'
  BY <1>25, ZenonT(40) DEF SynthesisContent, HasOutputs
<1>26. ASSUME SynthesisEnds PROVE IInv'
  BY <1>26, ZenonT(40) DEF SynthesisEnds, HasOutputs
<1>27. ASSUME SynthesisBreaks PROVE IInv'
  BY <1>27, ZenonT(40) DEF SynthesisBreaks, HasOutputs
<1>28. ASSUME Finish PROVE IInv'
  BY <1>28, ZenonT(40) DEF Finish
<1>29. ASSUME Close PROVE IInv'
  BY <1>29, ZenonT(40) DEF Close
<1>30. ASSUME Exit PROVE IInv'
  BY <1>30, ZenonT(40) DEF Exit
\* Steps of one agent.
<1>31. ASSUME NEW n \in Nodes, ResumeReset(n) PROVE IInv'
  BY <1>31, SMTT(30) DEF ResumeReset, AgentReset
<1>32. ASSUME NEW n \in Nodes, StreamBreaks(n) PROVE IInv'
  BY <1>32, StreamBreaksStep
<1>33. ASSUME NEW n \in Nodes, StreamRestarts(n) PROVE IInv'
  BY <1>33, StreamRestartsStep
<1>34. ASSUME NEW n \in Nodes, AgentStarts(n) PROVE IInv'
  <2>1. /\ n \in Tier /\ pc = "tier" /\ pc' = "tier" /\ work[n] = "none"
        /\ work' = [work EXCEPT ![n] = "running"]
        /\ output' = [output EXCEPT ![n] = IF @ = "none" THEN "partial" ELSE @]
    BY <1>34 DEF AgentStarts, AgentRunning
  <2>2. \A m \in Nodes : LayerOf[m] < LayerOf[n] => work[m] \in Settled
    BY <2>1, EarlierSettled
  <2>3. LayersSettled'
    <3>1. ASSUME NEW k \in Nodes, work'[k] \in Settled, k \notin stained'
          PROVE  output'[k] \in OutputOf(work'[k])
      <4>1. k # n /\ work'[k] = work[k] /\ output'[k] = output[k]
            /\ k \notin stained
        BY <1>34, <2>1, <3>1 DEF AgentStarts
      <4> QED  BY <2>1, <3>1, <4>1
    <3>2. ASSUME NEW k \in Nodes, work'[k] \notin Settled \cup {"none"},
                 NEW m \in Nodes, LayerOf[m] < LayerOf[k]
          PROVE  work'[m] \in Settled
      <4>1. work[m] \in Settled
        BY <2>1, <2>2, <3>2
      <4> QED  BY <2>1, <4>1
    <3> QED  BY <2>1, <3>1, <3>2
  <2>4. node[n] # "succeeded" /\ (n \notin stained => output[n] = "none")
        /\ node' = [node EXCEPT ![n] = "running"] /\ UNCHANGED stained
    BY <1>34, <2>1 DEF AgentStarts, AgentRunning, Tier, Unsettled
  <2>5. SucceededIsWhole' /\ Recorded' /\ Unfinished'
    BY <2>1, <2>4
  <2>6. Cleared' /\ Working'
    BY <2>1, <2>4 DEF Tier, Unsettled
  <2>7. (BusyHasWorker /\ FinishHasAnswer /\ Untouched
         /\ ExecutingStatus /\ Reopened /\ Threaded)'
    BY <1>34, <2>1, <2>4 DEF AgentStarts
  <2> QED  BY <2>3, <2>5, <2>6, <2>7
<1>35. ASSUME NEW n \in Nodes, AgentReturns(n) PROVE IInv'
  BY <1>35, SMTT(30)
     DEF AgentReturns, AgentDone, Ends, TierStarted, Tier, Unsettled
<1>36. ASSUME NEW n \in Nodes, AgentRaises(n) PROVE IInv'
  BY <1>36, SMTT(30) DEF AgentRaises, AgentError, Ends
<1>37. ASSUME NEW n \in Nodes, Revise(n) PROVE IInv'
  BY <1>37, SMTT(30) DEF Revise, AgentReset
\* The handlers.
<1>38. ASSUME Create PROVE IInv'
  BY <1>38, ZenonT(40) DEF Create, EnsureStarted
<1>39. ASSUME ConfirmPlan PROVE IInv'
  BY <1>39, ZenonT(40) DEF ConfirmPlan, EnsureStarted, Request
<1>40. ASSUME Resume PROVE IInv'
  BY <1>40, ZenonT(40) DEF Resume, EnsureStarted, Request
<1>41. ASSUME NEW t \in Nodes \cup {None}, NEW r \in BOOLEAN, Rerun(t, r)
       PROVE  IInv'
  BY <1>41 DEF Rerun, EnsureStarted, Request
\* The sweep, crashes and boot.
<1>42. ASSUME SweepReads PROVE IInv'
  BY <1>42, ZenonT(40) DEF SweepReads
<1>43. ASSUME SweepMarks PROVE IInv'
  BY <1>43, ZenonT(40) DEF SweepMarks
<1>44. ASSUME Crash PROVE IInv'
  BY <1>44, ZenonT(40) DEF Crash
<1>45. ASSUME Boot PROVE IInv'
  BY <1>45, ZenonT(40) DEF Boot, Orphaned
<1>46. ASSUME Quiet PROVE IInv'
  BY <1>46, ZenonT(40) DEF Quiet, vars
\* A given-up call, its late event, and the post of a revision.
<1>47. ASSUME NEW n \in Nodes, AgentTimesOut(n) PROVE IInv'
  <2>1. SucceededIsWhole' /\ Unfinished' /\ Recorded' /\ Cleared'
    BY <1>47 DEF AgentTimesOut, AgentError
  <2>2. LayersSettled'
    BY <1>47 DEF AgentTimesOut, AgentError
  <2>3. Untouched' /\ Reopened'
    BY <1>47 DEF AgentTimesOut, AgentError
  <2>4. BusyHasWorker' /\ FinishHasAnswer' /\ ExecutingStatus' /\ Threaded'
        /\ Working'
    BY <1>47 DEF AgentTimesOut, AgentError
  <2> QED  BY <2>1, <2>2, <2>3, <2>4
<1>48. ASSUME NEW n \in Nodes, NEW e \in Emissions, StragglerEmits(n, e)
       PROVE  IInv'
  BY <1>48, StragglerStep
<1>49. ASSUME RevisionPosts PROVE IInv'
  BY <1>49, SMTT(30) DEF RevisionPosts, AgentOutput
<1> HIDE DEF IInv
<1> QED
  BY <1>1, <1>2, <1>3, <1>4, <1>5, <1>6, <1>7, <1>8, <1>9, <1>10, <1>11,
    <1>12, <1>13, <1>14, <1>15, <1>16, <1>17, <1>18, <1>19, <1>20, <1>21,
    <1>22, <1>23, <1>24, <1>25, <1>26, <1>27, <1>28, <1>29, <1>30, <1>31,
    <1>32, <1>33, <1>34, <1>35, <1>36, <1>37, <1>38, <1>39, <1>40, <1>41,
    <1>42, <1>43, <1>44, <1>45, <1>46, <1>47, <1>48, <1>49
    DEF Next, ThreadStep, Straggle, UserStep

-----------------------------------------------------------------------------
(* The theorems.                                                           *)

\* The inductive invariant holds in every reachable state.
THEOREM Invariance == Spec => []IInv
<1>1. Init => IInv
  <2> SUFFICES ASSUME Init PROVE IInv
    OBVIOUS
  <2>1. TypeOK
    <3>1. 0 \in 0..MaxRequests /\ 0 \in 0..MaxTroubles
      BY ConstantsAssumption
    <3> QED
      BY <3>1 DEF Init, TypeOK, Statuses, Places, Progress, States, Outputs,
                  Answers
  <2>2. SucceededIsWhole /\ BusyHasWorker /\ FinishHasAnswer
    BY DEF Init, SucceededIsWhole, BusyHasWorker, FinishHasAnswer, Busy
  <2>3. Untouched /\ ExecutingStatus /\ Unfinished
    BY DEF Init, Untouched, ExecutingStatus, Unfinished, Executing, Running
  <2>4. Reopened /\ LayersSettled /\ Threaded /\ Recorded /\ Cleared
    BY DEF Init, Reopened, LayersSettled, Threaded, Recorded, Cleared, Settled
  <2>5. Working
    BY DEF Init, Working, Running
  <2> QED  BY <2>1, <2>2, <2>3, <2>4, <2>5 DEF IInv
<1>2. IInv /\ [Next]_vars => IInv'
  <2> SUFFICES ASSUME IInv, [Next]_vars PROVE IInv'
    OBVIOUS
  <2>1. CASE Next
    BY <2>1, Preserved
  <2>2. CASE UNCHANGED vars
    <3> USE <2>2 DEF vars, disk, plumbing, bounds
    <3>1. TypeOK'
      BY DEF IInv, TypeOK
    <3>2. SucceededIsWhole' /\ BusyHasWorker' /\ FinishHasAnswer'
      BY DEF IInv, SucceededIsWhole, BusyHasWorker, FinishHasAnswer
    <3>3. Untouched' /\ ExecutingStatus' /\ Unfinished'
      BY DEF IInv, Untouched, ExecutingStatus, Unfinished
    <3>4. Reopened' /\ LayersSettled' /\ Threaded' /\ Recorded' /\ Cleared'
          /\ Working'
      BY DEF IInv, Reopened, LayersSettled, Threaded, Recorded, Cleared, Working
    <3> QED  BY <3>1, <3>2, <3>3, <3>4 DEF IInv
  <2> QED  BY <2>1, <2>2
<1> QED  BY <1>1, <1>2, PTL DEF Spec

\* Every event, crash and restart leaves the file and the thread's memory
\* with values of the right shape.
THEOREM TypeCorrect == Spec => []TypeOK
<1>1. IInv => TypeOK
  BY DEF IInv
<1> QED  BY Invariance, <1>1, PTL

\* A node replays as succeeded exactly when the file holds what its call
\* produced, whatever crash came between the agent event, the agent_output
\* and the next layer, for every plan; only a straggler's event parts them.
THEOREM SucceededHolds == Spec => []SucceededIsWhole
<1>1. IInv => SucceededIsWhole
  BY DEF IInv
<1> QED  BY Invariance, <1>1, PTL

\* stream_agent_plan runs an agent only when the earlier layers are over and
\* the file holds what the thread tells it of them, unless a straggler has
\* hit the entry since.
THEOREM LayersDurable == Spec => []EarlierLayersDurable
<1>1. IInv => EarlierLayersDurable
  <2> SUFFICES ASSUME IInv, pc = "tier", NEW n \in Nodes, NEW m \in Nodes,
                      work[n] \in Running, LayerOf[m] < LayerOf[n]
               PROVE  /\ work[m] \in Settled
                      /\ m \notin stained => output[m] \in OutputOf(work[m])
    BY DEF EarlierLayersDurable
  <2>1. work[m] \in Settled
    BY DEF IInv, LayersSettled, Running, Settled
  <2> QED  BY <2>1 DEF IInv, LayersSettled
<1> QED  BY Invariance, <1>1, PTL

\* A run whose status makes the handlers answer 409 has a live thread that
\* has not yet written its last status.
THEOREM BusyHolds == Spec => []BusyHasWorker
<1>1. IInv => BusyHasWorker
  BY DEF IInv
<1> QED  BY Invariance, <1>1, PTL

\* synthesize_answer never ends on an empty answer.
THEOREM FinishAnswered == Spec => []FinishHasAnswer
<1>1. IInv => FinishHasAnswer
  BY DEF IInv
<1> QED  BY Invariance, <1>1, PTL

\* No step of a resumed run, from reading the file to the end of its last
\* layer, takes back a node that succeeded: resume_run resets only the
\* others, and no agent of a layer runs again one that did.
THEOREM ResumeKeeps == Spec => ResumeKeepsSucceeded
<1> DEFINE Kept == \A n \in Nodes :
                     Resuming /\ pc \in {"start", "reset", "tier"}
                     /\ node[n] = "succeeded"
                     /\ ~ (\E e \in Emissions : StragglerEmits(n, e))
                     => node'[n] = "succeeded"
<1>1. IInv /\ [Next]_vars => Kept
  <2> SUFFICES ASSUME IInv, [Next]_vars, NEW n \in Nodes, Resuming,
                      pc \in {"start", "reset", "tier"},
                      node[n] = "succeeded",
                      ~ (\E e \in Emissions : StragglerEmits(n, e))
               PROVE  node'[n] = "succeeded"
    OBVIOUS
  <2>1. node \in [Nodes -> States] /\ up
    BY DEF IInv, TypeOK, Threaded
  <2>2. work[n] \notin Running \cup {"failed"}
    BY DEF IInv, Unfinished
  <2>3. pc = "tier" => work[n] # "none"
    BY DEF IInv, Unfinished
  <2>4. pc = "reset" => n \notin todo
    BY DEF IInv, Unfinished, Reopened
  \* Only the events of an agent touch a node.
  <2>5. CASE \E m \in Nodes : ResumeReset(m)
    BY <2>1, <2>4, <2>5 DEF ResumeReset, AgentReset
  <2>6. CASE \E m \in Nodes : StreamBreaks(m) \/ StreamRestarts(m)
    BY <2>1, <2>2, <2>6
       DEF StreamBreaks, StreamRestarts, AgentReset, AgentRunning, Running
  <2>7. CASE \E m \in Nodes : AgentStarts(m)
    BY <2>1, <2>3, <2>7 DEF AgentStarts, AgentRunning
  <2>8. CASE \E m \in Nodes : \/ AgentReturns(m) \/ AgentRaises(m)
                              \/ AgentTimesOut(m)
    BY <2>1, <2>2, <2>8
       DEF AgentReturns, AgentRaises, AgentTimesOut, AgentDone, AgentError,
           Ends, Running
  <2>9. CASE \E m \in Nodes : TierPosts(m)
    <3> PICK m \in Nodes : TierPosts(m)
      BY <2>9
    <3>1. work[m] \in {"whole", "failed"}
      BY DEF TierPosts, TierEnded
    <3> QED  BY <2>1, <2>2, <3>1 DEF TierPosts, AgentOutput
  \* The other steps do not, or belong to another job.
  <2>10. CASE JobInvalid \/ ResumeAnswered \/ ResumeUnanswered
              \/ ResumeIncomplete \/ ResumeExecutes \/ BudgetSpent \/ TiersEnd
    BY <2>10 DEF JobInvalid, Fail, ResumeAnswered, ResumeUnanswered,
                 ResumeIncomplete, ResumeExecutes, BudgetSpent, TiersEnd, Set, Say,
                 disk
  <2>11. CASE UserStep \/ SweepReads \/ SweepMarks \/ Crash \/ Boot
    BY <2>1, <2>11 DEF UserStep, Create, ConfirmPlan, Resume, Rerun, Request,
                       SweepReads, SweepMarks, Crash, Boot, Set, disk
  <2>14. CASE Straggle
    <3> PICK m \in Nodes, e \in Emissions : StragglerEmits(m, e)
      BY <2>14 DEF Straggle
    <3>1. m # n
      OBVIOUS
    <3> QED
      BY <2>1, <3>1 DEF StragglerEmits, AgentDelta, AgentReset, AgentRunning
  <2>12. CASE Quiet \/ UNCHANGED vars
    BY <2>12 DEF Quiet, vars, disk
  <2>13. ~ \/ StartPlanning \/ Planned \/ PlanApproved \/ ContinuePlan
           \/ NoRevision \/ (\E m \in Nodes : Revise(m)) \/ RevisionRuns
           \/ RevisionReturns \/ RevisionPosts \/ RevisionRaises
           \/ RerunSynthesis \/ RerunAgent \/ RerunReset \/ RerunRuns
           \/ RerunReturns \/ RerunRaises
           \/ ClearAnswer \/ NothingToSynthesize \/ SynthesisContent
           \/ SynthesisEnds \/ SynthesisBreaks \/ Finish \/ Close \/ Exit
    BY DEF Resuming, StartPlanning, Planned, PlanApproved, ContinuePlan,
           NoRevision, Revise, RevisionRuns, RevisionReturns, RevisionPosts,
           RevisionRaises,
           RerunSynthesis, RerunAgent, RerunReset, RerunRuns, RerunReturns,
           RerunRaises, ClearAnswer, NothingToSynthesize, SynthesisContent,
           SynthesisEnds, SynthesisBreaks, Finish, Close, Exit
  <2> QED
    BY <2>5, <2>6, <2>7, <2>8, <2>9, <2>10, <2>11, <2>12, <2>13,
       <2>14
       DEF Next, ThreadStep
<1>2. IInv /\ [Next]_vars => [Kept]_vars
  BY <1>1
<1> QED  BY Invariance, <1>2, PTL DEF Spec, ResumeKeepsSucceeded

=============================================================================
