----------------------------- MODULE AgentRun -----------------------------
(***************************************************************************)
(* One durable agent run: its file under .agent-runs/, the background      *)
(* thread AgentRunRegistry keeps for it, the HTTP handlers that start      *)
(* that thread, the sweep that marks runs orphaned, and crashes.           *)
(*                                                                         *)
(* The file is rewritten whole, under _RUN_LOCK, by every append_event, so *)
(* one event is one step and a crash falls between two events.  A handler  *)
(* runs from load_run to ensure_started without an await and is one step.  *)
(* The plan is the constant Nodes, layered as PlanLayers shows.            *)
(***************************************************************************)
EXTENDS Integers, FiniteSets

CONSTANTS
  Nodes,        \* the agents of the plan
  LayerOf,      \* the layer layered_plan puts each in
  Critic,       \* the reviewing agent
  None,         \* no agent
  NeedsConfirm, \* should_confirm_plan
  AutoResume,   \* AGENT_RUNTIME_AUTO_RESUME
  MaxRequests,  \* bound on the plan, rerun and resume requests of a behaviour
  MaxTroubles   \* bound on its crashes, periodic sweeps and stragglers,
                \* together

ASSUME ConstantsAssumption ==
  /\ IsFiniteSet(Nodes) /\ Critic \in Nodes /\ None \notin Nodes
  /\ LayerOf \in [Nodes -> Nat]
  /\ \A n \in Nodes \ {Critic} : LayerOf[n] < LayerOf[Critic]
  /\ NeedsConfirm \in BOOLEAN /\ AutoResume \in BOOLEAN
  /\ MaxRequests \in Nat /\ MaxTroubles \in Nat

VARIABLES
  status,    \* the file: run["status"]
  node,      \* the file: state of each node, replayed from the events
  output,    \* the file: run["agentOutputs"]
  answer,    \* the file: run["finalAnswer"]
  up,        \* the server process runs
  pc,        \* where the run's thread is; "none" when not alive
  job,       \* the target ensure_started gave the thread
  target,    \* the agent a rerun or a revision runs again
  resynth,   \* the rerun's resynthesize flag
  work,      \* what the thread knows of each node: see Progress
  todo,      \* nodes resume_run has still to reset
  late,      \* calls of a layer that timed out, past the gate with an event
  stained,   \* history: entries such an event hit since the thread last
             \* reset or posted them
  sweeping,  \* a sweep has read a busy status and not yet marked it
  requests, troubles  \* so far

disk    == <<status, node, output, answer, stained>>
bounds  == <<requests, troubles>>
plumbing == <<up, job, sweeping, late>>
vars == <<disk, plumbing, bounds, pc, target, resynth, work, todo>>

Busy     == {"created", "planning", "running"}       \* ORPHANABLE_STATUSES
Statuses == Busy \cup {"none", "awaiting_plan", "done", "failed", "orphaned"}
Places   == {"none", "start", "planning", "approved", "reset", "tier",
             "revise", "revising", "redo", "redoing", "clear", "synth",
             "finish", "close", "exit"}
\* "retrying" and "again": the first stream broke, the second runs.
Running  == {"running", "retrying", "again"}
\* A node's output is in agent_outputs: from the file, whole, or failed.
Settled  == {"seed", "kept", "lost"}
Progress == Running \cup Settled \cup {"none", "whole", "failed"}
States   == {"created", "running", "succeeded", "failed", "retrying"}
\* "streamed": every delta of the call that returned, without what the call
\* then adds (sources, the notes on a broken or overlong stream); only
\* agent_output brings the "whole".
Outputs  == {"none", "partial", "streamed", "whole", "failed"}
\* What a call past its gate may be about to append: a delta or a note, the
\* reset of its retry, the start of the second stream.
Emissions == {"delta", "reset", "running"}
Answers  == {"", "partial", "fallback", "whole"}

Init ==
  /\ status = "none" /\ answer = ""
  /\ node = [n \in Nodes |-> "created"]
  /\ output = [n \in Nodes |-> "none"]
  /\ up = TRUE /\ pc = "none" /\ job = "start" /\ sweeping = FALSE
  /\ target = None /\ resynth = FALSE
  /\ work = [n \in Nodes |-> "none"] /\ todo = {}
  /\ late = {} /\ stained = {}
  /\ requests = 0 /\ troubles = 0

-----------------------------------------------------------------------------
(* Events on one node and what they do to the file.                        *)

\* Mutant: the replay ignores agent_reset.
AgentResetUnreplayed(n) ==
  /\ UNCHANGED node
  /\ output' = [output EXCEPT ![n] = "none"]

AgentReset(n) ==
  /\ node' = [node EXCEPT ![n] = "retrying"]
  /\ output' = [output EXCEPT ![n] = "none"]

AgentRunning(n) ==
  /\ node' = [node EXCEPT ![n] = "running"]
  /\ output' = [output EXCEPT ![n] = IF @ = "none" THEN "partial" ELSE @]

\* The deltas of the stream have all been appended by then.
AgentDone(n) ==
  /\ node' = [node EXCEPT ![n] = "succeeded"]
  /\ output' = [output EXCEPT ![n] = IF @ = "partial" THEN "streamed"
                                    ELSE IF @ = "none" THEN "partial" ELSE @]

AgentError(n) ==
  /\ node' = [node EXCEPT ![n] = "failed"]
  /\ output' = [output EXCEPT ![n] = IF @ = "none" THEN "partial" ELSE @]

\* agent_output.
AgentOutput(n, o) ==
  /\ node' = [node EXCEPT ![n] = IF o = "whole" THEN "succeeded" ELSE "failed"]
  /\ output' = [output EXCEPT ![n] = o]

\* A text appended to whatever the entry holds.
AgentDelta(n) ==
  /\ UNCHANGED node
  /\ output' = [output EXCEPT ![n] = IF @ = "failed" THEN @ ELSE "partial"]

\* The thread's own reset or post replaces the whole entry.
Afresh(n) == stained' = stained \ {n} /\ UNCHANGED <<status, answer>>
Further   == UNCHANGED <<status, answer, stained>>
Say(a)    == answer' = a /\ UNCHANGED <<status, node, output, stained>>
Set(s)    == status' = s /\ UNCHANGED <<node, output, answer, stained>>
Trouble == troubles < MaxTroubles /\ troubles' = troubles + 1
Go(p)  == pc' = p /\ UNCHANGED <<plumbing, bounds, target, resynth>>

Succeeded == {n \in Nodes : node[n] = "succeeded"}

-----------------------------------------------------------------------------
(* The handlers of web/server.py.  ensure_started refuses while the thread *)
(* is alive; such a request changes nothing.                               *)

EnsureStarted(j, t, r) ==
  /\ up /\ pc = "none"
  /\ pc' = "start" /\ job' = j /\ target' = t /\ resynth' = r
  /\ work' = [n \in Nodes |-> "none"] /\ todo' = {}

Create ==
  /\ status = "none"
  /\ EnsureStarted("start", None, FALSE)
  /\ Set("created")
  /\ UNCHANGED <<up, sweeping, late, bounds>>

Request ==
  /\ requests < MaxRequests /\ requests' = requests + 1
  /\ UNCHANGED <<disk, up, sweeping, late, troubles>>

ConfirmPlan ==
  /\ status = "awaiting_plan"
  /\ EnsureStarted("continue", None, FALSE)
  /\ Request

Rerun(t, r) ==
  /\ status \notin Busy \cup {"none"}
  /\ EnsureStarted("rerun", t, r /\ t # None)
  /\ Request

Resume ==
  /\ status \notin Busy \cup {"none", "awaiting_plan"}
  /\ EnsureStarted("resume", None, FALSE)
  /\ Request

-----------------------------------------------------------------------------
(* start_planned_run and continue_with_plan.                               *)

Fail ==
  /\ Set("failed") /\ Go("exit") /\ UNCHANGED <<work, todo>>

\* validate_deepseek_payload raised.  The handlers have passed the same
\* check before; the stored payload of an auto-resumed run has not.
JobInvalid == pc = "start" /\ job = "auto" /\ Fail

StartPlanning ==
  /\ pc = "start" /\ job = "start"
  /\ Set("planning") /\ Go("planning") /\ UNCHANGED <<work, todo>>

\* The plan is in the file; plan_agents turns every error into a plan.
Planned ==
  /\ pc = "planning"
  /\ IF NeedsConfirm
     THEN Set("awaiting_plan") /\ Go("exit")
     ELSE Set("running") /\ Go("tier")
  /\ UNCHANGED <<work, todo>>

\* agent_plan and final_reset, then the status.
PlanApproved ==
  /\ pc = "start" /\ job = "continue"
  /\ Say("")
  /\ Go("approved") /\ UNCHANGED <<work, todo>>

ContinuePlan ==
  /\ pc = "approved"
  /\ Set("running") /\ Go("tier") /\ UNCHANGED <<work, todo>>

-----------------------------------------------------------------------------
(* resume_run: reload, skip what succeeded, reset the rest.                *)

Resuming   == job \in {"resume", "auto"}
Incomplete == Nodes \ Succeeded

\* Mutant: the early return forgets the status.
ResumeAnsweredSilent ==
  /\ pc = "start" /\ Resuming /\ Incomplete = {} /\ answer # ""
  /\ Set("running") /\ Go("exit") /\ UNCHANGED <<work, todo>>

\* Every node succeeded: the answer, if there is one, is taken as it is.
ResumeAnswered ==
  /\ pc = "start" /\ Resuming /\ Incomplete = {} /\ answer # ""
  /\ Set("running") /\ Go("close") /\ UNCHANGED <<work, todo>>

ResumeUnanswered ==
  /\ pc = "start" /\ Resuming /\ Incomplete = {} /\ answer = ""
  /\ Set("running") /\ Go("clear") /\ UNCHANGED <<work, todo>>

\* Mutant: completed_outputs is not passed on.
SeedsDropped == {}

\* resumable_completed_outputs
Seeds == {n \in Succeeded : output[n] # "none"}

ResumeIncomplete ==
  /\ pc = "start" /\ Resuming /\ Incomplete # {}
  /\ Set("running") /\ Go("reset")
  /\ work' = [n \in Nodes |-> IF n \in Seeds THEN "seed" ELSE "none"]
  /\ todo' = Incomplete

ResumeReset(n) ==
  /\ pc = "reset" /\ n \in todo
  /\ AgentReset(n) /\ Afresh(n)
  /\ todo' = todo \ {n}
  /\ Go("reset") /\ UNCHANGED work

ResumeExecutes ==
  /\ pc = "reset" /\ todo = {}
  /\ Say("")
  /\ Go("tier") /\ UNCHANGED <<work, todo>>

-----------------------------------------------------------------------------
(* run_agent: one retry after a broken stream.                             *)

StreamBreaks(n) ==
  /\ work[n] = "running"
  /\ AgentReset(n) /\ Afresh(n)
  /\ work' = [work EXCEPT ![n] = "retrying"]
  /\ Go(pc) /\ UNCHANGED todo

StreamRestarts(n) ==
  /\ work[n] = "retrying"
  /\ AgentRunning(n) /\ Further
  /\ work' = [work EXCEPT ![n] = "again"]
  /\ Go(pc) /\ UNCHANGED todo

\* The call returns an output, perhaps a degraded one, or raises: after the
\* retry, or at once on a content risk error.
Ends(n) == work[n] \in {"running", "again"}

-----------------------------------------------------------------------------
(* stream_agent_plan: the layers in order, the agents of one side by side. *)

Unsettled == {n \in Nodes : work[n] \notin Settled}
Tier == {n \in Unsettled : \A m \in Unsettled : LayerOf[n] <= LayerOf[m]}

AgentStarts(n) ==
  /\ pc = "tier" /\ n \in Tier /\ work[n] = "none"
  /\ AgentRunning(n) /\ Further
  /\ work' = [work EXCEPT ![n] = "running"]
  /\ Go("tier") /\ UNCHANGED todo

\* The thread starts all agents of a layer before it waits for the first.
TierStarted == \A n \in Tier : work[n] # "none"

AgentReturns(n) ==
  /\ pc = "tier" /\ TierStarted /\ Ends(n)
  /\ AgentDone(n) /\ Further
  /\ work' = [work EXCEPT ![n] = "whole"]
  /\ Go("tier") /\ UNCHANGED todo

AgentRaises(n) ==
  /\ pc = "tier" /\ TierStarted /\ Ends(n)
  /\ AgentError(n) /\ Further
  /\ work' = [work EXCEPT ![n] = "failed"]
  /\ Go("tier") /\ UNCHANGED todo

\* The next event of a call, by where it is.
NextOf(w) == IF w = "running" THEN {"delta", "reset"}
             ELSE IF w = "retrying" THEN {"running"} ELSE {"delta"}

\* AGENT_TIMEOUT_SECONDS passed, which only a parallel layer watches.  The
\* gate is closed on the call, which may be behind it already, between the
\* test of gated_emit and append_event.
AgentTimesOut(n) ==
  /\ pc = "tier" /\ TierStarted /\ Cardinality(Tier) > 1
  /\ work[n] \in Running
  /\ AgentError(n) /\ Further
  /\ work' = [work EXCEPT ![n] = "failed"]
  /\ \/ UNCHANGED <<late, troubles>>
     \/ /\ Trouble
        /\ \E e \in NextOf(work[n]) : late' = late \cup {<<n, e>>}
  /\ UNCHANGED <<pc, up, job, sweeping, requests, target, resynth, todo>>

\* The worker of a call given up on appends the one event it was about to,
\* whatever the run's thread has done since.  The pool is never joined.
StragglerEmits(n, e) ==
  /\ <<n, e>> \in late /\ late' = late \ {<<n, e>>}
  /\ stained' = stained \cup {n}
  /\ \/ e = "delta"   /\ AgentDelta(n)
     \/ e = "reset"   /\ AgentReset(n)
     \/ e = "running" /\ AgentRunning(n)
  /\ UNCHANGED <<status, answer, up, job, sweeping, bounds, pc, target,
                 resynth, work, todo>>

\* The whole layer has ended: its outputs are posted one by one.
TierEnded(n) ==
  /\ pc = "tier" /\ n \in Tier
  /\ \A m \in Tier : work[m] \in {"whole", "failed"}
Posted(n) ==
  work' = [work EXCEPT ![n] = IF @ = "whole" THEN "kept" ELSE "lost"]

\* Mutant: the output stays in the thread.
TierPostsNothing(n) ==
  /\ TierEnded(n) /\ Posted(n)
  /\ UNCHANGED <<disk, todo>> /\ Go("tier")

TierPosts(n) ==
  /\ TierEnded(n) /\ Posted(n)
  /\ AgentOutput(n, work[n]) /\ Afresh(n)
  /\ Go("tier") /\ UNCHANGED todo

\* The token budget is spent by the layers that ran: the rest is skipped.
BudgetSpent ==
  /\ pc = "tier" /\ Tier # {}
  /\ \A n \in Tier : work[n] = "none"
  /\ \E n \in Nodes : work[n] = "kept"
  /\ Go("revise") /\ UNCHANGED <<disk, work, todo>>

TiersEnd ==
  /\ pc = "tier" /\ Tier = {}
  /\ Go("revise") /\ UNCHANGED <<disk, work, todo>>

-----------------------------------------------------------------------------
(* run_critic_revision: the critic may name one worker to run once more.   *)

NoRevision ==
  /\ pc = "revise"
  /\ Go("synth") /\ UNCHANGED <<disk, work, todo>>

Revise(n) ==
  /\ pc = "revise"
  /\ work[Critic] \in {"seed", "kept"}
  /\ n # Critic /\ work[n] \in Settled
  /\ AgentReset(n) /\ Afresh(n)
  /\ target' = n /\ pc' = "revising"
  /\ work' = [work EXCEPT ![n] = "none"]
  /\ UNCHANGED <<plumbing, bounds, resynth, todo>>

RevisionRuns ==
  /\ pc = "revising" /\ work[target] = "none"
  /\ AgentRunning(target) /\ Further
  /\ work' = [work EXCEPT ![target] = "running"]
  /\ Go("revising") /\ UNCHANGED todo

RevisionReturns ==
  /\ pc = "revising" /\ Ends(target)
  /\ AgentDone(target) /\ Further
  /\ work' = [work EXCEPT ![target] = "whole"]
  /\ Go("revising") /\ UNCHANGED todo

RevisionPosts ==
  /\ pc = "revising" /\ work[target] = "whole"
  /\ AgentOutput(target, "whole") /\ Afresh(target)
  /\ work' = [work EXCEPT ![target] = "kept"]
  /\ Go("synth") /\ UNCHANGED todo

\* The thread keeps the earlier output; the file has lost it.
RevisionRaises ==
  /\ pc = "revising" /\ Ends(target)
  /\ AgentError(target) /\ Further
  /\ work' = [work EXCEPT ![target] = "kept"]
  /\ Go("synth") /\ UNCHANGED todo

-----------------------------------------------------------------------------
(* rerun_agent: one agent again, or only the synthesis.                    *)

RerunSynthesis ==
  /\ pc = "start" /\ job = "rerun" /\ target = None
  /\ Set("running") /\ Go("clear") /\ UNCHANGED <<work, todo>>

RerunAgent ==
  /\ pc = "start" /\ job = "rerun" /\ target # None
  /\ Set("running") /\ Go("redo") /\ UNCHANGED <<work, todo>>

RerunReset ==
  /\ pc = "redo"
  /\ AgentReset(target) /\ Afresh(target)
  /\ Go("redoing") /\ UNCHANGED <<work, todo>>

RerunRuns ==
  /\ pc = "redoing" /\ work[target] = "none"
  /\ AgentRunning(target) /\ Further
  /\ work' = [work EXCEPT ![target] = "running"]
  /\ Go("redoing") /\ UNCHANGED todo

AfterRerun == IF resynth THEN "clear" ELSE "close"

\* agent_output first, then the agent event, which adds nothing to it.
RerunReturns ==
  /\ pc = "redoing" /\ Ends(target)
  /\ AgentOutput(target, "whole") /\ Afresh(target)
  /\ work' = [work EXCEPT ![target] = "kept"]
  /\ Go(AfterRerun) /\ UNCHANGED todo

RerunRaises ==
  /\ pc = "redoing" /\ Ends(target)
  /\ AgentOutput(target, "failed") /\ Afresh(target)
  /\ work' = [work EXCEPT ![target] = "lost"]
  /\ Go(AfterRerun) /\ UNCHANGED todo

-----------------------------------------------------------------------------
(* The synthesis and the end of a job.                                     *)

ClearAnswer ==
  /\ pc = "clear"
  /\ Say("")
  /\ Go("synth") /\ UNCHANGED <<work, todo>>

HasOutputs == \E n \in Nodes : output[n] # "none"

NothingToSynthesize == pc = "synth" /\ ~HasOutputs /\ Fail

SynthesisContent ==
  /\ pc = "synth" /\ HasOutputs /\ answer = ""
  /\ Say("partial")
  /\ Go("synth") /\ UNCHANGED <<work, todo>>

\* A stream without content leaves the fallback text.
SynthesisEnds ==
  /\ pc = "synth" /\ HasOutputs
  /\ Say(IF answer = "" THEN "fallback" ELSE "whole")
  /\ Go("finish") /\ UNCHANGED <<work, todo>>

\* stream_deepseek reports a broken stream as an error event, which the
\* relay of synthesize_answer drops.
SynthesisBreaks ==
  /\ pc = "synth" /\ HasOutputs
  /\ Say(IF answer = "" THEN "fallback" ELSE answer)
  /\ Go("finish") /\ UNCHANGED <<work, todo>>

\* The "done" event.
Finish ==
  /\ pc = "finish"
  /\ Set("done") /\ Go("exit") /\ UNCHANGED <<work, todo>>

\* append_status(run_id, "done") without a synthesis.
Close ==
  /\ pc = "close"
  /\ Set("done") /\ Go("exit") /\ UNCHANGED <<work, todo>>

\* The thread has returned: is_alive() is false.
Exit ==
  /\ pc = "exit"
  /\ Go("none") /\ UNCHANGED <<disk, work, todo>>

-----------------------------------------------------------------------------
(* The sweep, crashes and boot.                                            *)

\* mark_orphan_runs_on_startup, from the periodic cleanup: it reads the
\* file without _RUN_LOCK ...
SweepReads ==
  /\ up /\ ~sweeping /\ status \in Busy /\ Trouble
  /\ sweeping' = TRUE
  /\ UNCHANGED <<disk, up, late, pc, job, target, resynth, work, todo,
                 requests>>

\* ... and appends the status to whatever the file holds by then.
SweepMarks ==
  /\ up /\ sweeping /\ sweeping' = FALSE
  /\ Set("orphaned")
  /\ UNCHANGED <<up, late, pc, job, target, resynth, work, todo, bounds>>

Crash ==
  /\ up /\ up' = FALSE /\ Trouble
  /\ pc' = "none" /\ sweeping' = FALSE /\ late' = {}
  /\ target' = None /\ resynth' = FALSE
  /\ work' = [n \in Nodes |-> "none"] /\ todo' = {}
  /\ UNCHANGED <<disk, job, requests>>

\* Mutant: only the executing runs are orphaned.
OrphanedRunning == IF status = "running" THEN "orphaned" ELSE status

Orphaned == IF status \in Busy THEN "orphaned" ELSE status

\* The sweep of prepare_and_start, then resume_orphaned_runs.
Boot ==
  /\ ~up /\ up' = TRUE
  /\ Set(Orphaned)
  /\ IF AutoResume /\ Orphaned = "orphaned"
     THEN pc' = "start" /\ job' = "auto"
     ELSE UNCHANGED <<pc, job>>
  /\ UNCHANGED <<target, resynth, work, todo, sweeping, late, bounds>>

-----------------------------------------------------------------------------
ThreadStep ==
  \/ JobInvalid \/ StartPlanning \/ Planned \/ PlanApproved \/ ContinuePlan
  \/ ResumeAnswered \/ ResumeUnanswered \/ ResumeIncomplete \/ ResumeExecutes
  \/ BudgetSpent \/ TiersEnd
  \/ NoRevision \/ RevisionRuns \/ RevisionReturns \/ RevisionPosts
  \/ RevisionRaises
  \/ RerunSynthesis \/ RerunAgent \/ RerunReset \/ RerunRuns
  \/ RerunReturns \/ RerunRaises
  \/ ClearAnswer \/ NothingToSynthesize \/ SynthesisContent \/ SynthesisEnds
  \/ SynthesisBreaks \/ Finish \/ Close \/ Exit
  \/ \E n \in Nodes :
       \/ ResumeReset(n) \/ StreamBreaks(n) \/ StreamRestarts(n)
       \/ AgentStarts(n) \/ AgentReturns(n) \/ AgentRaises(n)
       \/ AgentTimesOut(n) \/ TierPosts(n) \/ Revise(n)

UserStep ==
  \/ Create \/ ConfirmPlan \/ Resume
  \/ \E t \in Nodes \cup {None}, r \in BOOLEAN : Rerun(t, r)

\* Nobody asks for anything any more.
Quiet == up /\ pc = "none" /\ status # "none" /\ UNCHANGED vars

Straggle == \E n \in Nodes, e \in Emissions : StragglerEmits(n, e)

Next == ThreadStep \/ Straggle \/ UserStep \/ SweepReads \/ SweepMarks \/ Crash \/ Boot
        \/ Quiet

Spec == Init /\ [][Next]_vars

\* Every upstream call times out, so the thread always goes on, and the
\* sweep is a loop over files.  Boot: the server is started again.
LiveSpec ==
  Spec /\ WF_vars(ThreadStep) /\ WF_vars(SweepMarks) /\ WF_vars(Boot)

-----------------------------------------------------------------------------
\* The file and the thread's memory hold values of the right shape.
TypeOK ==
  /\ status \in Statuses /\ answer \in Answers
  /\ node \in [Nodes -> States] /\ output \in [Nodes -> Outputs]
  /\ up \in BOOLEAN /\ pc \in Places /\ sweeping \in BOOLEAN
  /\ job \in {"start", "continue", "resume", "auto", "rerun"}
  /\ target \in Nodes \cup {None} /\ resynth \in BOOLEAN
  /\ work \in [Nodes -> Progress] /\ todo \subseteq Nodes
  /\ late \subseteq Nodes \X Emissions /\ stained \subseteq Nodes
  /\ requests \in 0..MaxRequests /\ troubles \in 0..MaxTroubles

\* Whatever was interrupted, a node replays as succeeded exactly when the
\* file holds all its call produced, streamed or posted: resume trusts the
\* one to find the other.  Only the late event of a call that its layer gave
\* up on can part them, until the thread next resets or posts the entry.
SucceededIsWhole ==
  \A n \in Nodes \ stained :
    node[n] = "succeeded" <=> output[n] \in {"streamed", "whole"}

\* What is in the file of an agent whose layer is over: the posted output,
\* the posted failure, or, of one a resume found succeeded, at least its
\* whole stream.
OutputOf(w) == IF w = "seed" THEN {"streamed", "whole"}
               ELSE IF w = "kept" THEN {"whole"} ELSE {"failed"}

\* An agent runs in its layer only when the earlier layers are over and the
\* file holds what the thread builds on: a crash takes none of it back, and
\* the resume finds what this agent is told.  Again but for a late event.
EarlierLayersDurable ==
  pc = "tier" =>
    \A n, m \in Nodes : work[n] \in Running /\ LayerOf[m] < LayerOf[n] =>
      /\ work[m] \in Settled
      /\ m \notin stained => output[m] \in OutputOf(work[m])

\* A run whose status makes the handlers refuse every request (409) has a
\* thread that will change it: no run is stuck until the next restart.
BusyHasWorker == up /\ status \in Busy => pc \notin {"none", "exit"}

\* A synthesis leaves an answer, even when its stream broke before the
\* first word.
FinishHasAnswer == pc = "finish" => answer # ""

\* Resume never runs again, and never resets, a node that succeeded; only
\* the critic of the resumed run may ask for that, and only a call that an
\* earlier job gave up on can undo it.
ResumeKeepsSucceeded ==
  [][\A n \in Nodes :
       Resuming /\ pc \in {"start", "reset", "tier"}
       /\ node[n] = "succeeded" /\ ~ (\E e \in Emissions : StragglerEmits(n, e))
       => node'[n] = "succeeded"]_vars

\* A run someone works on comes to rest, restarts of the server included,
\* and with auto-resume one that a crash cut off is finished after the boot
\* without anybody asking.
EveryRunSettles ==
  /\ status \in Busy ~> status \notin Busy
  /\ AutoResume /\ ~up /\ status \in Busy ~> status \in {"done", "failed"}

\* (app.py:72, agent_runs.py:697) A run is marked orphaned for
\* "server_restart" when its thread is gone.
OnlyARestartOrphans ==
  [][SweepMarks => pc = "none"]_vars

\* (multi_agent.py:920) A revision that fails keeps the conclusion it was
\* to revise, in the file as in the thread.
FailedRevisionKeeps ==
  [][RevisionRaises => output'[target] \in {"streamed", "whole", "failed"}]_vars

=============================================================================
