------------------------------ MODULE ToolTurn ------------------------------
(***************************************************************************)
(* infra/tool_runtime/tools.py: the tool calls of one answer of the model. *)
(* Runs of calls that are safe in parallel go to a pool together; a call   *)
(* of SERIAL_TOOL_NAMES waits for those before it and runs alone.  Every   *)
(* call is judged by the ToolPolicy of the turn, which is tainted for good *)
(* when a result from outside carries directives.                          *)
(***************************************************************************)
EXTENDS Integers, FiniteSets

CONSTANT Calls   \* how many calls are selected, MAX_TOOL_CALLS_PER_RESPONSE at most

Call == 1 .. Calls

VARIABLES
  kind,      \* kind[c]: what the call names, see below
  approved,  \* kinds that the user approved for this turn
  cancelled, \* cancel_event
  tainted,   \* policy.tainted
  index,     \* the loop of execute_tool_calls: the next call
  batch,     \* parallel_batch
  mode,      \* "walk"; "solo": run_call in this thread; "pool"; "done"
  task,      \* task[c]: "none", "queued", "judging", "running", "finished",
             \* "taken" (its result was stored), "dropped"
  result,    \* result[c]: what run_call returned
  outputs,   \* outputs[c]: [of, verdict], the message for the model
  tainters   \* history: calls whose result tainted the turn

turn  == <<kind, approved>>
vars  == <<turn, cancelled, tainted, index, batch, mode, task, result, outputs,
           tainters>>

(***************************************************************************)
(* The kinds of calls, each with a tool like it: fetch_url, data_transform,*)
(* web_search, forget_memory (with TOOL_POLICY_REQUIRE_CONFIRM off) and a  *)
(* call that the policy denies.                                            *)
(***************************************************************************)
Kinds     == {"fetch", "transform", "search", "forget", "denied"}
Serial    == {"search", "forget"}    \* SERIAL_TOOL_NAMES
External  == {"fetch", "search"}     \* external_output
Dangerous == {"fetch", "forget"}     \* high risk, confirmation or sensitive sink

Missing == [of |-> 0, verdict |-> "missing"]

Init ==
  /\ kind \in [Call -> Kinds] /\ approved \in SUBSET Dangerous
  /\ cancelled = FALSE /\ tainted \in BOOLEAN
  /\ index = 1 /\ batch = {} /\ mode = "walk"
  /\ task = [c \in Call |-> "none"] /\ result = [c \in Call |-> "none"]
  /\ outputs = [c \in Call |-> Missing] /\ tainters = {}

Store(c, verdict) == outputs' = [outputs EXCEPT ![c] = [of |-> c, verdict |-> verdict]]
----------------------------------------------------------------------------
\* The loop.  A cancelled turn walks on without running anything.
Skip ==
  /\ mode = "walk" /\ index <= Calls /\ cancelled
  /\ Store(index, "cancelled") /\ index' = index + 1
  /\ UNCHANGED <<turn, cancelled, tainted, batch, mode, task, result, tainters>>

Gather ==
  /\ mode = "walk" /\ index <= Calls /\ ~cancelled
  /\ kind[index] \notin Serial
  /\ batch' = batch \union {index} /\ index' = index + 1
  /\ UNCHANGED <<turn, cancelled, tainted, mode, task, result, outputs, tainters>>

\* Mutant of MayRunAlone: the batch is flushed after the serial call.
MayRunAtOnce == TRUE

\* A serial call runs after the batch before it.
MayRunAlone == batch = {}

RunAlone ==
  /\ mode = "walk" /\ index <= Calls /\ ~cancelled
  /\ kind[index] \in Serial /\ MayRunAlone
  /\ mode' = "solo" /\ task' = [task EXCEPT ![index] = "queued"]
  /\ index' = index + 1
  /\ UNCHANGED <<turn, cancelled, tainted, batch, result, outputs, tainters>>

\* flush_parallel_batch; a batch of one runs in this thread.
Flush ==
  /\ mode = "walk" /\ batch # {}
  /\ index <= Calls => kind[index] \in Serial /\ ~cancelled
  /\ mode' = IF Cardinality(batch) = 1 THEN "solo" ELSE "pool"
  /\ task' = [c \in Call |-> IF c \in batch THEN "queued" ELSE task[c]]
  /\ batch' = {}
  /\ UNCHANGED <<turn, cancelled, tainted, index, result, outputs, tainters>>
----------------------------------------------------------------------------
Finish(c, verdict) ==
  /\ task' = [task EXCEPT ![c] = "finished"]
  /\ result' = [result EXCEPT ![c] = verdict]

\* run_call looks at the cancellation once, before anything else.
Start(c) ==
  /\ task[c] = "queued"
  /\ IF cancelled THEN Finish(c, "cancelled")
     ELSE task' = [task EXCEPT ![c] = "judging"] /\ UNCHANGED result
  /\ UNCHANGED <<turn, cancelled, tainted, index, batch, mode, outputs, tainters>>

MustAsk(k) == tainted /\ k \in Dangerous /\ k \notin approved

\* ToolPolicy.evaluate
Judge(c) ==
  /\ task[c] = "judging"
  /\ CASE kind[c] = "denied" -> Finish(c, "denied")
       [] MustAsk(kind[c])   -> Finish(c, "needs_confirmation")
       [] OTHER -> task' = [task EXCEPT ![c] = "running"] /\ UNCHANGED result
  /\ UNCHANGED <<turn, cancelled, tainted, index, batch, mode, outputs, tainters>>

\* sanitize_result found directives.
Taints(c) == tainters' = tainters \union {c} /\ tainted' = TRUE

\* The tool has run, well or not.
End(c) ==
  /\ task[c] = "running" /\ Finish(c, "ran")
  /\ \/ kind[c] \in External /\ Taints(c)
     \/ UNCHANGED <<tainted, tainters>>
  /\ UNCHANGED <<turn, cancelled, index, batch, mode, outputs>>
----------------------------------------------------------------------------
Pending == {c \in Call : task[c] \in {"queued", "judging", "running", "finished"}}

\* The result of a call in this thread is stored, whether cancelled or not.
TakeOwn ==
  /\ mode = "solo"
  /\ \E c \in Call :
       /\ task[c] = "finished"
       /\ Store(c, result[c]) /\ task' = [task EXCEPT ![c] = "taken"]
  /\ mode' = "walk"
  /\ UNCHANGED <<turn, cancelled, tainted, index, batch, result, tainters>>

\* Mutant of Place: results in the order they are completed.
PlaceNext(c) ==
  LET free == {d \in Call : outputs[d] = Missing}
      next == CHOOSE d \in free : \A e \in free : d <= e
  IN  outputs' = [outputs EXCEPT ![next] = [of |-> c, verdict |-> result[c]]]

\* The place of a future is kept in the dict futures.
Place(c) == Store(c, result[c])

\* as_completed, in any order.
TakeFromPool ==
  /\ mode = "pool" /\ ~cancelled
  /\ \E c \in Call :
       /\ task[c] = "finished"
       /\ Place(c) /\ task' = [task EXCEPT ![c] = "taken"]
  /\ mode' = IF Cardinality(Pending) = 1 THEN "walk" ELSE "pool"
  /\ UNCHANGED <<turn, cancelled, tainted, index, batch, result, tainters>>

\* A cancellation is noticed when the next call ends.
MayLeave == \E c \in Call : task[c] = "finished"

\* The calls not yet started are dropped, those that run are not waited for:
\* shutdown(wait=False).  They may still end, and taint the turn.
LeavePool ==
  /\ mode = "pool" /\ cancelled /\ MayLeave
  /\ task' = [c \in Call |-> IF task[c] \in {"queued", "finished"} THEN "dropped"
                             ELSE task[c]]
  /\ mode' = "walk"
  /\ UNCHANGED <<turn, cancelled, tainted, index, batch, result, outputs, tainters>>

\* What was interrupted is reported as cancelled; an output that is still
\* missing would be "Tool did not run".
Assemble ==
  /\ mode = "walk" /\ index > Calls /\ batch = {}
  /\ mode' = "done"
  /\ outputs' = [c \in Call |->
       IF outputs[c] = Missing /\ cancelled
       THEN [of |-> c, verdict |-> "cancelled"] ELSE outputs[c]]
  /\ UNCHANGED <<turn, cancelled, tainted, index, batch, task, result, tainters>>

\* The user leaves, at any moment of the turn.
Cancel ==
  /\ ~cancelled /\ mode # "done" /\ cancelled' = TRUE
  /\ UNCHANGED <<turn, tainted, index, batch, mode, task, result, outputs, tainters>>

LoopStep == Skip \/ Gather \/ RunAlone \/ Flush \/ TakeOwn \/ TakeFromPool
            \/ LeavePool \/ Assemble
Work(c) == Start(c) \/ Judge(c) \/ End(c)

Next == LoopStep \/ Cancel \/ \E c \in Call : Work(c)

Spec == Init /\ [][Next]_vars
----------------------------------------------------------------------------
TypeOK ==
  /\ kind \in [Call -> Kinds] /\ approved \subseteq Dangerous
  /\ index \in 1 .. Calls + 1 /\ batch \subseteq 1 .. index - 1
  /\ mode \in {"walk", "solo", "pool", "done"}
  /\ task \in [Call -> {"none", "queued", "judging", "running", "finished",
                        "taken", "dropped"}]
  /\ mode = "solo" => Cardinality(Pending) = 1
  /\ \A c \in tainters : kind[c] \in External

(***************************************************************************)
(* "Results are filled back in call order": every call gets its own        *)
(* result, whichever ended first, and no call of a turn that was not       *)
(* cancelled is left with the fallback "Tool did not run".                 *)
(***************************************************************************)
AnswersInPlace ==
  mode = "done" =>
    \A c \in Call : /\ outputs[c].of = c
                    /\ outputs[c].verdict = "cancelled" => cancelled

(***************************************************************************)
(* A tool of SERIAL_TOOL_NAMES is at work alone, also in a turn that is    *)
(* being cancelled: no call before it still runs and none after it has     *)
(* been started.  And a dangerous one that nobody approved does not run    *)
(* after a result that tainted the turn, wherever in the turn that came.   *)
(***************************************************************************)
SerialIsGuarded ==
  \A c, d \in Call :
    /\ kind[c] \in Serial /\ task[c] = "running" /\ c # d =>
         /\ task[d] \notin {"queued", "judging", "running"}
         /\ d < c => outputs[d] # Missing
    /\ kind[c] \in Serial \cap Dangerous /\ kind[c] \notin approved
       /\ d \in tainters /\ d < c
       => task[c] # "running" /\ result[c] # "ran"

\* The calls of an answer keep their order where it counts.
CallsKeepOrder == AnswersInPlace /\ SerialIsGuarded

============================================================================
