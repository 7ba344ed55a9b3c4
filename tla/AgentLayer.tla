----------------------------- MODULE AgentLayer -----------------------------
(***************************************************************************)
(* One layer of agents run in parallel (_execute_agent_tier_parallel of    *)
(* infra/agent_runtime/multi_agent.py) and the posting of its outputs by   *)
(* stream_agent_plan.  The layer's thread submits a worker for each agent, *)
(* collects the futures as they complete, and after AGENT_TIMEOUT_SECONDS  *)
(* goes on without those that have not: they are not stopped, only their   *)
(* gate is closed.  A worker looks at its gate before it emits an event    *)
(* and not while it does.                                                  *)
(*                                                                         *)
(* AgentRun has the run around a layer, and takes an agent's work as one   *)
(* thread's; here are the threads.                                         *)
(***************************************************************************)
EXTENDS LayerSizes, Integers, Sequences

VARIABLES
  lead,     \* where the layer's thread is: see Places
  turn,     \* the position in Order it has come to
  gate,     \* agents whose emit gate is set
  future,   \* state of each agent's future
  attempt,  \* calls of _run_agent_once so far
  said,     \* deltas of the attempt; -1 when it has still to be announced
  hand,     \* the event a worker has passed its gate with and not yet emitted
  output,   \* outputs_by_index
  posted,   \* the outputs posted, in order
  node,     \* the run file's state of each agent: replayed from the events
  late,     \* events of a worker that came after the verdict on it
  cancel    \* the request's cancel event: a durable run has none

worker == <<attempt, said, hand>>
file   == <<node, late>>
vars == <<lead, turn, gate, future, worker, output, posted, file, cancel>>

Places  == {"submit", "collect", "timeout", "post", "over", "cancelled"}
Futures == {"none", "queued", "running", "done", "failed", "dropped"}
Ended   == {"done", "failed"}
Verdict == {"whole", "failed"}
Events  == {"reset", "running", "delta"}

Init ==
  /\ lead = "submit" /\ turn = 1 /\ gate = {}
  /\ future = [a \in Agents |-> "none"] /\ attempt = [a \in Agents |-> 0]
  /\ said = [a \in Agents |-> 0] /\ hand = [a \in Agents |-> "none"]
  /\ output = [a \in Agents |-> "none"] /\ posted = <<>>
  /\ node = [a \in Agents |-> "created"] /\ late = [a \in Agents |-> 0]
  /\ cancel \in {"none", "unset"}

Cancelled == cancel = "set"
Size == Cardinality(Agents)
-----------------------------------------------------------------------------
\* reduce_node_states: what an event makes of the agent's node.
Node(e) ==
  CASE e = "reset"   -> "retrying"
    [] e = "running" -> "running"
    [] e = "whole"   -> "succeeded"
    [] e = "failed"  -> "failed"

Replayed(a, e) == IF e = "delta" THEN node ELSE [node EXCEPT ![a] = Node(e)]

\* The layer's thread announces an agent and starts it.
Submit ==
  /\ lead = "submit" /\ turn <= Size /\ ~Cancelled
  /\ LET a == Order[turn] IN
       /\ node' = Replayed(a, "running")
       /\ gate' = gate \cup {a}
       /\ future' = [future EXCEPT ![a] = "queued"]
  /\ turn' = turn + 1
  /\ UNCHANGED <<lead, worker, output, posted, late, cancel>>

Submitted ==
  /\ lead = "submit" /\ turn > Size
  /\ lead' = "collect"
  /\ UNCHANGED <<turn, gate, future, worker, output, posted, file, cancel>>

\* The verdict on an agent: its gate is closed, and done or error is emitted.
Judge(a, v) ==
  /\ output' = [output EXCEPT ![a] = v]
  /\ gate' = gate \ {a}
  /\ node' = Replayed(a, v)

Result(a) == IF future[a] = "done" THEN "whole" ELSE "failed"

\* as_completed yields the next future.
Collect(a) ==
  /\ lead = "collect" /\ ~Cancelled
  /\ future[a] \in Ended /\ output[a] = "none"
  /\ Judge(a, Result(a))
  /\ UNCHANGED <<lead, turn, future, worker, posted, late, cancel>>

TimesOut ==
  /\ lead = "collect" /\ \E a \in Agents : output[a] = "none"
  /\ lead' = "timeout" /\ turn' = 1
  /\ UNCHANGED <<gate, future, worker, output, posted, file, cancel>>

\* Mutant of GiveUp: the gate of the agent stays open.
GiveUpGateOpen(a) ==
  /\ output' = [output EXCEPT ![a] = "failed"]
  /\ node' = Replayed(a, "failed")
  /\ future' = IF future[a] = "queued" THEN [future EXCEPT ![a] = "dropped"]
                                       ELSE future
  /\ UNCHANGED gate

\* A future that has not ended is cancelled, which only stops one in the queue.
GiveUp(a) ==
  /\ Judge(a, "failed")
  /\ future' = IF future[a] = "queued" THEN [future EXCEPT ![a] = "dropped"]
                                       ELSE future

\* The agents without an output, in plan order.
AfterTimeout ==
  /\ lead = "timeout" /\ turn <= Size /\ ~Cancelled
  /\ turn' = turn + 1
  /\ LET a == Order[turn] IN
       \/ output[a] # "none" /\ UNCHANGED <<output, gate, node, future>>
       \/ /\ output[a] = "none" /\ future[a] \in Ended
          /\ Judge(a, Result(a)) /\ UNCHANGED future
       \/ output[a] = "none" /\ future[a] \notin Ended /\ GiveUp(a)
  /\ UNCHANGED <<lead, worker, posted, late, cancel>>

\* pool.shutdown(wait=False, cancel_futures=True): what has not begun never will.
Shutdown ==
  future' = [a \in Agents |-> IF future[a] = "queued" THEN "dropped" ELSE future[a]]

\* Mutant of Return: the pool is shut down with wait=True.
ReturnWaits ==
  /\ \/ lead = "collect" /\ \A a \in Agents : output[a] # "none"
     \/ lead = "timeout" /\ turn > Size
  /\ \A a \in Agents : future[a] # "running"
  /\ lead' = "post" /\ turn' = 1
  /\ Shutdown
  /\ UNCHANGED <<gate, worker, output, posted, file, cancel>>

Return ==
  /\ \/ lead = "collect" /\ \A a \in Agents : output[a] # "none"
     \/ lead = "timeout" /\ turn > Size
  /\ lead' = "post" /\ turn' = 1
  /\ Shutdown
  /\ UNCHANGED <<gate, worker, output, posted, file, cancel>>

\* stream_agent_plan posts the outputs in plan order.
Post ==
  /\ lead = "post" /\ ~Cancelled
  /\ IF turn > Size
     THEN lead' = "over" /\ UNCHANGED <<turn, posted, node>>
     ELSE /\ posted' = Append(posted, Order[turn])
          /\ node' = Replayed(Order[turn], output[Order[turn]])
          /\ turn' = turn + 1
          /\ UNCHANGED lead
  /\ UNCHANGED <<gate, future, worker, output, late, cancel>>

\* A check, or an event that finds the event set, raises RequestCancelled.
\* Only outside of the handler of the timeout does that close the gates.
Cancels ==
  /\ lead \notin {"over", "cancelled"} /\ Cancelled
  /\ lead' = "cancelled"
  /\ gate' = IF lead \in {"submit", "collect"} THEN {} ELSE gate
  /\ Shutdown
  /\ UNCHANGED <<turn, worker, output, posted, file, cancel>>

\* The client of a chat goes away.
SetCancel ==
  /\ cancel = "unset" /\ lead # "over"
  /\ cancel' = "set"
  /\ UNCHANGED <<lead, turn, gate, future, worker, output, posted, file>>
-----------------------------------------------------------------------------
(* The workers: run_agent, at most two attempts.                           *)

Begin(a) ==
  /\ future[a] = "queued"
  /\ Cardinality({b \in Agents : future[b] = "running"}) < MaxWorkers
  /\ future' = [future EXCEPT ![a] = "running"]
  /\ attempt' = [attempt EXCEPT ![a] = 1]
  /\ UNCHANGED <<lead, turn, gate, said, hand, output, posted, file, cancel>>

\* gated_emit: an event that meets a closed gate is dropped.
Pass(a, e) ==
  hand' = IF a \in gate /\ ~Cancelled THEN [hand EXCEPT ![a] = e] ELSE hand

Free(a) == future[a] = "running" /\ hand[a] = "none"

Says(a) ==
  /\ Free(a) /\ said[a] \in 0..MaxDeltas - 1
  /\ said' = [said EXCEPT ![a] = @ + 1]
  /\ Pass(a, "delta")
  /\ UNCHANGED <<lead, turn, gate, future, attempt, output, posted, file, cancel>>

\* The stream breaks: the card is reset, and the agent is announced again.
Retries(a) ==
  /\ Free(a) /\ said[a] >= 0 /\ attempt[a] = 1
  /\ attempt' = [attempt EXCEPT ![a] = 2]
  /\ said' = [said EXCEPT ![a] = -1]
  /\ Pass(a, "reset")
  /\ UNCHANGED <<lead, turn, gate, future, output, posted, file, cancel>>

Announces(a) ==
  /\ Free(a) /\ said[a] = -1
  /\ said' = [said EXCEPT ![a] = 0]
  /\ Pass(a, "running")
  /\ UNCHANGED <<lead, turn, gate, future, attempt, output, posted, file, cancel>>

\* append_event; a chat's write_event raises instead when it is cancelled.
Emits(a) ==
  /\ future[a] = "running" /\ hand[a] # "none"
  /\ hand' = [hand EXCEPT ![a] = "none"]
  /\ IF Cancelled
     THEN UNCHANGED file /\ future' = [future EXCEPT ![a] = "failed"]
     ELSE /\ node' = Replayed(a, hand[a])
          /\ late' = IF output[a] = "none" THEN late
                                           ELSE [late EXCEPT ![a] = @ + 1]
          /\ UNCHANGED future
  /\ UNCHANGED <<lead, turn, gate, attempt, said, output, posted, cancel>>

\* It returns a result, or raises: after the second attempt, a content risk or
\* a cancellation.
Ends(a, how) ==
  /\ Free(a) /\ said[a] >= 0 /\ how \in Ended
  /\ future' = [future EXCEPT ![a] = how]
  /\ UNCHANGED <<lead, turn, gate, worker, output, posted, file, cancel>>

Leading ==
  \/ Submit \/ Submitted \/ (\E a \in Agents : Collect(a)) \/ TimesOut
  \/ AfterTimeout \/ Return \/ Post \/ Cancels
Working(a) ==
  \/ Begin(a) \/ Says(a) \/ Retries(a) \/ Announces(a) \/ Emits(a)
  \/ \E how \in Ended : Ends(a, how)

Next == Leading \/ SetCancel \/ \E a \in Agents : Working(a)

Spec == Init /\ [][Next]_vars

\* The layer's thread runs and its wait has a timeout.  No worker need end.
FairSpec == Spec /\ WF_vars(Leading)
-----------------------------------------------------------------------------
TypeOK ==
  /\ lead \in Places /\ turn \in 1..Size + 1 /\ gate \subseteq Agents
  /\ future \in [Agents -> Futures] /\ attempt \in [Agents -> 0..2]
  /\ said \in [Agents -> -1..MaxDeltas]
  /\ hand \in [Agents -> Events \cup {"none"}]
  /\ output \in [Agents -> Verdict \cup {"none"}]
  /\ posted \in Seq(Agents)
  /\ node \in [Agents -> {"created", "retrying", "running", "succeeded", "failed"}]
  /\ late \in [Agents -> Nat] /\ cancel \in {"none", "unset", "set"}


(***************************************************************************)
(* An output counts as whole only when its worker has returned it, and     *)
(* nothing of that agent follows the verdict: the output cannot be reset   *)
(* after it was taken.  A worker that was given up goes on running, but of *)
(* all it says at most one event, the one it had passed its gate with,     *)
(* reaches the run after the verdict; and when the layer is over the run   *)
(* file says of every other agent what the next layer was told.            *)
(***************************************************************************)
VerdictIsFinal ==
  \A a \in Agents :
    /\ output[a] = "whole" => future[a] = "done" /\ hand[a] = "none" /\ late[a] = 0
    /\ late[a] <= 1
    /\ lead = "over" /\ late[a] = 0 => node[a] = Node(output[a])



\* The layer comes to an end though its workers may hang.
Over == lead \in {"over", "cancelled"}
LayerReturns == <>Over
=============================================================================
