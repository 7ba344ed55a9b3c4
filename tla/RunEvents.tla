----------------------------- MODULE RunEvents -----------------------------
(***************************************************************************)
(* The event log of an agent run and the browsers that follow it:          *)
(* append_event of infra/agent_runtime/agent_runs.py, the condition of     *)
(* AgentRunRegistry, and agent_run_event_stream of web/server.py, which    *)
(* reads the file twice in each iteration and waits without a lock held    *)
(* in between.  A browser that comes back asks for the events after the    *)
(* last one it has.                                                        *)
(***************************************************************************)
EXTENDS Integers, Sequences, FiniteSets

CONSTANTS
  Browsers,    \* a finite set
  MaxEvents,   \* bound on the events of the run
  MaxDrops,    \* bound on the disconnects of each browser
  MaxRestarts  \* bound on the restarts of the process

VARIABLES
  count,     \* the file: run["nextIndex"], the events are 0..count - 1
  resting,   \* the file: the status is terminal or awaiting_plan
  stream,    \* what the generator of each browser is doing: see Places
  cursor,    \* its cursor
  batch,     \* the events it has read are those below batch
  got,       \* got[b]: indices the browser has received, in order
  drops, restarts

reader == <<stream, cursor, batch, got, drops>>
vars == <<count, resting, reader, restarts>>

Places == {"off", "read", "send", "check", "wait", "ended"}

Init ==
  /\ count = 1 /\ resting = FALSE
  /\ stream = [b \in Browsers |-> "off"] /\ cursor = [b \in Browsers |-> -1]
  /\ batch = [b \in Browsers |-> 0] /\ got = [b \in Browsers |-> <<>>]
  /\ drops = [b \in Browsers |-> 0] /\ restarts = 0
-----------------------------------------------------------------------------
\* An event, with the status it leaves: of the run's thread, of a request that
\* resumes a run at rest, of a worker that outlived its layer.
AppendEvent(rest) ==
  /\ count < MaxEvents
  /\ count' = count + 1 /\ resting' = rest
  /\ UNCHANGED <<reader, restarts>>

\* The process dies; boot marks a run it was busy with orphaned.
Restart ==
  /\ restarts < MaxRestarts /\ restarts' = restarts + 1
  /\ stream' = [b \in Browsers |-> IF stream[b] = "ended" THEN "ended" ELSE "off"]
  /\ count' = IF resting THEN count ELSE count + 1
  /\ resting' = TRUE
  /\ UNCHANGED <<cursor, batch, got, drops>>

Last(b) == IF got[b] = <<>> THEN -1 ELSE got[b][Len(got[b])]

\* The route of the stream, with the parameter "after".
Opens(b) ==
  /\ stream[b] = "off"
  /\ stream' = [stream EXCEPT ![b] = "read"]
  /\ cursor' = [cursor EXCEPT ![b] = Last(b)]
  /\ UNCHANGED <<count, resting, batch, got, drops, restarts>>

\* events_after
Reads(b) ==
  /\ stream[b] = "read"
  /\ batch' = [batch EXCEPT ![b] = count]
  /\ stream' = [stream EXCEPT ![b] = "send"]
  /\ UNCHANGED <<count, resting, cursor, got, drops, restarts>>

Sends(b) ==
  /\ stream[b] = "send"
  /\ IF cursor[b] + 1 < batch[b]
     THEN /\ cursor' = [cursor EXCEPT ![b] = @ + 1]
          /\ got' = [got EXCEPT ![b] = Append(@, cursor'[b])]
          /\ UNCHANGED stream
     ELSE /\ stream' = [stream EXCEPT ![b] = "check"]
          /\ UNCHANGED <<cursor, got>>
  /\ UNCHANGED <<count, resting, batch, drops, restarts>>

\* Mutant of AllSent: the status alone ends the stream.
AllSentByStatus(b) == resting
AllSent(b) == resting /\ count - 1 <= cursor[b]

\* load_run: the file as it is now, not as it was read for the events.
Checks(b) ==
  /\ stream[b] = "check"
  /\ stream' = [stream EXCEPT ![b] = IF AllSent(b) THEN "ended" ELSE "wait"]
  /\ UNCHANGED <<count, resting, cursor, batch, got, drops, restarts>>

\* Mutant of Wakes: only a new event wakes a stream.
WakesOnNotify(b) ==
  /\ stream[b] = "wait" /\ FALSE
  /\ UNCHANGED vars

\* notify_event, or REGISTRY_WAIT_SECONDS are over: an event between the check
\* and the wait notifies nobody.
Wakes(b) ==
  /\ stream[b] = "wait"
  /\ stream' = [stream EXCEPT ![b] = "read"]
  /\ UNCHANGED <<count, resting, cursor, batch, got, drops, restarts>>

\* The connection breaks; what was sent and not received is lost.
Drops(b, n) ==
  /\ stream[b] \in {"read", "send", "check", "wait"} /\ drops[b] < MaxDrops
  /\ drops' = [drops EXCEPT ![b] = @ + 1]
  /\ stream' = [stream EXCEPT ![b] = "off"]
  /\ got' = [got EXCEPT ![b] = SubSeq(@, 1, n)]
  /\ UNCHANGED <<count, resting, cursor, batch, restarts>>

Follows(b) == Opens(b) \/ Reads(b) \/ Sends(b) \/ Checks(b) \/ Wakes(b)

Next ==
  \/ \E rest \in BOOLEAN : AppendEvent(rest)
  \/ Restart
  \/ \E b \in Browsers :
       Follows(b) \/ \E n \in Len(got[b]) - 1..Len(got[b]) : n >= 0 /\ Drops(b, n)
Spec == Init /\ [][Next]_vars

\* Generators run, and a browser that lost its stream opens another.
FairSpec == Spec /\ \A b \in Browsers : WF_vars(Follows(b))
-----------------------------------------------------------------------------
TypeOK ==
  /\ count \in Nat /\ resting \in BOOLEAN
  /\ stream \in [Browsers -> Places]
  /\ cursor \in [Browsers -> -1..count - 1] /\ batch \in [Browsers -> 0..count]
  /\ got \in [Browsers -> Seq(Nat)]
  /\ drops \in [Browsers -> 0..MaxDrops] /\ restarts \in 0..MaxRestarts

(***************************************************************************)
(* A stream only ends when its browser has every event, the one that       *)
(* brought the run to rest included, each once and in order over all the   *)
(* streams it needed.                                                      *)
(***************************************************************************)
EndsWithEverything ==
  [][\A b \in Browsers :
       stream[b] # "ended" /\ stream'[b] = "ended" =>
         got[b] = [i \in 1..count |-> i - 1]]_vars

(***************************************************************************)
(* A browser whose run stays at rest gets the end of its stream, and one   *)
(* whose run goes on catches up with it again and again, also when the     *)
(* event came between the check of the stream and its wait.                *)
(***************************************************************************)
CaughtUp(b) == Len(got[b]) = count \/ stream[b] = "ended"
EventsArrive ==
  []<>(\A b \in Browsers : CaughtUp(b))
=============================================================================
