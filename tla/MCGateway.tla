----------------------------- MODULE MCGateway -----------------------------
(***************************************************************************)
(* Three machines on the way to the upstream in one run, one of them at a  *)
(* time: a streaming call, which can be cancelled, and a JSON call with    *)
(* their rows in the request queue; and, for their liveness, a scheduler   *)
(* with a single slot and an A2A task with a client and a reader.          *)
(***************************************************************************)
EXTENDS RequestQueue

CONSTANTS stream, json, c1, c2, c3, Priorities, MaxConcurrency, MaxQueueDepth,
          RateLimited, Burst, Timeouts, DlqMaxRows, MaxRequests,
          t1, k1, r1, MaxTasks, MaxDrops, MaxTaskCrashes

VARIABLES which, place, ticket, left, expired, waiters, seq, in_flight, waiting,
          tokens, stats, dlq,
          stored, object, events, disk, io, job, client, feed, got, drops, died

MCCalls      == {stream, json}
MCStreams    == {stream}
MCPriorities == {0, 10}

S == INSTANCE Scheduler WITH
       pc <- place, cancel <- left, Clients <- {c1, c2, c3}, Cancellable <- {c1}

A == INSTANCE A2ATask WITH
       Tasks <- {t1}, Clients <- {k1}, Readers <- {r1}, worker <- job, stream <- feed,
       crashes <- died, MaxCrashes <- MaxTaskCrashes

tasks == <<stored, object, events, disk, io, job, client, feed, got, drops, died>>
slots == <<place, ticket, left, expired, waiters, seq, in_flight, waiting,
           tokens, stats, dlq>>
all == <<which, vars, slots, tasks>>

\* The machine of a behaviour is chosen at the start; the others rest.
MCInit == Init /\ S!Init /\ A!Init /\ which \in {"queue", "scheduler", "tasks"}

MCNext ==
  \/ which = "queue" /\ Next /\ UNCHANGED <<which, slots, tasks>>
  \/ which = "scheduler" /\ S!Next /\ UNCHANGED <<which, vars, tasks>>
  \/ which = "tasks" /\ A!Next /\ UNCHANGED <<which, vars, slots>>

InQueue(N)     == which = "queue" /\ N /\ UNCHANGED <<which, slots, tasks>>
InScheduler(N) == which = "scheduler" /\ N /\ UNCHANGED <<which, vars, tasks>>
InTasks(N)     == which = "tasks" /\ N /\ UNCHANGED <<which, vars, slots>>

\* The fairness of RequestQueue, of Scheduler and of A2ATask.
MCSpec ==
  /\ MCInit /\ [][MCNext]_all
  /\ \A c \in Calls : /\ WF_all(InQueue(Check(c) \/ StartAttempt(c)
                                             \/ Abandon(c)))
                      /\ WF_all(InQueue(Opening(c)))
  /\ \A c \in {c1, c2, c3} : /\ WF_all(InScheduler(S!Poll(c)))
                             /\ WF_all(InScheduler(S!DeadlinePasses(c)))
  /\ WF_all(InScheduler(S!Refill))
  /\ WF_all(InTasks(A!Work(t1)))
  /\ \A th \in {t1, k1} : WF_all(InTasks(A!Persist(th)))
  /\ WF_all(InTasks(A!Push(r1)))

\* The scheduler serves: nobody waits for ever, and no slot stays idle.
WaitingEnds == S!NobodyWaitsForEver /\ S!SlotsAreFilled
\* Tasks end, and the streams that follow them.
TasksEnd    == which = "tasks" => A!TasksEnd /\ A!StreamsEnd
=============================================================================
