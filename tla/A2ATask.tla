------------------------------ MODULE A2ATask ------------------------------
(***************************************************************************)
(* infra/agent_runtime/a2a.py: the A2A task store, the worker thread of    *)
(* each task, tasks/cancel, the SSE streams, eviction and the JSON         *)
(* snapshots that survive a restart.                                       *)
(*                                                                         *)
(* _TASK_LOCK makes each lookup and each _update_task mutation one step.   *)
(* The snapshot taken under the lock is written to disk after the lock is  *)
(* released, by a write_text that truncates the file first, so writes of   *)
(* the same task by its worker and by a cancelling client may be           *)
(* reordered, and a crash may leave the file torn.                         *)
(***************************************************************************)
EXTENDS Integers, FiniteSets, Sequences

CONSTANTS
  Tasks,       \* tasks that may be submitted
  Clients,     \* clients that cancel tasks
  Readers,     \* clients that hold an SSE stream
  MaxTasks,    \* A2A_MAX_TASKS
  MaxDrops,    \* bound on the disconnects of streams
  MaxCrashes   \* bound on the crashes

ASSUME ConstantsAssumption ==
  /\ IsFiniteSet(Tasks) /\ IsFiniteSet(Clients) /\ IsFiniteSet(Readers)
  /\ Tasks \cap Clients = {}
  /\ MaxTasks \in Nat \ {0} /\ MaxDrops \in Nat /\ MaxCrashes \in Nat

VARIABLES
  stored,   \* the tasks in _TASKS
  object,   \* object[t]: the dict of t, last stored or still held
  events,   \* tasks whose cancel event is set
  disk,     \* disk[t]: the snapshot under .a2a/
  io,       \* io[th]: the snapshot that thread th is about to persist
  worker,   \* worker[t]: where _execute_task of t is
  client,   \* client[k]: the task k is about to mark canceling, or Nobody
  stream,   \* stream[r]: what the generator of r is doing
  got,      \* got[r]: chunk indices r has received, over all its streams
  drops, crashes

memory  == <<stored, object, events>>
readers == <<stream, got, drops>>
vars == <<memory, disk, io, worker, client, readers, crashes>>

Active   == {"submitted", "working", "canceling"}
Terminal == {"completed", "failed", "canceled"}

\* Chunk 0 is the progress chunk, chunk 1 the answer; "result" tells whether
\* artifacts holds the answer.
Records == [state : Active \cup Terminal \cup {"absent", "torn"},
            chunks : 0..2, result : BOOLEAN]
NoTask == [state |-> "absent", chunks |-> 0, result |-> FALSE]
Torn   == [NoTask EXCEPT !.state = "torn"]

Threads == Tasks \cup Clients
NoIO    == [task |-> "none", rec |-> NoTask, opened |-> FALSE]
Nobody  == "none"

Steps == {"none", "start", "progress", "calling", "answer", "checking",
          "complete", "cancel", "fail", "done", "lost"}
Over  == {"none", "done", "lost"}

\* A generator is between two iterations ("top"), or sends the chunks it
\* found ("todo") and then the status.  Its locals: "sent" is
\* last_chunk_index, "last" last_state, and "found" (not in the code) the
\* state of the task when it looked for chunks.
NoStream == [pc |-> "off", task |-> Nobody, sent |-> -1, todo |-> {},
             last |-> "none", found |-> "none"]

Init ==
  /\ stored = {} /\ object = [t \in Tasks |-> NoTask]
  /\ events = {} /\ disk = [t \in Tasks |-> NoTask]
  /\ io = [th \in Threads |-> NoIO]
  /\ worker = [t \in Tasks |-> "none"]
  /\ client = [k \in Clients |-> Nobody]
  /\ stream = [r \in Readers |-> NoStream]
  /\ got = [r \in Readers |-> <<>>]
  /\ drops = 0 /\ crashes = 0
----------------------------------------------------------------------------
\* Mutant of AsLoaded: a task is taken from disk as it is.
AsLoadedVerbatim(rec) == rec

\* _load_task_from_disk: what did not end did not survive the restart.
AsLoaded(rec) ==
  IF rec.state \in Terminal THEN rec ELSE [rec EXCEPT !.state = "failed"]

OnDisk(t) == disk[t].state \notin {"absent", "torn"}

\* get_task of t returns the record rec, from memory or through the disk.
\* One step: a task that is not in memory has ended, so that only another
\* get_task can put it back between the lookup and the read of the file, and
\* the copy that loses is as terminal as the one that stays.
Fetch(t, rec) ==
  \/ /\ t \in stored /\ rec = object[t]
     /\ UNCHANGED <<stored, object>>
  \/ /\ t \notin stored /\ OnDisk(t)
     /\ rec = AsLoaded(disk[t])
     /\ stored' = stored \cup {t}
     /\ object' = [object EXCEPT ![t] = rec]

Idle(th) == io[th] = NoIO

\* _update_task of t by th: change it and remember the snapshot to write.
Update(th, t, rec) ==
  /\ t \in stored
  /\ object' = [object EXCEPT ![t] = rec]
  /\ io' = [io EXCEPT ![th] = [task |-> t, rec |-> rec, opened |-> FALSE]]

Goto(t, step) == worker' = [worker EXCEPT ![t] = step]

\* _persist_task, best effort: open truncates, write fills.
OpenFile(th) ==
  /\ ~Idle(th) /\ ~io[th].opened
  /\ disk' = [disk EXCEPT ![io[th].task] = Torn]
  /\ io' = [io EXCEPT ![th].opened = TRUE]
  /\ UNCHANGED <<memory, worker, client, readers, crashes>>

WriteFile(th) ==
  /\ ~Idle(th) /\ io[th].opened
  /\ disk' = [disk EXCEPT ![io[th].task] = io[th].rec]
  /\ io' = [io EXCEPT ![th] = NoIO]
  /\ UNCHANGED <<memory, worker, client, readers, crashes>>

WriteFails(th) ==
  /\ ~Idle(th)
  /\ io' = [io EXCEPT ![th] = NoIO]
  /\ UNCHANGED <<memory, disk, worker, client, readers, crashes>>
----------------------------------------------------------------------------
\* _evict_old_tasks over the store S: the excess in terminal tasks, as far
\* as there are any.  Which ones go first (by createdAt) is left open.
Evicted(S, gone) ==
  LET over == {t \in S : object[t].state \in Terminal}
      excess == Cardinality(S) - MaxTasks
  IN /\ gone \subseteq over
     /\ \/ excess <= 0 /\ gone = {}
        \/ excess > 0 /\ Cardinality(gone) = excess
        \/ excess > Cardinality(over) /\ gone = over

\* submit_message: store, evict, persist, start the worker.
Submit(t) ==
  /\ worker[t] = "none"
  /\ LET task == [state |-> "submitted", chunks |-> 0, result |-> FALSE] IN
       /\ \E gone \in SUBSET stored :
            /\ Evicted(stored \cup {t}, gone)
            /\ stored' = (stored \cup {t}) \ gone
            /\ events' = events \ gone
       /\ object' = [object EXCEPT ![t] = task]
       /\ io' = [io EXCEPT ![t] = [task |-> t, rec |-> task,
                                   opened |-> FALSE]]
  /\ Goto(t, "start")
  /\ UNCHANGED <<disk, client, readers, crashes>>

\* set_working keeps a cancellation that came first.
SetWorking(t) ==
  /\ worker[t] = "start" /\ Idle(t)
  /\ Update(t, t, [object[t] EXCEPT
                     !.state = IF @ = "canceling" THEN @ ELSE "working"])
  /\ Goto(t, "progress")
  /\ UNCHANGED <<stored, events, disk, client, readers, crashes>>

\* The first check of the cancel event, then the progress chunk.
Progress(t) ==
  /\ worker[t] = "progress" /\ Idle(t)
  /\ \/ /\ t \in events
        /\ Goto(t, "cancel")
        /\ UNCHANGED <<object, io>>
     \/ /\ t \notin events
        /\ Update(t, t, [object[t] EXCEPT !.chunks = @ + 1])
        /\ Goto(t, "calling")
  /\ UNCHANGED <<stored, events, disk, client, readers, crashes>>

\* Mutant of CallReturns: the check after the upstream call is left out.
CallReturnsUnchecked(t) ==
  /\ worker[t] = "calling" /\ Idle(t)
  /\ Goto(t, "answer")
  /\ UNCHANGED <<memory, disk, io, client, readers, crashes>>

\* call_deepseek answers: a cancellation that came meanwhile discards it.
CallReturns(t) ==
  /\ worker[t] = "calling" /\ Idle(t)
  /\ Goto(t, IF t \in events THEN "cancel" ELSE "answer")
  /\ UNCHANGED <<memory, disk, io, client, readers, crashes>>

CallFails(t) ==
  /\ worker[t] = "calling" /\ Idle(t)
  /\ Goto(t, "fail")
  /\ UNCHANGED <<memory, disk, io, client, readers, crashes>>

\* The answer chunk, unless the task is canceling by now.
Answer(t) ==
  /\ worker[t] = "answer" /\ Idle(t)
  /\ \/ /\ object[t].state = "canceling"
        /\ Update(t, t, object[t])
        /\ Goto(t, "cancel")
     \/ /\ object[t].state # "canceling"
        /\ Update(t, t, [object[t] EXCEPT !.chunks = @ + 1])
        /\ Goto(t, "checking")
  /\ UNCHANGED <<stored, events, disk, client, readers, crashes>>

\* The last check of the cancel event.
LastCheck(t) ==
  /\ worker[t] = "checking" /\ Idle(t)
  /\ Goto(t, IF t \in events THEN "cancel" ELSE "complete")
  /\ UNCHANGED <<memory, disk, io, client, readers, crashes>>

Settle(t, rec) ==
  Update(t, t, IF object[t].state \in Terminal THEN object[t] ELSE rec)

Complete(t) ==
  /\ worker[t] = "complete" /\ Idle(t)
  /\ Settle(t, [object[t] EXCEPT !.state = "completed", !.result = TRUE])
  /\ Goto(t, "done")
  /\ UNCHANGED <<stored, events, disk, client, readers, crashes>>

\* Mutant of Discard: only a task that is still working is canceled.
DiscardWorking(t) ==
  /\ worker[t] = "cancel" /\ Idle(t)
  /\ Update(t, t, [object[t] EXCEPT
                     !.state = IF @ = "working" THEN "canceled" ELSE @])
  /\ Goto(t, "done")
  /\ UNCHANGED <<stored, events, disk, client, readers, crashes>>

\* except RequestCancelled
Discard(t) ==
  /\ worker[t] = "cancel" /\ Idle(t)
  /\ Settle(t, [object[t] EXCEPT !.state = "canceled"])
  /\ Goto(t, "done")
  /\ UNCHANGED <<stored, events, disk, client, readers, crashes>>

\* _fail_task
Fail(t) ==
  /\ worker[t] = "fail" /\ Idle(t)
  /\ Settle(t, [object[t] EXCEPT !.state = "failed"])
  /\ Goto(t, "done")
  /\ UNCHANGED <<stored, events, disk, client, readers, crashes>>
----------------------------------------------------------------------------
\* tasks/get of a task that is not in memory brings it back.
Get(t) ==
  /\ t \notin stored
  /\ \E rec \in Records : Fetch(t, rec)
  /\ UNCHANGED <<events, disk, io, worker, client, readers, crashes>>

\* cancel_task up to event.set(); setting it after the task has ended, which
\* the code may do, is seen by nobody.
RequestCancel(k, t) ==
  /\ client[k] = Nobody /\ Idle(k)
  /\ t \in stored /\ object[t].state \notin Terminal
  /\ events' = events \cup {t}
  /\ client' = [client EXCEPT ![k] = t]
  /\ UNCHANGED <<stored, object, disk, io, worker, readers, crashes>>

\* Mutant of MarkCanceling: the state is not looked at again.
MarkCancelingBlindly(k) ==
  /\ client[k] \in stored
  /\ Update(k, client[k], [object[client[k]] EXCEPT !.state = "canceling"])
  /\ client' = [client EXCEPT ![k] = Nobody]
  /\ UNCHANGED <<stored, events, disk, worker, readers, crashes>>

MarkCanceling(k) ==
  /\ client[k] \in stored
  /\ LET task == object[client[k]] IN
       Update(k, client[k], IF task.state \in Terminal THEN task
                            ELSE [task EXCEPT !.state = "canceling"])
  /\ client' = [client EXCEPT ![k] = Nobody]
  /\ UNCHANGED <<stored, events, disk, worker, readers, crashes>>

\* The task ended and was evicted meanwhile: "Task not found".
CancelMisses(k) ==
  /\ client[k] # Nobody /\ client[k] \notin stored
  /\ client' = [client EXCEPT ![k] = Nobody]
  /\ UNCHANGED <<memory, disk, io, worker, readers, crashes>>
----------------------------------------------------------------------------
\* What the peer names when it (re)subscribes: the last index it has.
AfterChunkIndex(r) == IF got[r] = <<>> THEN -1 ELSE got[r][Len(got[r])]

\* message/stream or tasks/resubscribe; a reader sticks to one task and
\* resumes after the last chunk it has.
Subscribe(r, t) ==
  /\ stream[r].pc = "off" /\ worker[t] # "none"
  /\ stream[r].task \in {Nobody, t}
  /\ \E rec \in Records :
       /\ Fetch(t, rec)
       /\ stream' = [stream EXCEPT ![r] =
                       [NoStream EXCEPT !.pc = "top", !.task = t,
                                        !.sent = AfterChunkIndex(r),
                                        !.last = rec.state]]
  /\ UNCHANGED <<events, disk, io, worker, client, got, drops, crashes>>

\* _task_chunks_after: chunks are numbered from 0 as they are appended.
ChunksAfter(rec, index) == {i \in 0 .. rec.chunks - 1 : i > index}

\* The loop of _stream_task_events: first the chunks there are...
ReadChunks(r) ==
  /\ stream[r].pc = "top"
  /\ \E rec \in Records :
       /\ Fetch(stream[r].task, rec)
       /\ stream' = [stream EXCEPT ![r].pc = "chunks",
                                   ![r].todo = ChunksAfter(rec, stream[r].sent),
                                   ![r].found = rec.state]
  /\ UNCHANGED <<events, disk, io, worker, client, got, drops, crashes>>

\* The list is in the order of the indices.
Foremost(S, i) == i \in S /\ \A j \in S : i <= j

\* Mutant of SendChunk: last_chunk_index is not moved on.
SendChunkUncounted(r) ==
  /\ stream[r].pc = "chunks"
  /\ \E i \in 0..1 :
       /\ Foremost(stream[r].todo, i)
       /\ stream' = [stream EXCEPT ![r].todo = @ \ {i}]
       /\ got' = [got EXCEPT ![r] = Append(@, i)]
  /\ UNCHANGED <<memory, disk, io, worker, client, drops, crashes>>

SendChunk(r) ==
  /\ stream[r].pc = "chunks"
  /\ \E i \in 0..1 :
       /\ Foremost(stream[r].todo, i)
       /\ stream' = [stream EXCEPT ![r].sent = i, ![r].todo = @ \ {i}]
       /\ got' = [got EXCEPT ![r] = Append(@, i)]
  /\ UNCHANGED <<memory, disk, io, worker, client, drops, crashes>>

SendStatus(r, state, final) ==
  /\ stream[r].pc = "chunks" /\ stream[r].todo = {}
  /\ stream' = [stream EXCEPT ![r].pc = IF final THEN "over" ELSE "top",
                              ![r].last = state,
                              ![r].found = IF final THEN @ ELSE "none"]
  /\ UNCHANGED <<memory, disk, io, worker, client, got, drops, crashes>>

\* Mutant of ReadState: a status is only sent when the state has changed.
ReadStateChanged(r) ==
  \E state \in {object[t].state : t \in {stream[r].task} \cap Tasks} :
    SendStatus(r, state, state \in Terminal /\ state # stream[r].last)

\* ... then the state, of the same dict but later; a terminal one is final.
ReadState(r) ==
  \E state \in {object[t].state : t \in {stream[r].task} \cap Tasks} :
    SendStatus(r, state, state \in Terminal)

\* Evicted, and not readable on disk: the stream ends with an error.
StreamMisses(r) ==
  /\ stream[r].pc = "top"
  /\ stream[r].task \notin stored /\ ~OnDisk(stream[r].task)
  /\ stream' = [stream EXCEPT ![r].pc = "over"]
  /\ UNCHANGED <<memory, disk, io, worker, client, got, drops, crashes>>

\* A generator that was closed has lost its locals.
Closed(s) == [NoStream EXCEPT !.task = s.task]

\* GeneratorExit: the peer went away and may resubscribe.
Disconnect(r) ==
  /\ stream[r].pc \in {"top", "chunks"} /\ drops < MaxDrops
  /\ stream' = [stream EXCEPT ![r] = Closed(@)]
  /\ drops' = drops + 1
  /\ UNCHANGED <<memory, disk, io, worker, client, got, crashes>>

\* The process dies and starts again with an empty store.
Crash ==
  /\ crashes < MaxCrashes /\ crashes' = crashes + 1
  /\ stored' = {} /\ events' = {}
  /\ io' = [th \in Threads |-> NoIO]
  /\ worker' = [t \in Tasks |-> IF worker[t] \in Over /\ io[t] = NoIO
                                THEN worker[t] ELSE "lost"]
  /\ client' = [k \in Clients |-> Nobody]
  /\ stream' = [r \in Readers |->
                  IF stream[r].pc = "over" THEN stream[r]
                  ELSE Closed(stream[r])]
  /\ UNCHANGED <<object, disk, got, drops>>

Quiet ==
  /\ \A t \in Tasks : worker[t] \in {"done", "lost"}
  /\ \A th \in Threads : Idle(th)
  /\ UNCHANGED vars

Work(t) ==
  \/ SetWorking(t) \/ Progress(t) \/ CallReturns(t) \/ CallFails(t)
  \/ Answer(t) \/ LastCheck(t) \/ Complete(t) \/ Discard(t) \/ Fail(t)
Persist(th) == OpenFile(th) \/ WriteFile(th) \/ WriteFails(th)
Push(r) == ReadChunks(r) \/ SendChunk(r) \/ ReadState(r) \/ StreamMisses(r)

Next ==
  \/ \E t \in Tasks : Submit(t) \/ Work(t) \/ Get(t)
  \/ \E th \in Threads : Persist(th)
  \/ \E k \in Clients :
       \/ \E t \in Tasks : RequestCancel(k, t)
       \/ MarkCanceling(k) \/ CancelMisses(k)
  \/ \E r \in Readers :
       \/ \E t \in Tasks : Subscribe(r, t)
       \/ Push(r) \/ Disconnect(r)
  \/ Crash
  \/ Quiet

Spec == Init /\ [][Next]_vars

\* Threads run, the upstream call has a timeout, and a peer that keeps its
\* stream open reads it.
Fairness ==
  /\ \A t \in Tasks : WF_vars(Work(t))
  /\ \A th \in Threads : WF_vars(Persist(th))
  /\ \A r \in Readers : WF_vars(Push(r))

FairSpec == Spec /\ Fairness
----------------------------------------------------------------------------
\* The store, the files and the threads have the shape the code gives them.
TypeOK ==
  /\ stored \in SUBSET Tasks /\ events \in SUBSET Tasks
  /\ object \in [Tasks -> Records] /\ disk \in [Tasks -> Records]
  /\ io \in [Threads -> [task : Tasks \cup {Nobody}, rec : Records,
                         opened : BOOLEAN]]
  /\ worker \in [Tasks -> Steps]
  /\ client \in [Clients -> Tasks \cup {Nobody}]
  /\ stream \in [Readers -> [pc : {"off", "top", "chunks", "over"},
                             task : Tasks \cup {Nobody}, sent : -1..1,
                             todo : SUBSET (0..1),
                             last : Active \cup Terminal \cup {"none"},
                             found : Active \cup Terminal \cup {"none"}]]
  /\ got \in [Readers -> Seq(0..1)]
  /\ drops \in 0..MaxDrops /\ crashes \in 0..MaxCrashes

(***************************************************************************)
(* In memory and on disk, whatever writes were reordered: a completed task *)
(* carries its answer as artifact and as chunk, and no other task carries  *)
(* an artifact.                                                            *)
(***************************************************************************)
AnswerIffCompleted ==
  \A t \in Tasks : \A rec \in {object[t], disk[t]} :
    /\ rec.result <=> rec.state = "completed"
    /\ rec.result => rec.chunks = 2

(***************************************************************************)
(* A task of the running process is active exactly as long as its worker   *)
(* has something to do: no task is stored as active with nobody left to    *)
(* end it, also when it came back from disk after a restart.               *)
(***************************************************************************)
ActiveIffWorked ==
  \A t \in stored :
    object[t].state \in Active <=> worker[t] \notin Over

(***************************************************************************)
(* tasks/cancel is heard by the checks around the upstream call: once the  *)
(* event is set before the call returned, the task never completes and its *)
(* answer never becomes a chunk.                                           *)
(***************************************************************************)
EarlyCancelWins ==
  [][\A t \in Tasks :
       worker[t] \in {"start", "progress", "calling"} /\ t \in events =>
         worker'[t] \notin {"answer", "checking", "complete"}]_vars

\* While a task stays in memory its verdict is not revised.
StoredVerdictStays ==
  [][\A t \in stored \cap stored' :
       object[t].state \in Terminal => object'[t] = object[t]]_vars

\* What was decided stands: the early cancellation, and the verdict.
DecisionsStand == EarlyCancelWins /\ StoredVerdictStays

(***************************************************************************)
(* A client that resubscribes with its cursor gets every chunk once and in *)
(* order, over any number of disconnects and restarts, whatever the task   *)
(* appends meanwhile; and when its stream is over and the task was         *)
(* completed as it looked for chunks, it has the whole answer.             *)
(***************************************************************************)
ChunksOnceInOrder ==
  \A r \in Readers :
    /\ \A i \in 1..Len(got[r]) : got[r][i] = i - 1
    /\ stream[r].pc = "over" /\ stream[r].found = "completed" =>
         Len(got[r]) = 2

\* Every active task ends, or dies with the process.
TasksEnd ==
  \A t \in Tasks : object[t].state \in Active ~>
                     object[t].state \in Terminal \/ worker[t] = "lost"

\* A stream ends (or its peer goes away): also one opened after the end.
StreamsEnd ==
  \A r \in Readers : stream[r].pc \in {"top", "chunks"} ~>
                       stream[r].pc \in {"over", "off"}

(***************************************************************************)
(* docs/API.md: a task goes from canceling to canceled (its result is      *)
(* discarded), so never to completed.                                      *)
(***************************************************************************)
CancelingNeverCompletes ==
  [][\A t \in Tasks : object[t].state = "canceling" =>
                        object'[t].state # "completed"]_vars
============================================================================
