--------------------------- MODULE A2ATaskProofs ---------------------------
(***************************************************************************)
(* Safety of the A2A task store for every number of tasks, clients,        *)
(* readers, disconnects and crashes, and every size of the store.          *)
(***************************************************************************)
EXTENDS A2ATask, TLAPS

(***************************************************************************)
(* The properties speak of records, in memory and on disk; what keeps them *)
(* is the worker, and the snapshots that threads hold for the disk.  A     *)
(* record is whole wherever it is; the worker's place says what the record *)
(* of its task holds, and that the store cannot have evicted it; and a     *)
(* task without a worker was never written anywhere, so that nothing old   *)
(* of it can come back from the disk.                                      *)
(***************************************************************************)

\* A completed task carries its answer, and no other task carries one.
Whole(rec) ==
  /\ rec.result <=> rec.state = "completed"
  /\ rec.result => rec.chunks = 2

\* In memory, on disk, and on the way from one to the other.
Snapshots ==
  /\ \A t \in Tasks : Whole(object[t]) /\ Whole(disk[t])
  /\ \A th \in Threads : Whole(io[th].rec)

\* What a stored task holds when its worker is at a place.
At(place, rec) ==
  /\ place \notin Over => rec.state \in Active
  /\ place \in {"start", "progress"} => rec.chunks = 0
  /\ place \in {"calling", "answer"} => rec.chunks = 1
  /\ place \in {"checking", "complete"} => rec.chunks = 2
  /\ place \in Over => rec.state \in Terminal

Placed(t) ==
  /\ worker[t] \notin Over => t \in stored
  /\ t \in stored => At(worker[t], object[t])
  /\ worker[t] # "none" => object[t].state \in Active \cup Terminal

\* A task that was never submitted is nowhere.
Unborn(t) ==
  worker[t] = "none" =>
    /\ t \notin stored /\ object[t].state = "absent" /\ disk[t].state = "absent"
    /\ \A th \in Threads : th = t \/ io[th].task = t => Idle(th)

TaskInv(t) == Placed(t) /\ Unborn(t)

\* An open stream of a reader that has n chunks is one of a task that was
\* submitted, its cursor stands at the last chunk the reader has, and it is
\* about to send what follows, all of it once the task was completed.
Fits(st, n) ==
  /\ st.pc \in {"top", "chunks"} =>
       st.task \in Tasks /\ worker[st.task] # "none" /\ st.sent = n - 1
  /\ st.pc = "top" => st.found = "none"
  /\ st.pc = "chunks" =>
       \E b \in 0..2 :
         /\ st.todo = n .. b - 1
         /\ st.found = "completed" => b = 2
  /\ st.pc = "over" /\ st.found = "completed" => n = 2

\* A reader has the chunks from 0 on.
Received(r) ==
  /\ \A i \in 1..Len(got[r]) : got[r][i] = i - 1
  /\ Len(got[r]) \in 0..2
  /\ Fits(stream[r], Len(got[r]))

IInv ==
  /\ TypeOK
  /\ Snapshots
  /\ \A t \in Tasks : TaskInv(t)
  /\ \A r \in Readers : Received(r)

-----------------------------------------------------------------------------
\* The records that the steps write.
LEMMA SomeRecords ==
  /\ NoTask \in Records /\ Torn \in Records
  /\ Whole(NoTask) /\ Whole(Torn)
  /\ NoTask.state = "absent" /\ Torn.state = "torn"
<1>1. NoTask \in Records
  BY DEF NoTask, Records, Active, Terminal
<1>2. Torn \in Records
  BY <1>1 DEF Torn, Records
<1>3. NoTask.state = "absent" /\ NoTask.chunks = 0 /\ ~NoTask.result
  BY DEF NoTask
<1>4. Torn.state = "torn" /\ Torn.chunks = 0 /\ ~Torn.result
  BY <1>3 DEF Torn, NoTask
<1>5. Whole(NoTask)
  BY <1>3 DEF Whole
<1>6. Whole(Torn)
  BY <1>4 DEF Whole
<1> QED
  BY <1>1, <1>2, <1>3, <1>4, <1>5, <1>6

\* Another state that is not the completed one.
LEMMA OtherState ==
  ASSUME NEW rec \in Records, Whole(rec), ~rec.result,
         NEW s \in (Active \cup Terminal) \ {"completed"}
  PROVE  LET new == [rec EXCEPT !.state = s]
         IN /\ new \in Records /\ Whole(new)
            /\ new.state = s /\ new.chunks = rec.chunks
  BY DEF Records, Whole

\* One more chunk of a task without an answer.
LEMMA OtherChunks ==
  ASSUME NEW rec \in Records, Whole(rec), ~rec.result, rec.chunks \in {0, 1}
  PROVE  LET new == [rec EXCEPT !.chunks = @ + 1]
         IN /\ new \in Records /\ Whole(new)
            /\ new.state = rec.state /\ new.chunks = rec.chunks + 1
  BY DEF Records, Whole

\* The answer of a task that has sent both chunks.
LEMMA Answered ==
  ASSUME NEW rec \in Records, rec.chunks = 2
  PROVE  LET new == [rec EXCEPT !.state = "completed", !.result = TRUE]
         IN new \in Records /\ Whole(new) /\ new.state = "completed"
  BY DEF Records, Whole, Terminal

\* What comes back from the disk is whole and at rest.
LEMMA Loaded ==
  ASSUME NEW rec \in Records, Whole(rec)
  PROVE  AsLoaded(rec) \in Records /\ Whole(AsLoaded(rec)) /\ AsLoaded(rec).state \in Terminal
  BY DEF Records, Whole, AsLoaded, Terminal

LEMMA AtKnown ==
  ASSUME NEW rec, NEW place, At(place, rec)
  PROVE  rec.state \in Active \cup Terminal
  BY DEF At

\* A worker that is not over works on a stored, active task without an answer.
LEMMA AtWork ==
  ASSUME IInv, NEW t \in Tasks, worker[t] \notin Over
  PROVE  /\ t \in stored /\ object[t] \in Records /\ Whole(object[t])
         /\ At(worker[t], object[t]) /\ object[t].state \in Active /\ ~object[t].result
  BY DEF IInv, TypeOK, Snapshots, TaskInv, Placed, At, Whole, Active

-----------------------------------------------------------------------------
LEMMA Initially == Init => IInv
<1> SUFFICES ASSUME Init PROVE IInv
  OBVIOUS
<1> USE ConstantsAssumption DEF Init
<1>1. io \in [Threads -> [task : Tasks \cup {Nobody}, rec : Records, opened : BOOLEAN]]
  BY SomeRecords DEF NoIO, Nobody
<1>2. stream \in [Readers -> [pc : {"off", "top", "chunks", "over"},
                              task : Tasks \cup {Nobody}, sent : -1..1,
                              todo : SUBSET (0..1),
                              last : Active \cup Terminal \cup {"none"},
                              found : Active \cup Terminal \cup {"none"}]]
  BY DEF NoStream
<1>3. TypeOK
  BY <1>1, <1>2, SomeRecords DEF TypeOK, Steps, Nobody
<1>4. Snapshots
  BY SomeRecords DEF Snapshots, NoIO
<1>5. ASSUME NEW t \in Tasks PROVE TaskInv(t)
  BY SomeRecords DEF TaskInv, Placed, Unborn, Over, Idle
<1>6. ASSUME NEW r \in Readers PROVE Received(r)
  BY DEF Received, Fits, NoStream
<1> QED
  BY <1>3, <1>4, <1>5, <1>6 DEF IInv

-----------------------------------------------------------------------------
\* What TypeOK says of the store, of the threads and of the readers.
StoreTyped ==
  /\ stored \in SUBSET Tasks /\ events \in SUBSET Tasks
  /\ object \in [Tasks -> Records] /\ disk \in [Tasks -> Records]
  /\ io \in [Threads -> [task : Tasks \cup {Nobody}, rec : Records, opened : BOOLEAN]]
  /\ worker \in [Tasks -> Steps]

StoreInv == StoreTyped /\ Snapshots /\ \A t \in Tasks : TaskInv(t)

(***************************************************************************)
(* An update of a task that was submitted, by its worker or by a client:   *)
(* the record must be whole and be what the worker's new place asks for.   *)
(***************************************************************************)
LEMMA Updated ==
  ASSUME IInv, NEW t \in Tasks, NEW th \in Clients \cup {t}, NEW rec \in Records, Whole(rec),
         NEW step \in Steps, step # "none", worker[t] # "none", At(step, rec),
         Update(th, t, rec), worker' = [worker EXCEPT ![t] = step],
         UNCHANGED <<stored, events, disk>>
  PROVE  StoreInv'
<1> USE DEF IInv, TypeOK, Update
<1>0. th \in Threads /\ \A d \in Tasks : d # t => d # th
  BY ConstantsAssumption DEF Threads
<1>1. StoreTyped'
  <2>1. [task |-> t, rec |-> rec, opened |-> FALSE]
          \in [task : Tasks \cup {Nobody}, rec : Records, opened : BOOLEAN]
    OBVIOUS
  <2>2. io' \in [Threads -> [task : Tasks \cup {Nobody}, rec : Records, opened : BOOLEAN]]
    BY <2>1
  <2> QED
    BY <2>2 DEF StoreTyped
<1>2. Snapshots'
  <2>1. ASSUME NEW d \in Tasks PROVE Whole(object'[d]) /\ Whole(disk'[d])
    BY DEF Snapshots
  <2>2. ASSUME NEW x \in Threads PROVE Whole(io'[x].rec)
    <3>1. CASE x = th
      BY <3>1
    <3>2. CASE x # th
      BY <3>2 DEF Snapshots
    <3> QED
      BY <3>1, <3>2
  <2> QED
    BY <2>1, <2>2 DEF Snapshots
<1>3. ASSUME NEW d \in Tasks PROVE TaskInv(d)'
  <2>1. CASE d = t
    <3>1. rec.state \in Active \cup Terminal
      BY AtKnown
    <3> QED
      BY <2>1, <3>1 DEF TaskInv, Placed, Unborn
  <2>2. CASE d # t
    <3>1. object'[d] = object[d] /\ worker'[d] = worker[d] /\ TaskInv(d)
      BY <2>2
    <3>2. ASSUME NEW x \in Threads, worker[d] = "none", x = d \/ io'[x].task = d
          PROVE  io'[x] = NoIO
      BY <1>0, <2>2, <3>1, <3>2 DEF TaskInv, Unborn, Idle
    <3> QED
      BY <3>1, <3>2 DEF TaskInv, Placed, Unborn, Idle
  <2> QED
    BY <2>1, <2>2
<1> QED
  BY <1>1, <1>2, <1>3 DEF StoreInv

\* A worker that moves on without an update.
LEMMA MovedOn ==
  ASSUME IInv, NEW t \in Tasks, NEW step \in Steps, worker[t] \notin Over,
         At(step, object[t]), step \notin Over,
         worker' = [worker EXCEPT ![t] = step],
         UNCHANGED <<memory, disk, io>>
  PROVE  StoreInv'
<1> USE DEF IInv, TypeOK, memory
<1>1. StoreTyped' /\ Snapshots'
  BY DEF StoreTyped, Snapshots
<1>2. ASSUME NEW d \in Tasks PROVE TaskInv(d)'
  BY AtWork DEF TaskInv, Placed, Unborn, Idle, Over
<1> QED
  BY <1>1, <1>2 DEF StoreInv

\* What the readers and the clients do touches neither the store nor the disk.
LEMMA StoreAlone ==
  ASSUME IInv, UNCHANGED <<memory, disk, io, worker>>
  PROVE  StoreInv'
<1> USE DEF IInv, TypeOK, memory
<1>1. StoreTyped' /\ Snapshots'
  BY DEF StoreTyped, Snapshots
<1>2. ASSUME NEW d \in Tasks PROVE TaskInv(d)'
  BY DEF TaskInv, Placed, Unborn, Idle
<1> QED
  BY <1>1, <1>2 DEF StoreInv

\* A task that a reader looks at and that may come back from the disk.
LEMMA Fetched ==
  ASSUME IInv, NEW t \in Tasks, NEW rec \in Records, Fetch(t, rec),
         UNCHANGED <<events, disk, io, worker>>
  PROVE  StoreInv'
<1> USE DEF IInv, TypeOK
<1>1. CASE UNCHANGED <<stored, object>>
  BY <1>1, StoreAlone DEF memory
<1>2. CASE ~UNCHANGED <<stored, object>>
  <2>0. /\ t \notin stored /\ OnDisk(t) /\ rec = AsLoaded(disk[t])
        /\ stored' = stored \cup {t} /\ object' = [object EXCEPT ![t] = rec]
    BY <1>2 DEF Fetch
  <2>1. Whole(rec) /\ rec.state \in Terminal
    BY <2>0, Loaded DEF Snapshots
  <2>2. worker[t] \in Over /\ worker[t] # "none"
    BY <2>0 DEF TaskInv, Placed, Unborn, OnDisk
  <2>3. StoreTyped' /\ Snapshots'
    BY <2>0, <2>1 DEF StoreTyped, Snapshots
  <2>4. At(worker[t], rec)
    BY <2>1, <2>2 DEF At, Over
  <2>5. ASSUME NEW d \in Tasks PROVE TaskInv(d)'
    <3>1. CASE d = t
      BY <2>0, <2>1, <2>2, <2>4, <3>1 DEF TaskInv, Placed, Unborn
    <3>2. CASE d # t
      BY <2>0, <3>2 DEF TaskInv, Placed, Unborn, Idle
    <3> QED
      BY <3>1, <3>2
  <2> QED
    BY <2>3, <2>5 DEF StoreInv
<1> QED
  BY <1>1, <1>2

\* The three steps of a write.
LEMMA Persisted ==
  ASSUME IInv, NEW th \in Threads, Persist(th)
  PROVE  StoreInv'
<1> USE DEF IInv, TypeOK
<1>0. UNCHANGED <<memory, worker>> /\ ~Idle(th)
  BY DEF Persist, OpenFile, WriteFile, WriteFails
<1>1. io' \in [Threads -> [task : Tasks \cup {Nobody}, rec : Records, opened : BOOLEAN]]
  <2>1. NoIO \in [task : Tasks \cup {Nobody}, rec : Records, opened : BOOLEAN]
    BY SomeRecords DEF NoIO, Nobody
  <2>2. [io[th] EXCEPT !.opened = TRUE]
          \in [task : Tasks \cup {Nobody}, rec : Records, opened : BOOLEAN]
    <3>1. io[th] \in [task : Tasks \cup {Nobody}, rec : Records, opened : BOOLEAN]
      OBVIOUS
    <3> QED
      BY ONLY <3>1
  <2> QED
    BY <2>1, <2>2 DEF Persist, OpenFile, WriteFile, WriteFails
<1>2. \A x \in Threads : Whole(io'[x].rec) /\ (io'[x] = NoIO \/ io'[x].task = io[x].task)
  <2>1. Whole(NoIO.rec)
    BY SomeRecords DEF NoIO
  <2>2. CASE OpenFile(th)
    <3>1. io' = [io EXCEPT ![th] = [io[th] EXCEPT !.opened = TRUE]]
      BY <2>2 DEF OpenFile
    <3>2. /\ [io[th] EXCEPT !.opened = TRUE].rec = io[th].rec
          /\ [io[th] EXCEPT !.opened = TRUE].task = io[th].task
      OBVIOUS
    <3> QED
      BY <3>1, <3>2 DEF Snapshots
  <2>3. CASE WriteFile(th) \/ WriteFails(th)
    <3>1. io' = [io EXCEPT ![th] = NoIO]
      BY <2>3 DEF WriteFile, WriteFails
    <3> QED
      BY <2>1, <3>1 DEF Snapshots
  <2> QED
    BY <2>2, <2>3 DEF Persist
<1>3. PICK rec \in Records : Whole(rec) /\ disk' \in {disk, [disk EXCEPT ![io[th].task] = rec]}
  <2>1. CASE OpenFile(th)
    BY <2>1, SomeRecords DEF OpenFile
  <2>2. CASE WriteFile(th)
    BY <2>2 DEF WriteFile, Snapshots
  <2>3. CASE WriteFails(th)
    BY <2>3, SomeRecords DEF WriteFails
  <2> QED
    BY <2>1, <2>2, <2>3 DEF Persist
<1>4. StoreTyped'
  <2>1. disk' \in [Tasks -> Records]
    BY <1>3
  <2> QED
    BY <1>0, <1>1, <2>1 DEF StoreTyped, memory
<1>5. Snapshots'
  BY <1>0, <1>2, <1>3 DEF Snapshots, memory
<1>6. ASSUME NEW d \in Tasks PROVE TaskInv(d)'
  <2>1. Placed(d)'
    BY <1>0 DEF TaskInv, Placed, memory
  <2>2. ASSUME worker[d] = "none"
        PROVE  /\ d \notin stored /\ object[d].state = "absent" /\ disk'[d].state = "absent"
               /\ \A x \in Threads : x = d \/ io'[x].task = d => io'[x] = NoIO
    <3>1. io[th].task # d
      BY <1>0, <2>2 DEF TaskInv, Unborn
    <3>2. disk'[d] = disk[d]
      BY <1>3, <3>1
    <3>3. \A x \in Threads : x = d \/ io[x].task = d => io[x] = NoIO
      BY <2>2 DEF TaskInv, Unborn, Idle
    <3>4. \A x \in Threads : x # th => io'[x] = io[x]
      BY DEF Persist, OpenFile, WriteFile, WriteFails
    <3>5. \A x \in Threads : x = d \/ io'[x].task = d => io'[x] = NoIO
      BY <1>0, <1>2, <3>1, <3>3, <3>4 DEF Idle
    <3> QED
      BY <2>2, <3>2, <3>5 DEF TaskInv, Unborn
  <2> QED
    BY <1>0, <2>1, <2>2 DEF TaskInv, Unborn, Idle, memory
<1> QED
  BY <1>4, <1>5, <1>6 DEF StoreInv

\* A new task takes a place from ended ones only.
LEMMA Submitted ==
  ASSUME IInv, NEW t \in Tasks, Submit(t)
  PROVE  StoreInv'
<1> USE DEF IInv, TypeOK
<1> DEFINE new == [state |-> "submitted", chunks |-> 0, result |-> FALSE]
           entry == [task |-> t, rec |-> new, opened |-> FALSE]
<1>0. worker[t] = "none" /\ worker' = [worker EXCEPT ![t] = "start"] /\ disk' = disk
  BY DEF Submit, Goto
<1>1. object' = [object EXCEPT ![t] = new] /\ io' = [io EXCEPT ![t] = entry]
  BY DEF Submit
<1>2. new \in Records /\ Whole(new) /\ At("start", new)
  BY DEF Records, Whole, At, Over, Active, Terminal
<1>3. PICK gone \in SUBSET stored :
        /\ gone \subseteq {d \in stored \cup {t} : object[d].state \in Terminal}
        /\ stored' = (stored \cup {t}) \ gone /\ events' = events \ gone
  BY DEF Submit, Evicted
<1>4. t \notin stored /\ t \notin gone
  BY <1>0 DEF TaskInv, Unborn
<1> HIDE DEF new
<1>5. t \in Threads
  BY DEF Threads
<1>6. StoreTyped'
  <2>1. entry \in [task : Tasks \cup {Nobody}, rec : Records, opened : BOOLEAN]
    BY <1>2
  <2> QED
    BY <1>0, <1>1, <1>2, <1>3, <2>1 DEF StoreTyped, Steps
<1>7. Snapshots'
  BY <1>0, <1>1, <1>2, <1>5 DEF Snapshots
<1>8. ASSUME NEW d \in Tasks PROVE TaskInv(d)'
  <2>1. CASE d = t
    BY <1>0, <1>1, <1>2, <1>3, <1>4, <2>1, AtKnown DEF TaskInv, Placed, Unborn
  <2>2. CASE d # t
    <3>1. object'[d] = object[d] /\ worker'[d] = worker[d] /\ disk'[d] = disk[d] /\ TaskInv(d)
      BY <1>0, <1>1, <2>2
    <3>2. worker[d] \notin Over => d \notin gone
      BY <1>3, AtWork DEF Active, Terminal
    <3>3. ASSUME NEW x \in Threads, worker[d] = "none", x = d \/ io'[x].task = d
          PROVE  io'[x] = NoIO
      BY <1>1, <2>2, <3>1, <3>3 DEF TaskInv, Unborn, Idle
    <3> QED
      BY <1>3, <2>2, <3>1, <3>2, <3>3 DEF TaskInv, Placed, Unborn, Idle
  <2> QED
    BY <2>1, <2>2
<1> QED
  BY <1>6, <1>7, <1>8 DEF StoreInv

\* The store, the events and the threads are gone; the records are not.
LEMMA Crashed ==
  ASSUME IInv, Crash
  PROVE  StoreInv'
<1> USE DEF IInv, TypeOK, Crash
<1>1. NoIO \in [task : Tasks \cup {Nobody}, rec : Records, opened : BOOLEAN] /\ Whole(NoIO.rec)
  BY SomeRecords DEF NoIO, Nobody
<1>2. StoreTyped' /\ Snapshots'
  BY <1>1 DEF StoreTyped, Snapshots, Steps
<1>3. ASSUME NEW d \in Tasks PROVE TaskInv(d)'
  <2>1. TaskInv(d)
    OBVIOUS
  <2>2. worker[d] = "none" => io[d] = NoIO
    BY <2>1 DEF TaskInv, Unborn, Idle, Threads
  <2>3. worker'[d] = worker[d] \/ (worker'[d] = "lost" /\ worker[d] # "none")
    BY <2>2 DEF Over
  <2>4. worker'[d] \in Over
    BY <2>3 DEF Over
  <2> QED
    BY <2>1, <2>3, <2>4 DEF TaskInv, Placed, Unborn, Idle, Over
<1> QED
  BY <1>2, <1>3 DEF StoreInv

\* The worker: it updates its own task, or moves on.
LEMMA Worked ==
  ASSUME IInv, NEW t \in Tasks, Work(t)
  PROVE  StoreInv'
<1> DEFINE o == object[t]
<1>a. worker[t] \notin Over /\ t \in Threads
  BY DEF Work, SetWorking, Progress, CallReturns, CallFails, Answer, LastCheck,
         Complete, Discard, Fail, Over, Threads
<1>b. /\ t \in stored /\ o \in Records /\ Whole(o) /\ At(worker[t], o)
      /\ o.state \in Active /\ ~o.result
  BY <1>a, AtWork
<1>c. o.state \notin Terminal /\ worker[t] # "none"
  BY <1>a, <1>b DEF Active, Terminal, Over
<1> HIDE DEF o
<1>1. CASE SetWorking(t)
  <2> DEFINE s == IF o.state = "canceling" THEN o.state ELSE "working"
             new == [o EXCEPT !.state = s]
  <2>1. s \in (Active \cup Terminal) \ {"completed"} /\ s \in Active
    BY DEF Active, Terminal
  <2>2. new \in Records /\ Whole(new) /\ new.state = s /\ new.chunks = o.chunks
    BY <1>b, <2>1, OtherState
  <2>3. o.chunks = 0
    BY <1>1, <1>b DEF SetWorking, At
  <2>4. At("progress", new)
    BY <2>1, <2>2, <2>3 DEF At, Over
  <2>5. Update(t, t, new) /\ worker' = [worker EXCEPT ![t] = "progress"]
        /\ UNCHANGED <<stored, events, disk>>
    BY <1>1 DEF SetWorking, Goto, o
  <2> HIDE DEF new
  <2> QED
    BY <1>a, <1>c, <2>2, <2>4, <2>5, Updated DEF Steps
<1>2. CASE Progress(t)
  <2>0. o.chunks = 0 /\ UNCHANGED <<stored, events, disk>>
    BY <1>2, <1>b DEF Progress, At
  <2>1. CASE t \in events
    <3>1. At("cancel", object[t])
      BY <1>b DEF At, Over, o
    <3> QED
      BY <1>2, <1>a, <2>1, <3>1, MovedOn DEF Progress, Goto, memory, Steps, Over
  <2>2. CASE t \notin events
    <3> DEFINE new == [o EXCEPT !.chunks = o.chunks + 1]
    <3>1. new \in Records /\ Whole(new) /\ new.state = o.state /\ new.chunks = o.chunks + 1
      BY <1>b, <2>0, OtherChunks
    <3>2. At("calling", new)
      BY <1>b, <2>0, <3>1 DEF At, Over
    <3>3. Update(t, t, new) /\ worker' = [worker EXCEPT ![t] = "calling"]
      BY <1>2, <2>2 DEF Progress, Goto, o
    <3> HIDE DEF new
    <3> QED
      BY <1>a, <1>c, <2>0, <3>1, <3>2, <3>3, Updated DEF Steps
  <2> QED
    BY <2>1, <2>2
<1>3. CASE CallReturns(t) \/ CallFails(t)
  <2>1. worker[t] = "calling" /\ UNCHANGED <<memory, disk, io>>
    BY <1>3 DEF CallReturns, CallFails
  <2>2. PICK step \in {"cancel", "answer", "fail"} : worker' = [worker EXCEPT ![t] = step]
    BY <1>3 DEF CallReturns, CallFails, Goto
  <2>3. At(step, object[t])
    BY <1>b, <2>1 DEF At, Over, o
  <2> QED
    BY <1>a, <2>1, <2>2, <2>3, MovedOn DEF Steps, Over
<1>4. CASE Answer(t)
  <2>0. o.chunks = 1 /\ UNCHANGED <<stored, events, disk>>
    BY <1>4, <1>b DEF Answer, At
  <2>1. CASE o.state = "canceling"
    <3>1. At("cancel", o)
      BY <1>b DEF At, Over
    <3>2. Update(t, t, o) /\ worker' = [worker EXCEPT ![t] = "cancel"]
      BY <1>4, <2>1 DEF Answer, Goto, o
    <3> QED
      BY <1>a, <1>b, <1>c, <2>0, <3>1, <3>2, Updated DEF Steps
  <2>2. CASE o.state # "canceling"
    <3> DEFINE new == [o EXCEPT !.chunks = o.chunks + 1]
    <3>1. new \in Records /\ Whole(new) /\ new.state = o.state /\ new.chunks = o.chunks + 1
      BY <1>b, <2>0, OtherChunks
    <3>2. At("checking", new)
      BY <1>b, <2>0, <3>1 DEF At, Over
    <3>3. Update(t, t, new) /\ worker' = [worker EXCEPT ![t] = "checking"]
      BY <1>4, <2>2 DEF Answer, Goto, o
    <3> HIDE DEF new
    <3> QED
      BY <1>a, <1>c, <2>0, <3>1, <3>2, <3>3, Updated DEF Steps
  <2> QED
    BY <2>1, <2>2
<1>5. CASE LastCheck(t)
  <2>1. worker[t] = "checking" /\ UNCHANGED <<memory, disk, io>>
    BY <1>5 DEF LastCheck
  <2>2. PICK step \in {"cancel", "complete"} : worker' = [worker EXCEPT ![t] = step]
    BY <1>5 DEF LastCheck, Goto
  <2>3. At(step, object[t])
    BY <1>b, <2>1 DEF At, Over, o
  <2> QED
    BY <1>a, <2>1, <2>2, <2>3, MovedOn DEF Steps, Over
<1>6. CASE Complete(t)
  <2> DEFINE new == [o EXCEPT !.state = "completed", !.result = TRUE]
  <2>1. o.chunks = 2
    BY <1>6, <1>b DEF Complete, At
  <2>2. new \in Records /\ Whole(new) /\ new.state = "completed"
    BY <1>b, <2>1, Answered
  <2>3. At("done", new)
    BY <2>2 DEF At, Over, Terminal
  <2>4. Update(t, t, new) /\ worker' = [worker EXCEPT ![t] = "done"]
        /\ UNCHANGED <<stored, events, disk>>
    BY <1>6, <1>c DEF Complete, Settle, Goto, o
  <2> HIDE DEF new
  <2> QED
    BY <1>a, <1>c, <2>2, <2>3, <2>4, Updated DEF Steps
<1>7. CASE Discard(t) \/ Fail(t)
  <2>1. PICK s \in {"canceled", "failed"} :
          /\ Update(t, t, [o EXCEPT !.state = s])
          /\ worker' = [worker EXCEPT ![t] = "done"] /\ UNCHANGED <<stored, events, disk>>
    BY <1>7, <1>c DEF Discard, Fail, Settle, Goto, o
  <2> DEFINE new == [o EXCEPT !.state = s]
  <2>2. new \in Records /\ Whole(new) /\ new.state = s
    BY <1>b, OtherState DEF Terminal
  <2>3. At("done", new)
    BY <2>2 DEF At, Over, Terminal
  <2>4. Update(t, t, new)
    BY <2>1
  <2> HIDE DEF new
  <2> QED
    BY <1>a, <1>c, <2>1, <2>2, <2>3, <2>4, Updated DEF Steps
<1> QED
  BY <1>1, <1>2, <1>3, <1>4, <1>5, <1>6, <1>7 DEF Work

\* A client marks what has not ended.
LEMMA Marked ==
  ASSUME IInv, NEW k \in Clients, MarkCanceling(k)
  PROVE  StoreInv'
<1> DEFINE t == client[k]
           o == object[t]
           new == IF o.state \in Terminal THEN o ELSE [o EXCEPT !.state = "canceling"]
<1>1. t \in stored /\ t \in Tasks /\ k \in Threads
  BY DEF IInv, TypeOK, MarkCanceling, Threads
<1>2. /\ Update(k, t, new) /\ worker' = [worker EXCEPT ![t] = worker[t]]
      /\ UNCHANGED <<stored, events, disk>>
  BY DEF IInv, TypeOK, MarkCanceling
<1>3. o \in Records /\ Whole(o) /\ At(worker[t], o) /\ worker[t] \in Steps \ {"none"}
  BY <1>1 DEF IInv, TypeOK, Snapshots, TaskInv, Placed, Unborn
<1> HIDE DEF t, o
<1>4. new \in Records /\ Whole(new) /\ At(worker[t], new)
  <2>1. CASE o.state \in Terminal
    BY <1>3, <2>1
  <2>2. CASE o.state \notin Terminal
    <3>1. ~o.result /\ o.state \in Active /\ worker[t] \notin Over
      BY <1>3, <2>2 DEF Whole, Terminal, At, Active
    <3>2. "canceling" \in (Active \cup Terminal) \ {"completed"}
      BY DEF Active
    <3>3. new \in Records /\ Whole(new) /\ new.state = "canceling" /\ new.chunks = o.chunks
      BY <1>3, <2>2, <3>1, <3>2, OtherState
    <3> QED
      BY <1>3, <3>1, <3>3 DEF At, Active
  <2> QED
    BY <2>1, <2>2
<1> HIDE DEF new
<1> QED
  BY <1>1, <1>2, <1>3, <1>4, Updated

\* Cancelling sets the event first, which no record shows.
LEMMA Requested ==
  ASSUME IInv, NEW k \in Clients, NEW t \in Tasks, RequestCancel(k, t)
  PROVE  StoreInv'
<1> USE DEF IInv, TypeOK, RequestCancel
<1>1. StoreTyped' /\ Snapshots'
  BY DEF StoreTyped, Snapshots
<1>2. ASSUME NEW d \in Tasks PROVE TaskInv(d)'
  BY DEF TaskInv, Placed, Unborn, Idle
<1> QED
  BY <1>1, <1>2 DEF StoreInv

LEMMA StorePreserved == IInv /\ [Next]_vars => StoreInv'
<1> SUFFICES ASSUME IInv, [Next]_vars PROVE StoreInv'
  OBVIOUS
<1>1. ASSUME NEW t \in Tasks, Submit(t) \/ Work(t) PROVE StoreInv'
  BY <1>1, Submitted, Worked
<1>2. ASSUME NEW t \in Tasks, Get(t) PROVE StoreInv'
  BY <1>2, Fetched DEF Get
<1>3. ASSUME NEW th \in Threads, Persist(th) PROVE StoreInv'
  BY <1>3, Persisted
<1>4. ASSUME NEW k \in Clients,
             (\E t \in Tasks : RequestCancel(k, t)) \/ MarkCanceling(k)
      PROVE  StoreInv'
  BY <1>4, Requested, Marked
<1>5. ASSUME NEW k \in Clients, CancelMisses(k) PROVE StoreInv'
  BY <1>5, StoreAlone DEF CancelMisses
<1>6. ASSUME NEW r \in Readers, NEW t \in Tasks, Subscribe(r, t) PROVE StoreInv'
  BY <1>6, Fetched DEF Subscribe
<1>7. ASSUME NEW r \in Readers, ReadChunks(r) PROVE StoreInv'
  <2>1. stream[r].task \in Tasks
    BY <1>7 DEF IInv, Received, Fits, ReadChunks
  <2> QED
    BY <1>7, <2>1, Fetched DEF ReadChunks
<1>8. ASSUME NEW r \in Readers, SendChunk(r) \/ ReadState(r) \/ StreamMisses(r) \/ Disconnect(r)
      PROVE  StoreInv'
  BY <1>8, StoreAlone DEF SendChunk, ReadState, SendStatus, StreamMisses, Disconnect
<1>9. ASSUME Crash PROVE StoreInv'
  BY <1>9, Crashed
<1>10. ASSUME Quiet \/ UNCHANGED vars PROVE StoreInv'
  BY <1>10, StoreAlone DEF Quiet, vars
<1> QED
  BY <1>1, <1>2, <1>3, <1>4, <1>5, <1>6, <1>7, <1>8, <1>9, <1>10 DEF Next, Push

-----------------------------------------------------------------------------
\* What TypeOK says of clients, streams and counters, and what readers have got.
StreamRecords == [pc : {"off", "top", "chunks", "over"}, task : Tasks \cup {Nobody},
                  sent : -1..1, todo : SUBSET (0..1),
                  last : Active \cup Terminal \cup {"none"},
                  found : Active \cup Terminal \cup {"none"}]

PeersTyped ==
  /\ client \in [Clients -> Tasks \cup {Nobody}]
  /\ stream \in [Readers -> StreamRecords]
  /\ got \in [Readers -> Seq(0..1)]
  /\ drops \in 0..MaxDrops /\ crashes \in 0..MaxCrashes

PeersInv == PeersTyped /\ \A r \in Readers : Received(r)

\* No task goes back to the time before it was submitted.
StillStarted == \A t \in Tasks : worker[t] # "none" => worker'[t] # "none"

LEMMA Started == IInv /\ [Next]_vars => StillStarted
<1> SUFFICES ASSUME IInv, [Next]_vars PROVE StillStarted
  OBVIOUS
<1> USE DEF StillStarted
<1>0. worker \in [Tasks -> Steps]
  BY DEF IInv, TypeOK
<1>1. ASSUME NEW t \in Tasks, Submit(t) \/ Work(t) PROVE StillStarted
  BY <1>0, <1>1 DEF Submit, Work, SetWorking, Progress, CallReturns, CallFails, Answer,
                    LastCheck, Complete, Discard, Fail, Goto
<1>2. ASSUME Crash PROVE StillStarted
  BY <1>0, <1>2 DEF Crash
<1>3. CASE UNCHANGED worker
  BY <1>3
<1> QED
  BY <1>1, <1>2, <1>3
     DEF Next, Get, Persist, OpenFile, WriteFile, WriteFails, RequestCancel, MarkCanceling,
         CancelMisses, Subscribe, Push, ReadChunks, SendChunk, ReadState, SendStatus,
         StreamMisses, Disconnect, Quiet, vars

\* A reader whose stream alone changes, into one that fits what it has.
LEMMA Streamed ==
  ASSUME IInv, StillStarted, NEW r \in Readers, NEW st \in StreamRecords,
         stream' = [stream EXCEPT ![r] = st], Fits(st, Len(got[r])),
         drops' \in 0..MaxDrops, UNCHANGED <<client, got, crashes>>
  PROVE  PeersInv'
<1> USE DEF IInv, TypeOK
<1>1. stream \in [Readers -> StreamRecords]
  BY DEF StreamRecords
<1>2. PeersTyped'
  BY <1>1 DEF PeersTyped
<1>3. ASSUME NEW x \in Readers PROVE Received(x)'
  <2>1. Fits(stream'[x], Len(got[x]))
    BY <1>1 DEF Received
  <2>2. Fits(stream[x], Len(got[x]))'
    BY <2>1 DEF Fits, StillStarted
  <2> QED
    BY <2>2 DEF Received
<1> QED
  BY <1>2, <1>3 DEF PeersInv

LEMMA PeersAlone ==
  ASSUME IInv, StillStarted, UNCHANGED readers,
         client' \in [Clients -> Tasks \cup {Nobody}], crashes' \in 0..MaxCrashes
  PROVE  PeersInv'
<1> USE DEF IInv, TypeOK, readers
<1>1. PeersTyped'
  BY DEF PeersTyped, StreamRecords
<1>2. ASSUME NEW x \in Readers PROVE Received(x)'
  BY DEF Received, Fits, StillStarted
<1> QED
  BY <1>1, <1>2 DEF PeersInv

\* The chunk a reader gets is the one after those it has.
LEMMA Sent ==
  ASSUME IInv, StillStarted, NEW r \in Readers, SendChunk(r)
  PROVE  PeersInv'
<1> DEFINE g == got[r]
           n == Len(got[r])
<1>0. /\ g \in Seq(0..1) /\ n \in 0..2 /\ \A i \in 1..n : g[i] = i - 1
      /\ stream \in [Readers -> StreamRecords] /\ stream[r].pc = "chunks"
      /\ stream[r].task \in Tasks /\ worker[stream[r].task] # "none"
  BY DEF IInv, TypeOK, StreamRecords, Received, Fits, SendChunk
<1>1. PICK b \in 0..2 : /\ stream[r].todo = n .. b - 1
                        /\ stream[r].found = "completed" => b = 2
  BY <1>0 DEF IInv, Received, Fits
<1>2. PICK i \in 0..1 :
        /\ Foremost(stream[r].todo, i)
        /\ stream' = [stream EXCEPT ![r].sent = i, ![r].todo = @ \ {i}]
        /\ got' = [got EXCEPT ![r] = Append(g, i)]
        /\ UNCHANGED <<client, drops, crashes>>
  BY DEF SendChunk
<1>3. i = n /\ n \in 0..1 /\ (n .. b - 1) \ {n} = (n + 1) .. b - 1
  <2>1. i \in n .. b - 1 /\ \A j \in n .. b - 1 : i <= j
    BY <1>1, <1>2 DEF Foremost
  <2>2. n \in 0..2 /\ b \in 0..2
    BY <1>0
  <2> HIDE DEF n
  <2> QED
    BY ONLY <2>1, <2>2
<1> DEFINE st == [stream[r] EXCEPT !.sent = i, !.todo = (n + 1) .. b - 1]
<1>4. /\ st \in StreamRecords /\ st.pc = "chunks" /\ st.task = stream[r].task
      /\ st.sent = n /\ st.todo = (n + 1) .. b - 1 /\ st.found = stream[r].found
  <2>1. (n + 1) .. b - 1 \in SUBSET (0..1) /\ n \in -1..1
    BY <1>3
  <2>2. stream[r] \in StreamRecords /\ stream[r].pc = "chunks"
    BY <1>0
  <2> DEFINE rest == (n + 1) .. b - 1
  <2> SUFFICES LET new == [stream[r] EXCEPT !.sent = n, !.todo = rest]
               IN  /\ new \in StreamRecords /\ new.pc = "chunks"
                   /\ new.task = stream[r].task /\ new.sent = n
                   /\ new.todo = rest /\ new.found = stream[r].found
    BY <1>0, <1>3
  <2>3. rest \in SUBSET (0..1)
    BY <2>1
  <2> HIDE DEF n, rest
  <2> QED
    BY ONLY <2>1, <2>2, <2>3 DEF StreamRecords
<1>5. stream' = [stream EXCEPT ![r] = st]
  BY <1>0, <1>1, <1>2, <1>3
<1>6. st.sent = (n + 1) - 1
  BY <1>0, <1>4
<1> HIDE DEF st, g
<1>7. Fits(st, n + 1)
  BY <1>0, <1>1, <1>4, <1>6 DEF Fits
<1>8. /\ Append(g, n) \in Seq(0..1) /\ Len(Append(g, n)) = n + 1 /\ n + 1 \in 0..2
      /\ \A j \in 1..n + 1 : Append(g, n)[j] = j - 1
  <2>1. n = Len(g)
    BY DEF g
  <2> QED
    BY ONLY <1>0, <1>3, <2>1
<1>9. got' = [got EXCEPT ![r] = Append(g, n)] /\ got \in [Readers -> Seq(0..1)]
  BY <1>2, <1>3 DEF IInv, TypeOK
<1>10. PeersTyped'
  <2>1. stream' \in [Readers -> StreamRecords]
    BY <1>0, <1>4, <1>5
  <2>2. got' \in [Readers -> Seq(0..1)]
    BY <1>8, <1>9
  <2> QED
    BY <1>2, <2>1, <2>2 DEF IInv, TypeOK, PeersTyped
<1>11. ASSUME NEW x \in Readers PROVE Received(x)'
  <2>1. CASE x = r
    <3>1. got'[x] = Append(g, n) /\ stream'[x] = st
      BY <1>0, <1>5, <1>9, <2>1
    <3>2. Fits(stream'[x], Len(got'[x]))
      BY <1>7, <1>8, <3>1
    <3>3. Fits(stream[x], Len(got[x]))'
      BY <3>2 DEF Fits, StillStarted
    <3> QED
      BY <1>8, <3>1, <3>3 DEF Received
  <2>2. CASE x # r
    <3>1. got'[x] = got[x] /\ stream'[x] = stream[x] /\ Received(x)
      BY <1>0, <1>5, <1>9, <2>2 DEF IInv
    <3> QED
      BY <3>1 DEF Received, Fits, StillStarted
  <2> QED
    BY <2>1, <2>2
<1> QED
  BY <1>10, <1>11 DEF PeersInv

\* What a reader finds is the record of a task, with its answer if completed.
LEMMA Found ==
  ASSUME IInv, NEW t \in Tasks, NEW rec \in Records, Fetch(t, rec)
  PROVE  /\ rec.state \in Active \cup Terminal /\ rec.chunks \in 0..2
         /\ rec.state = "completed" => rec.chunks = 2
<1>1. CASE t \in stored
  BY <1>1 DEF IInv, TypeOK, Fetch, TaskInv, Placed, At, Records, Snapshots, Whole
<1>2. CASE t \notin stored
  BY <1>2, Loaded DEF IInv, TypeOK, Snapshots, Fetch, Records, Whole
<1> QED
  BY <1>1, <1>2

\* The peer names the last chunk it has.
LEMMA Resumed ==
  ASSUME IInv, NEW r \in Readers
  PROVE  AfterChunkIndex(r) = Len(got[r]) - 1 /\ AfterChunkIndex(r) \in -1..1
<1> DEFINE g == got[r]
<1>1. g \in Seq(0..1) /\ Len(g) \in 0..2 /\ \A i \in 1..Len(g) : g[i] = i - 1
  BY DEF IInv, TypeOK, Received
<1>2. AfterChunkIndex(r) = IF g = <<>> THEN -1 ELSE g[Len(g)]
  BY DEF AfterChunkIndex
<1> HIDE DEF g
<1>3. AfterChunkIndex(r) = Len(g) - 1
  <2>1. CASE g = <<>>
    BY <1>2, <2>1
  <2>2. CASE g # <<>>
    <3>1. Len(g) \in 1..Len(g)
      BY <1>1, <2>2
    <3> QED
      BY <1>1, <1>2, <2>2, <3>1
  <2> QED
    BY <2>1, <2>2
<1> QED
  BY <1>1, <1>3 DEF g

LEMMA PeersPreserved == IInv /\ [Next]_vars => PeersInv'
<1> SUFFICES ASSUME IInv, [Next]_vars PROVE PeersInv'
  OBVIOUS
<1>s. StillStarted
  BY Started
<1> USE <1>s
<1>0. /\ TypeOK /\ stream \in [Readers -> StreamRecords]
      /\ drops \in 0..MaxDrops /\ crashes \in 0..MaxCrashes
      /\ \A r \in Readers : Received(r)
  BY DEF IInv, TypeOK, StreamRecords
<1>1. CASE UNCHANGED <<client, readers, crashes>>
  BY <1>0, <1>1, PeersAlone DEF TypeOK
<1>2. ASSUME NEW k \in Clients,
             (\E t \in Tasks : RequestCancel(k, t)) \/ MarkCanceling(k) \/ CancelMisses(k)
      PROVE  PeersInv'
  <2>1. client' \in [Clients -> Tasks \cup {Nobody}] /\ UNCHANGED <<readers, crashes>>
    BY <1>0, <1>2 DEF RequestCancel, MarkCanceling, CancelMisses, TypeOK
  <2> QED
    BY <1>0, <2>1, PeersAlone
<1>3. ASSUME NEW r \in Readers, NEW t \in Tasks, Subscribe(r, t) PROVE PeersInv'
  <2>1. PICK rec \in Records :
          /\ Fetch(t, rec)
          /\ stream' = [stream EXCEPT ![r] =
                          [NoStream EXCEPT !.pc = "top", !.task = t,
                                           !.sent = AfterChunkIndex(r),
                                           !.last = rec.state]]
    BY <1>3 DEF Subscribe
  <2> DEFINE st == [NoStream EXCEPT !.pc = "top", !.task = t,
                                    !.sent = AfterChunkIndex(r), !.last = rec.state]
  <2>a. NoStream \in StreamRecords /\ NoStream.found = "none"
    BY DEF NoStream, StreamRecords
  <2>b. rec.state \in Active \cup Terminal
    BY <2>1, Found
  <2>2. /\ st \in StreamRecords /\ st.task = t /\ st.pc = "top" /\ st.found = "none"
        /\ st.sent = Len(got[r]) - 1
    BY <2>a, <2>b, Resumed DEF StreamRecords
  <2>3. UNCHANGED <<client, got, drops, crashes>> /\ worker[t] # "none"
    BY <1>3 DEF Subscribe
  <2>4. stream' = [stream EXCEPT ![r] = st]
    BY <2>1
  <2> HIDE DEF st
  <2>5. Fits(st, Len(got[r]))
    BY <2>2, <2>3 DEF Fits
  <2> QED
    BY <1>0, <2>2, <2>3, <2>4, <2>5, Streamed
<1>4. ASSUME NEW r \in Readers, ReadChunks(r) PROVE PeersInv'
  <2> DEFINE n == Len(got[r])
  <2>0. /\ stream[r].task \in Tasks /\ worker[stream[r].task] # "none"
        /\ stream[r] \in StreamRecords /\ stream[r].sent = n - 1 /\ n \in 0..2
    BY <1>0, <1>4 DEF Received, Fits, ReadChunks
  <2>1. PICK rec \in Records :
          /\ Fetch(stream[r].task, rec)
          /\ stream' = [stream EXCEPT ![r].pc = "chunks",
                                      ![r].todo = ChunksAfter(rec, stream[r].sent),
                                      ![r].found = rec.state]
    BY <1>4 DEF ReadChunks
  <2>2. /\ rec.state \in Active \cup Terminal /\ rec.chunks \in 0..2
        /\ rec.state = "completed" => rec.chunks = 2
    BY <2>0, <2>1, Found
  <2> DEFINE list == n .. rec.chunks - 1
             st == [stream[r] EXCEPT !.pc = "chunks", !.todo = list, !.found = rec.state]
  <2>3. ChunksAfter(rec, stream[r].sent) = list
    <3>0. n \in 0..2 /\ rec.chunks \in 0..2
      BY <2>0, <2>2
    <3> HIDE DEF n
    <3>1. {i \in 0 .. rec.chunks - 1 : i > n - 1} = n .. rec.chunks - 1
      BY ONLY <3>0
    <3> QED
      BY <2>0, <3>1 DEF ChunksAfter
  <2>4. list \in SUBSET (0..1)
    BY <2>0, <2>2
  <2>5. stream' = [stream EXCEPT ![r] = st] /\ UNCHANGED <<client, got, drops, crashes>>
    BY <1>0, <1>4, <2>1, <2>3 DEF ReadChunks
  <2> HIDE DEF list, n
  <2>6. /\ st \in StreamRecords /\ st.pc = "chunks" /\ st.task = stream[r].task
        /\ st.sent = n - 1 /\ st.todo = list /\ st.found = rec.state
    BY <2>0, <2>2, <2>4 DEF StreamRecords
  <2> HIDE DEF st
  <2>7. Fits(st, n)
    BY <2>0, <2>2, <2>6 DEF Fits, list
  <2> QED
    BY <1>0, <2>5, <2>6, <2>7, Streamed DEF n
<1>5. ASSUME NEW r \in Readers, SendChunk(r) PROVE PeersInv'
  BY <1>5, Sent
<1>6. ASSUME NEW r \in Readers, ReadState(r) PROVE PeersInv'
  <2> DEFINE n == Len(got[r])
  <2>0. /\ stream[r].task \in Tasks /\ worker[stream[r].task] # "none"
        /\ stream[r] \in StreamRecords /\ stream[r].sent = n - 1 /\ n \in 0..2
        /\ stream[r].found = "completed" => n = 2
    <3>1. stream[r].pc = "chunks" /\ stream[r].todo = {}
      BY <1>6 DEF ReadState, SendStatus
    <3>2. n \in 0..2 /\ Fits(stream[r], n)
      BY <1>0 DEF Received
    <3>3. PICK b \in 0..2 : n .. b - 1 = {} /\ (stream[r].found = "completed" => b = 2)
      BY <3>1, <3>2 DEF Fits
    <3>4. b = 2 => n = 2
      <4>1. n \in 0..2 /\ b \in 0..2 /\ n .. b - 1 = {}
        BY <3>2, <3>3
      <4> HIDE DEF n
      <4> QED
        BY ONLY <4>1
    <3> QED
      BY <1>0, <3>1, <3>2, <3>3, <3>4 DEF Fits
  <2>1. PICK s \in {object[t].state : t \in {stream[r].task} \cap Tasks} :
          stream' = [stream EXCEPT ![r].pc = IF s \in Terminal THEN "over" ELSE "top",
                                   ![r].last = s,
                                   ![r].found = IF s \in Terminal THEN @ ELSE "none"]
    BY <1>6 DEF ReadState, SendStatus
  <2>2. s \in Active \cup Terminal
    BY <2>0, <2>1 DEF IInv, TaskInv, Placed
  <2> DEFINE pc == IF s \in Terminal THEN "over" ELSE "top"
             found == IF s \in Terminal THEN stream[r].found ELSE "none"
             st == [stream[r] EXCEPT !.pc = pc, !.last = s, !.found = found]
  <2>3. /\ st \in StreamRecords /\ st.task = stream[r].task /\ st.pc = pc
        /\ st.found = found /\ st.sent = n - 1
    BY <2>0, <2>2 DEF StreamRecords
  <2>4. UNCHANGED <<client, got, drops, crashes>> /\ stream' = [stream EXCEPT ![r] = st]
    BY <1>0, <1>6, <2>1 DEF ReadState, SendStatus
  <2> HIDE DEF st, n
  <2>5. Fits(st, n)
    BY <2>0, <2>3 DEF Fits
  <2> QED
    BY <1>0, <2>3, <2>4, <2>5, Streamed DEF n
<1>7. ASSUME NEW r \in Readers, StreamMisses(r) \/ Disconnect(r) PROVE PeersInv'
  <2>0. stream[r] \in StreamRecords /\ drops' \in 0..MaxDrops
    BY <1>0, <1>7, ConstantsAssumption DEF StreamMisses, Disconnect
  <2>1. PICK st \in {[stream[r] EXCEPT !.pc = "over"], Closed(stream[r])} :
          /\ stream' = [stream EXCEPT ![r] = st]
          /\ stream[r].pc = "top" \/ st = Closed(stream[r])
    BY <1>0, <1>7 DEF StreamMisses, Disconnect
  <2>2. st \in StreamRecords
    BY <2>0, <2>1 DEF StreamRecords, Closed, NoStream
  <2>3. st.pc \in {"over", "off"} /\ st.found # "completed"
    BY <1>0, <2>0, <2>1 DEF StreamRecords, Closed, NoStream, Received, Fits
  <2>4. Fits(st, Len(got[r]))
    BY <2>3 DEF Fits
  <2>5. UNCHANGED <<client, got, crashes>>
    BY <1>7 DEF StreamMisses, Disconnect
  <2> QED
    BY <2>0, <2>1, <2>2, <2>4, <2>5, Streamed
<1>8. ASSUME Crash PROVE PeersInv'
  <2>1. client' \in [Clients -> Tasks \cup {Nobody}] /\ crashes' \in 0..MaxCrashes
    BY <1>0, <1>8, ConstantsAssumption DEF Crash
  <2>2. \A r \in Readers : /\ Closed(stream[r]) \in StreamRecords
                            /\ Closed(stream[r]).pc = "off"
    BY <1>0 DEF StreamRecords, Closed, NoStream
  <2>3. /\ stream' \in [Readers -> StreamRecords] /\ UNCHANGED <<got, drops>>
        /\ \A r \in Readers : \/ stream'[r].pc = "off"
                               \/ /\ stream'[r] = stream[r]
                                  /\ stream[r].pc = "over"
    BY <1>0, <1>8, <2>2 DEF Crash
  <2>4. ASSUME NEW r \in Readers PROVE Received(r)'
    BY <1>0, <2>3 DEF Received, Fits
  <2> QED
    BY <1>0, <2>1, <2>3, <2>4 DEF PeersInv, PeersTyped, TypeOK
<1>9. ASSUME NEW t \in Tasks, Submit(t) \/ Work(t) \/ Get(t)
      PROVE  UNCHANGED <<client, readers, crashes>>
  BY <1>9 DEF Submit, Work, SetWorking, Progress, CallReturns, CallFails, Answer,
              LastCheck, Complete, Discard, Fail, Get
<1>10. ASSUME NEW th \in Threads, Persist(th) PROVE UNCHANGED <<client, readers, crashes>>
  BY <1>10 DEF Persist, OpenFile, WriteFile, WriteFails
<1>11. ASSUME Quiet \/ UNCHANGED vars PROVE UNCHANGED <<client, readers, crashes>>
  BY <1>11 DEF Quiet, vars
<1> QED
  BY <1>1, <1>2, <1>3, <1>4, <1>5, <1>6, <1>7, <1>8, <1>9, <1>10, <1>11 DEF Next, Push

LEMMA Preserved == IInv /\ [Next]_vars => IInv'
<1>1. StoreInv' /\ PeersInv' => IInv'
  BY DEF StoreInv, StoreTyped, PeersInv, PeersTyped, StreamRecords, IInv, TypeOK
<1> QED
  BY <1>1, StorePreserved, PeersPreserved

THEOREM Invariance == Spec => []IInv
  BY Initially, Preserved, PTL DEF Spec

-----------------------------------------------------------------------------
(***************************************************************************)
(* Type correctness of the store, the files, the threads and the streams.  *)
(***************************************************************************)
THEOREM TypeCorrect == Spec => []TypeOK
<1>1. IInv => TypeOK
  BY DEF IInv
<1> QED
  BY Invariance, <1>1, PTL

(***************************************************************************)
(* In memory and on disk a task is completed exactly when it carries its   *)
(* answer, whatever writes of the worker and of cancelling clients crossed.*)
(***************************************************************************)
THEOREM AnswersBelong == Spec => []AnswerIffCompleted
<1>1. IInv => AnswerIffCompleted
  BY DEF IInv, Snapshots, Whole, AnswerIffCompleted
<1> QED
  BY Invariance, <1>1, PTL

(***************************************************************************)
(* A stored task is active exactly as long as a worker is there to end it. *)
(***************************************************************************)
THEOREM ActiveAreWorked == Spec => []ActiveIffWorked
<1>1. IInv => ActiveIffWorked
  <2> SUFFICES ASSUME IInv, NEW t \in stored
               PROVE  object[t].state \in Active <=> worker[t] \notin Over
    BY DEF ActiveIffWorked
  <2>1. At(worker[t], object[t])
    BY DEF IInv, TypeOK, TaskInv, Placed
  <2> QED
    BY <2>1 DEF At, Active, Terminal
<1> QED
  BY Invariance, <1>1, PTL

(***************************************************************************)
(* A reader gets every chunk once and in order, over any number of         *)
(* disconnects, evictions and reloads, and has the whole answer when its   *)
(* stream ends on a task that it found completed.                          *)
(***************************************************************************)
THEOREM ChunksInOrder == Spec => []ChunksOnceInOrder
<1>1. IInv => ChunksOnceInOrder
  BY DEF IInv, Received, Fits, ChunksOnceInOrder
<1> QED
  BY Invariance, <1>1, PTL

-----------------------------------------------------------------------------
\* A cancellation that was requested before the call returned is seen by the
\* check after it, if not by an earlier one.
LEMMA EarlyCancelHeard ==
  ASSUME IInv, [Next]_vars, NEW t \in Tasks,
         worker[t] \in {"start", "progress", "calling"}, t \in events
  PROVE  worker'[t] \notin {"answer", "checking", "complete"}
<1>0. worker \in [Tasks -> Steps]
  BY DEF IInv, TypeOK
<1>1. ASSUME NEW d \in Tasks, Submit(d) \/ Work(d)
      PROVE  worker'[t] \notin {"answer", "checking", "complete"}
  <2>1. CASE d # t
    BY <1>0, <1>1, <2>1
       DEF Submit, Work, SetWorking, Progress, CallReturns, CallFails, Answer,
           LastCheck, Complete, Discard, Fail, Goto
  <2>2. CASE d = t
    BY <1>0, <1>1, <2>2
       DEF Submit, Work, SetWorking, Progress, CallReturns, CallFails, Answer,
           LastCheck, Complete, Discard, Fail, Goto
  <2> QED
    BY <2>1, <2>2
<1>2. ASSUME Crash PROVE worker'[t] \notin {"answer", "checking", "complete"}
  BY <1>0, <1>2 DEF Crash, Over
<1>3. ASSUME UNCHANGED worker PROVE worker'[t] \notin {"answer", "checking", "complete"}
  BY <1>3
<1> QED
  BY <1>1, <1>2, <1>3
     DEF Next, Get, Persist, OpenFile, WriteFile, WriteFails, RequestCancel, MarkCanceling,
         CancelMisses, Subscribe, Push, ReadChunks, SendChunk, ReadState, SendStatus,
         StreamMisses, Disconnect, Quiet, vars

\* Whoever updates a stored task that has ended writes what is there.
LEMMA VerdictKept ==
  ASSUME IInv, [Next]_vars, NEW t \in Tasks, t \in stored, object[t].state \in Terminal
  PROVE  object'[t] = object[t]
<1>0. object \in [Tasks -> Records] /\ client \in [Clients -> Tasks \cup {Nobody}]
  BY DEF IInv, TypeOK
<1>1. worker[t] \in Over /\ worker[t] # "none"
  <2>1. At(worker[t], object[t])
    BY DEF IInv, TaskInv, Placed
  <2> QED
    BY <2>1 DEF At, Active, Terminal, IInv, TaskInv, Unborn
<1>2. ASSUME NEW d \in Tasks, Submit(d) \/ Work(d) PROVE object'[t] = object[t]
  <2>1. d # t
    BY <1>1, <1>2 DEF Submit, Work, SetWorking, Progress, CallReturns, CallFails, Answer,
                      LastCheck, Complete, Discard, Fail, Over
  <2> QED
    BY <1>0, <1>2, <2>1
       DEF Submit, Work, SetWorking, Progress, CallReturns, CallFails, Answer,
           LastCheck, Complete, Discard, Fail, Settle, Update, memory
<1>3. ASSUME NEW d, NEW rec, Fetch(d, rec) PROVE object'[t] = object[t]
  BY <1>0, <1>3 DEF Fetch
<1>4. ASSUME NEW k \in Clients, MarkCanceling(k) PROVE object'[t] = object[t]
  <2>1. CASE client[k] = t
    BY <1>0, <1>4, <2>1 DEF MarkCanceling, Update
  <2>2. CASE client[k] # t
    BY <1>0, <1>4, <2>2 DEF MarkCanceling, Update
  <2> QED
    BY <2>1, <2>2
<1>5. ASSUME UNCHANGED object PROVE object'[t] = object[t]
  BY <1>5
<1> QED
  BY <1>2, <1>3, <1>4, <1>5
     DEF Next, Get, Persist, OpenFile, WriteFile, WriteFails, RequestCancel,
         CancelMisses, Subscribe, Push, ReadChunks, SendChunk, ReadState, SendStatus,
         StreamMisses, Disconnect, Crash, Quiet, vars, memory

(***************************************************************************)
(* A cancellation that comes before the upstream call has returned is      *)
(* heard, and the verdict on a task in memory is final.                    *)
(***************************************************************************)
THEOREM DecisionsHold == Spec => DecisionsStand
<1>1. IInv /\ [Next]_vars =>
        [\A t \in Tasks :
           worker[t] \in {"start", "progress", "calling"} /\ t \in events =>
             worker'[t] \notin {"answer", "checking", "complete"}]_vars
  BY EarlyCancelHeard
<1>2. IInv /\ [Next]_vars =>
        [\A t \in stored \cap stored' :
           object[t].state \in Terminal => object'[t] = object[t]]_vars
  <2>1. IInv => stored \subseteq Tasks
    BY DEF IInv, TypeOK
  <2> QED
    BY <2>1, VerdictKept
<1> QED
  BY Invariance, <1>1, <1>2, PTL DEF Spec, DecisionsStand, EarlyCancelWins, StoredVerdictStays
=============================================================================
