------------------------------ MODULE Reminders ------------------------------
(***************************************************************************)
(* infra/data/reminders.py: the reminders of the user in one JSON file.    *)
(* Every operation reads the whole file, changes its copy and writes it    *)
(* back, under _LOCK; the file is replaced in one go, so a crash leaves    *)
(* the old one or the new one.                                             *)
(***************************************************************************)
EXTENDS Integers, FiniteSets

CONSTANTS
  Threads,      \* requests at work
  MaxReminders, \* MAX_REMINDERS
  MaxCreated,   \* bound on the reminders of a behaviour
  MaxNow        \* bound on the clock, and on the due times

VARIABLES
  file,      \* the reminders: [id, dueAt, notified]
  now,
  owner,     \* who holds _LOCK: a set of one thread at most
  op,        \* op[t]: "idle", "create", "due", "delete", "answer"
  copy,      \* copy[t]: what it will write
  due,       \* due[t]: the reminders it returns
  created,   \* number of reminders so far
  announced, \* history: how often a browser was told of each
  settled    \* history: reminders marked, deleted, or cut off on purpose

vars == <<file, now, owner, op, copy, due, created, announced, settled>>

Id == 1 .. MaxCreated
Reminder == [id : Id, dueAt : 1 .. MaxNow, notified : BOOLEAN]
IdsOf(S) == {r.id : r \in S}

Init ==
  /\ file = {} /\ now = 0 /\ owner = {} /\ created = 0
  /\ op = [t \in Threads |-> "idle"]
  /\ copy = [t \in Threads |-> {}] /\ due = [t \in Threads |-> {}]
  /\ announced = [i \in Id |-> 0] /\ settled = {}
----------------------------------------------------------------------------
LockFree(t) == owner = {}

\* Every operation begins with the lock and a copy of the file.
Take(t, what) ==
  /\ op[t] = "idle" /\ LockFree(t)
  /\ owner' = owner \union {t}
  /\ op' = [op EXCEPT ![t] = what]

\* Sorted by due time, the later created after; the last MaxReminders stay.
\* The one that is cut off is the next that would have been due, which may be
\* the one that is being created.
Before(r, o) == r.dueAt < o.dueAt \/ (r.dueAt = o.dueAt /\ r.id < o.id)
Cut(S) == {r \in S : Cardinality({o \in S : Before(r, o)}) < MaxReminders}

\* create_reminder: reminders that were announced are swept out.
Create(t) ==
  /\ created < MaxCreated /\ Take(t, "create")
  /\ \E d \in 1 .. MaxNow :
       LET all == {r \in file : ~r.notified} \union
                    {[id |-> created + 1, dueAt |-> d, notified |-> FALSE]}
       IN  /\ copy' = [copy EXCEPT ![t] = Cut(all)]
           /\ settled' = settled \union (IdsOf(all) \ IdsOf(Cut(all)))
  /\ created' = created + 1
  /\ UNCHANGED <<file, now, due, announced>>

\* Mutant of Fires: what was announced is announced again.
FiresAlways(r) == r.dueAt <= now

Fires(r) == ~r.notified /\ r.dueAt <= now

\* due_reminders; nothing is written when nothing is due.
Due(t) ==
  /\ Take(t, "due") /\ \E r \in file : Fires(r)
  /\ copy' = [copy EXCEPT ![t] =
       {IF Fires(r) THEN [r EXCEPT !.notified = TRUE] ELSE r : r \in file}]
  /\ due' = [due EXCEPT ![t] = IdsOf({r \in file : Fires(r)})]
  /\ UNCHANGED <<file, now, created, announced, settled>>

\* delete_reminder
Delete(t) ==
  /\ Take(t, "delete")
  /\ \E r \in file : /\ copy' = [copy EXCEPT ![t] = file \ {r}]
                     /\ settled' = settled \union {r.id}
  /\ UNCHANGED <<file, now, due, created, announced>>

\* _write_reminders, and the end of the lock.
Write(t) ==
  /\ op[t] \in {"create", "due", "delete"}
  /\ file' = copy[t] /\ owner' = owner \ {t}
  /\ copy' = [copy EXCEPT ![t] = {}]
  /\ op' = [op EXCEPT ![t] = IF op[t] = "due" THEN "answer" ELSE "idle"]
  /\ settled' = settled \union due[t]
  /\ UNCHANGED <<now, due, created, announced>>

\* The browser that asked shows them, or is gone: they are not sent again.
Answer(t) ==
  /\ op[t] = "answer"
  /\ \/ announced' = [i \in Id |-> announced[i] + IF i \in due[t] THEN 1 ELSE 0]
     \/ UNCHANGED announced
  /\ op' = [op EXCEPT ![t] = "idle"] /\ due' = [due EXCEPT ![t] = {}]
  /\ UNCHANGED <<file, now, owner, copy, created, settled>>

\* The process stops and starts again; a creation under way never was.
Crash ==
  /\ \E t \in Threads : op[t] # "idle"
  /\ op' = [t \in Threads |-> "idle"] /\ owner' = {}
  /\ copy' = [t \in Threads |-> {}] /\ due' = [t \in Threads |-> {}]
  /\ settled' = settled \union {i \in 1 .. created : i \notin IdsOf(file)}
  /\ UNCHANGED <<file, now, created, announced>>

Tick ==
  /\ now < MaxNow /\ now' = now + 1
  /\ UNCHANGED <<file, owner, op, copy, due, created, announced, settled>>

Next ==
  \/ \E t \in Threads : Create(t) \/ Due(t) \/ Delete(t) \/ Write(t) \/ Answer(t)
  \/ Crash \/ Tick

Spec == Init /\ [][Next]_vars
----------------------------------------------------------------------------
TypeOK ==
  /\ file \subseteq Reminder /\ now \in 0 .. MaxNow
  /\ Cardinality(file) <= MaxReminders
  /\ owner = {t \in Threads : op[t] \in {"create", "due", "delete"}}
  /\ \A r, o \in file : r.id = o.id => r = o

(***************************************************************************)
(* Whatever browsers poll, create and delete at the same time, and whether *)
(* the process goes down in between: nobody is told of a reminder twice,   *)
(* and one that was created waits in the file until it is marked as        *)
(* announced, deleted, or cut off because MAX_REMINDERS others are due     *)
(* later.  No operation undoes what another one has written.               *)
(***************************************************************************)
AnnouncedOnceNeverLost ==
  /\ \A i \in Id : announced[i] <= 1
  /\ \A i \in 1 .. created :
       \/ \E r \in file : r.id = i
       \/ i \in settled
       \/ \E t \in Threads : op[t] = "create" /\ i \in IdsOf(copy[t])
============================================================================
