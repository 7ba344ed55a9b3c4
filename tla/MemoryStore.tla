----------------------------- MODULE MemoryStore -----------------------------
(***************************************************************************)
(* infra/data/memory.py: the long-term memories in one JSON file, written  *)
(* by the request threads of any number of processes under an advisory     *)
(* lock of the file system.  The id of a memory is a hash of its content   *)
(* and scope.                                                              *)
(***************************************************************************)
EXTENDS Integers, FiniteSets

CONSTANTS
  Writers,    \* threads of all processes
  Ids,        \* memory_fingerprint
  MaxItems,   \* MEMORY_MAX_ITEMS
  MaxWrites   \* bound on the operations of a behaviour

VARIABLES
  file,    \* the memories: [id, pinned, updatedAt]
  holder,  \* who holds memories.lock: a set of one writer at most
  copy,    \* copy[w]: what it will write
  intent,  \* intent[w]: [what, id, ids, pinned, at], the operation it is
           \* carrying out
  clock,   \* operations so far, the source of updatedAt
  ideal    \* history: the memories that all the writes one after the other leave

vars == <<file, holder, copy, intent, clock, ideal>>

Memory == [id : Ids, pinned : BOOLEAN, updatedAt : 1 .. MaxWrites]
None   == [what |-> "none"]

Init ==
  /\ file = {} /\ holder = {} /\ clock = 0 /\ ideal = {}
  /\ copy = [w \in Writers |-> {}] /\ intent = [w \in Writers |-> None]
----------------------------------------------------------------------------
\* The order of _load_memories_unlocked: pinned ones, then the latest.
Ahead(m, o) ==
  \/ m.pinned /\ ~o.pinned
  \/ m.pinned = o.pinned /\ m.updatedAt > o.updatedAt

First(n, S) == {m \in S : Cardinality({o \in S : Ahead(o, m)}) < n}

\* upsert_memory, of a new memory or of one that is there, which stays pinned.
\* A new one is put in front, and the last of the others makes room.
Upsert(i, S) ==
  LET kept == {m \in S : m.id \notin i.ids}
      old  == {m \in kept : m.id = i.id}
      new  == [id |-> i.id, updatedAt |-> i.at,
               pinned |-> i.pinned \/ \E m \in old : m.pinned]
  IN  IF old = {} THEN First(MaxItems - 1, kept) \union {new}
      ELSE (kept \ old) \union {new}

\* delete_memories_by_query (of what matches), delete_memory_by_id and, of
\* everything, clear_memories
Delete(i, S) == {m \in S : m.id \notin i.ids}

Result(i, S) == IF i.what = "upsert" THEN Upsert(i, S) ELSE Delete(i, S)

\* ids: what an upsert replaces (replaceIds), or what is deleted.
Intents ==
  [what : {"upsert"}, id : Ids, ids : SUBSET Ids, pinned : BOOLEAN, at : {clock + 1}]
  \union
  [what : {"delete"}, ids : SUBSET Ids]

\* Mutant of LockFree: the lock of the process only, and w is another one's.
LockOfProcess(w) == w \notin holder

\* memory_file_lock
LockFree(w) == holder = {}

\* The file is read under the lock, and the new content worked out.
Begin(w) ==
  /\ intent[w] = None /\ LockFree(w) /\ clock < MaxWrites
  /\ \E i \in Intents :
       /\ i.what = "delete" => \E m \in file : m.id \in i.ids
       /\ intent' = [intent EXCEPT ![w] = i]
       /\ copy' = [copy EXCEPT ![w] = Result(i, file)]
  /\ clock' = clock + 1 /\ holder' = holder \union {w}
  /\ UNCHANGED <<file, ideal>>

\* _save_memories_unlocked: the file is replaced in one go.
Save(w) ==
  /\ intent[w] # None
  /\ file' = copy[w] /\ ideal' = Result(intent[w], ideal)
  /\ copy' = [copy EXCEPT ![w] = {}] /\ intent' = [intent EXCEPT ![w] = None]
  /\ holder' = holder \ {w}
  /\ UNCHANGED clock

\* The process of w stops; the system releases its lock.
Crash(w) ==
  /\ intent[w] # None
  /\ copy' = [copy EXCEPT ![w] = {}] /\ intent' = [intent EXCEPT ![w] = None]
  /\ holder' = holder \ {w}
  /\ UNCHANGED <<file, clock, ideal>>

Next == \E w \in Writers : Begin(w) \/ Save(w) \/ Crash(w)

Spec == Init /\ [][Next]_vars
----------------------------------------------------------------------------
TypeOK ==
  /\ file \subseteq Memory /\ Cardinality(file) <= MaxItems
  /\ \A m, o \in file : m.id = o.id => m = o
  /\ holder = {w \in Writers : intent[w] # None}

(***************************************************************************)
(* What one process writes is never undone by another that had read the    *)
(* file before: the file is what the finished operations, one after the    *)
(* other, make of it.  A memory the user had forgotten does not return.    *)
(***************************************************************************)
NoLostUpdate == file = ideal

=============================================================================
