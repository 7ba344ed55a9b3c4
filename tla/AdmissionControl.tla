------------------------- MODULE AdmissionControl -------------------------
(***************************************************************************)
(* What the request scheduler of the gateway promises its callers, without *)
(* counters, heaps, locks or polling: at most MaxConcurrency clients hold  *)
(* a slot, at most MaxQueueDepth clients hold one or wait for one, and a   *)
(* slot goes to the waiting client that nobody precedes.                   *)
(***************************************************************************)
EXTENDS Integers, FiniteSets

CONSTANTS Clients, Priorities, MaxConcurrency, MaxQueueDepth

VARIABLES
  place,   \* place[c]: outside, in the queue, or holding a slot
  rank     \* rank[c] = <<priority, arrival>> while c is inside

vars == <<place, rank>>

Queued  == {c \in Clients : place[c] = "queued"}
Holding == {c \in Clients : place[c] = "holding"}

\* Lower priority value first; first come first served within a priority.
Before(a, b) == a[1] < b[1] \/ (a[1] = b[1] /\ a[2] < b[2])

Init ==
  /\ place = [c \in Clients |-> "out"]
  /\ rank \in [Clients -> Priorities \X Nat]

\* c arrives later than everybody in the queue.
Arrives(c) ==
  /\ place[c] = "out"
  /\ Cardinality(Queued) + Cardinality(Holding) < MaxQueueDepth
  /\ rank'[c] \in Priorities \X Nat
  /\ \A d \in Queued : rank[d][2] < rank'[c][2]
  /\ rank' = [rank EXCEPT ![c] = rank'[c]]

\* The slot rule, for c ranked r.
MayHold(c, r) ==
  /\ Cardinality(Holding) < MaxConcurrency
  /\ \A d \in Queued \ {c} : Before(r, rank[d])

Enqueue(c) == Arrives(c) /\ place' = [place EXCEPT ![c] = "queued"]

\* An arrival that finds a free slot and nobody ahead never waits.
EnterAtOnce(c) ==
  /\ Arrives(c)
  /\ MayHold(c, rank'[c])
  /\ place' = [place EXCEPT ![c] = "holding"]

Admit(c) ==
  /\ place[c] = "queued"
  /\ MayHold(c, rank[c])
  /\ place' = [place EXCEPT ![c] = "holding"]
  /\ UNCHANGED rank

\* A timeout or a cancellation while waiting, or the end of a lease.
Leave(c) ==
  /\ place[c] # "out"
  /\ place' = [place EXCEPT ![c] = "out"]
  /\ \A d \in Clients \ {c} : rank'[d] = rank[d]

Next ==
  \E c \in Clients : Enqueue(c) \/ EnterAtOnce(c) \/ Admit(c) \/ Leave(c)

Spec == Init /\ [][Next]_vars
============================================================================
