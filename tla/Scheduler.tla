----------------------------- MODULE Scheduler -----------------------------
(***************************************************************************)
(* infra/gateway/scheduler.py: RequestScheduler, the in-process admission  *)
(* controller in front of every upstream model call, with its token bucket *)
(* and its dead-letter table.                                              *)
(*                                                                         *)
(* A client is a thread inside lease().  Everything a thread does between  *)
(* two waits on the Condition happens with its lock held, so one iteration *)
(* of the loop of _admit is one step, and the first iteration is part of   *)
(* the step that takes the ticket.  cond.wait is bounded by 50 ms, so a    *)
(* waiting thread polls: notify_all only makes it poll sooner.             *)
(***************************************************************************)
EXTENDS Integers, FiniteSets, Sequences

CONSTANTS
  Clients,         \* threads that call lease()
  Cancellable,     \* those that pass a cancel_checker (the streaming calls)
  Priorities,      \* lower value = admitted first
  MaxConcurrency,  \* max_concurrency
  MaxQueueDepth,   \* max_queue_depth
  RateLimited,     \* rate_per_second > 0
  Burst,           \* TokenBucket.capacity, in whole tokens
  Timeouts,        \* acquire_timeout > 0
  DlqMaxRows,      \* SCHEDULER_DLQ_MAX_ROWS
  MaxRequests      \* bound on the requests of one behaviour

ASSUME ConstantsAssumption ==
  /\ IsFiniteSet(Clients)
  /\ Cancellable \subseteq Clients
  /\ Priorities \subseteq Nat /\ Priorities # {}
  /\ MaxConcurrency \in Nat \ {0}
  /\ MaxQueueDepth \in Nat \ {0}
  /\ Burst \in Nat \ {0}
  /\ RateLimited \in BOOLEAN /\ Timeouts \in BOOLEAN
  /\ DlqMaxRows \in Nat \ {0}
  /\ MaxRequests \in Nat

VARIABLES
  pc,         \* where each client is: see Places
  ticket,     \* ticket[c]: the ticket c took in _admit
  cancel,     \* clients whose cancel event is set
  expired,    \* waiting clients whose deadline has passed
  waiters,    \* _waiters: the heap of (priority, seq) tickets
  seq,        \* _seq: the next ticket number
  in_flight,  \* _in_flight
  waiting,    \* _waiting
  tokens,     \* TokenBucket.tokens, rounded down
  stats,      \* the cumulative counters shown by snapshot()
  dlq         \* reasons of the dead-letter rows, oldest first

vars == <<pc, ticket, cancel, expired, waiters, seq, in_flight, waiting,
          tokens, stats, dlq>>

\* The ticket of a client that has none; any value would do.
NoTicket == <<CHOOSE p \in Priorities : TRUE, 0>>

\* "shed" and "failed" are outside the lock, about to write a dead letter.
Places  == {"idle", "waiting", "held", "shed", "failed"}
Tickets == Priorities \X Nat
Reasons == {"backpressure_shed", "infra_failure"}

Queued  == {c \in Clients : pc[c] = "waiting"}
Holding == {c \in Clients : pc[c] = "held"}

Init ==
  /\ pc = [c \in Clients |-> "idle"]
  /\ ticket = [c \in Clients |-> NoTicket]
  /\ cancel = {} /\ expired = {}
  /\ waiters = {} /\ seq = 0
  /\ in_flight = 0 /\ waiting = 0
  /\ tokens = Burst
  /\ stats = [admitted |-> 0, shed |-> 0, timed_out |-> 0, cancelled |-> 0,
              peak |-> 0]
  /\ dlq = <<>>
----------------------------------------------------------------------------
\* Heap order: tuples compare by priority, then by sequence number.
Before(a, b) == a[1] < b[1] \/ (a[1] = b[1] /\ a[2] < b[2])

\* Mutant of AtHead: any waiter may take the slot.
AtHeadAnyone(t, W) == t \in W

\* t is at the front of the heap W.
AtHead(t, W) == \A u \in W \ {t} : Before(t, u)

\* TokenBucket.try_take would succeed.
TokenReady == RateLimited => tokens >= 1

Admissible(t, W) ==
  AtHead(t, W) /\ in_flight < MaxConcurrency /\ TokenReady

\* A client that ends its request starts the next one with a new event.
GoIdle(c) ==
  /\ pc' = [pc EXCEPT ![c] = "idle"]
  /\ ticket' = [ticket EXCEPT ![c] = NoTicket]
  /\ cancel' = cancel \ {c}
  /\ expired' = expired \ {c}

\* Mutants of Dequeue: the finally clause forgets the ticket, or the counter.
DequeueKeepsTicket(t, W, n) == waiters' = W /\ waiting' = n - 1
DequeueKeepsCount(t, W, n)  == waiters' = W \ {t} /\ waiting' = n

\* The finally clause of _admit: the ticket leaves the heap W of n waiters.
Dequeue(t, W, n) == waiters' = W \ {t} /\ waiting' = n - 1

\* One pass of the loop of _admit by c with ticket t, from heap W of n.
Cancelled(c, t, W, n) ==
  /\ c \in cancel
  /\ Dequeue(t, W, n)
  /\ stats' = [stats EXCEPT !.cancelled = @ + 1]
  /\ GoIdle(c)
  /\ UNCHANGED <<in_flight, tokens>>

Admitted(c, t, W, n) ==
  /\ c \notin cancel
  /\ Admissible(t, W)
  /\ waiters' = W \ {t} /\ waiting' = n - 1
  /\ in_flight' = in_flight + 1
  /\ tokens' = IF RateLimited THEN tokens - 1 ELSE tokens
  /\ stats' = [stats EXCEPT
                 !.admitted = @ + 1,
                 !.peak = IF @ < in_flight + 1 THEN in_flight + 1 ELSE @]
  /\ pc' = [pc EXCEPT ![c] = "held"]
  /\ ticket' = [ticket EXCEPT ![c] = t]
  /\ expired' = expired \ {c}
  /\ UNCHANGED cancel

\* Mutant of TimedOut: only a waiter with capacity in sight looks at the clock.
TimedOutAtHeadOnly(c, t, W, n) ==
  /\ c \notin cancel
  /\ ~Admissible(t, W)
  /\ AtHead(t, W) /\ in_flight < MaxConcurrency
  /\ c \in expired
  /\ Dequeue(t, W, n)
  /\ stats' = [stats EXCEPT !.timed_out = @ + 1]
  /\ GoIdle(c)
  /\ UNCHANGED <<in_flight, tokens>>

\* The deadline is only looked at after admission was tried once more.
TimedOut(c, t, W, n) ==
  /\ c \notin cancel
  /\ ~Admissible(t, W)
  /\ c \in expired
  /\ Dequeue(t, W, n)
  /\ stats' = [stats EXCEPT !.timed_out = @ + 1]
  /\ GoIdle(c)
  /\ UNCHANGED <<in_flight, tokens>>

Waits(c, t, W, n) ==
  /\ c \notin cancel
  /\ ~Admissible(t, W)
  /\ c \notin expired
  /\ waiters' = W /\ waiting' = n
  /\ pc' = [pc EXCEPT ![c] = "waiting"]
  /\ ticket' = [ticket EXCEPT ![c] = t]
  /\ UNCHANGED <<cancel, expired, in_flight, tokens, stats>>

Iteration(c, t, W, n) ==
  \/ Cancelled(c, t, W, n)
  \/ Admitted(c, t, W, n)
  \/ TimedOut(c, t, W, n)
  \/ Waits(c, t, W, n)
----------------------------------------------------------------------------
\* Every attempt counts against the bound, shed or not.
MayRequest(c) == pc[c] = "idle" /\ seq + stats.shed < MaxRequests

Full == waiting + in_flight >= MaxQueueDepth

Shed(c) ==
  /\ MayRequest(c)
  /\ Full
  /\ stats' = [stats EXCEPT !.shed = @ + 1]
  /\ pc' = [pc EXCEPT ![c] = "shed"]
  /\ UNCHANGED <<ticket, cancel, expired, waiters, seq, in_flight, waiting,
                 tokens, dlq>>

\* Take a ticket and run the first iteration without giving up the lock.
Enter(c, p) ==
  /\ MayRequest(c)
  /\ ~Full
  /\ seq' = seq + 1
  /\ Iteration(c, <<p, seq>>, waiters \cup {<<p, seq>>}, waiting + 1)
  /\ UNCHANGED dlq

\* cond.wait returned: one more iteration.
Poll(c) ==
  /\ pc[c] = "waiting"
  /\ Iteration(c, ticket[c], waiters, waiting)
  /\ UNCHANGED <<seq, dlq>>

\* The with block ends; _release frees the slot, then an infrastructure
\* failure of the block is remembered for the dead-letter table.
Release(c) ==
  /\ pc[c] = "held"
  /\ in_flight' = IF in_flight > 0 THEN in_flight - 1 ELSE in_flight
  /\ \/ GoIdle(c)
     \/ /\ pc' = [pc EXCEPT ![c] = "failed"]
        /\ ticket' = [ticket EXCEPT ![c] = NoTicket]
        /\ UNCHANGED <<cancel, expired>>
  /\ UNCHANGED <<waiters, seq, waiting, tokens, stats, dlq>>

\* INSERT, then delete all but the newest rows.
Trimmed(rows) ==
  IF Len(rows) > DlqMaxRows
  THEN SubSeq(rows, Len(rows) - DlqMaxRows + 1, Len(rows))
  ELSE rows

Reason(c) == IF pc[c] = "shed" THEN "backpressure_shed" ELSE "infra_failure"

\* Best effort: an sqlite error, or a disabled table, loses the letter.
RecordDeadLetter(c) ==
  /\ pc[c] \in {"shed", "failed"}
  /\ \/ dlq' = Trimmed(Append(dlq, Reason(c)))
     \/ UNCHANGED dlq
  /\ GoIdle(c)
  /\ UNCHANGED <<waiters, seq, in_flight, waiting, tokens, stats>>
----------------------------------------------------------------------------
\* The environment: users cancel, deadlines pass, the bucket refills.
UserCancels(c) ==
  /\ c \in Cancellable \ cancel
  /\ cancel' = cancel \cup {c}
  /\ UNCHANGED <<pc, ticket, expired, waiters, seq, in_flight, waiting,
                 tokens, stats, dlq>>

DeadlinePasses(c) ==
  /\ Timeouts
  /\ pc[c] = "waiting" /\ c \notin expired
  /\ expired' = expired \cup {c}
  /\ UNCHANGED <<pc, ticket, cancel, waiters, seq, in_flight, waiting,
                 tokens, stats, dlq>>

Refill ==
  /\ RateLimited
  /\ tokens < Burst
  /\ tokens' = tokens + 1
  /\ UNCHANGED <<pc, ticket, cancel, expired, waiters, seq, in_flight,
                 waiting, stats, dlq>>

\* All requests of the behaviour are over.
Quiet ==
  /\ seq + stats.shed = MaxRequests
  /\ \A c \in Clients : pc[c] = "idle"
  /\ UNCHANGED vars

Next ==
  \/ \E c \in Clients :
       \/ Shed(c)
       \/ \E p \in Priorities : Enter(c, p)
       \/ Poll(c)
       \/ Release(c)
       \/ RecordDeadLetter(c)
       \/ UserCancels(c)
       \/ DeadlinePasses(c)
  \/ Refill
  \/ Quiet

Spec == Init /\ [][Next]_vars

\* Waiting threads poll and time passes.  Nothing is assumed of the holders:
\* a streamed answer may go on for ever.
Fairness ==
  /\ \A c \in Clients : WF_vars(Poll(c)) /\ WF_vars(DeadlinePasses(c))
  /\ WF_vars(Refill)

FairSpec == Spec /\ Fairness
----------------------------------------------------------------------------
\* The state of the scheduler has the shape __init__ gives it.
TypeOK ==
  /\ pc \in [Clients -> Places]
  /\ ticket \in [Clients -> Tickets]
  /\ cancel \in SUBSET Clients /\ expired \in SUBSET Clients
  /\ waiters \in SUBSET Tickets /\ seq \in Nat
  /\ in_flight \in Nat /\ waiting \in Nat
  /\ tokens \in 0..Burst
  /\ stats \in [admitted : Nat, shed : Nat, timed_out : Nat,
                cancelled : Nat, peak : Nat]
  /\ dlq \in Seq(Reasons)

(***************************************************************************)
(* The counters are the truth: _in_flight and _waiting, which every        *)
(* decision of _admit is taken from, count the threads that really hold a  *)
(* slot and really wait, and the heap holds the tickets of the latter and  *)
(* of nobody else, whatever exits by timeout, cancellation, shedding and   *)
(* release happened before.                                                *)
(***************************************************************************)
Accounting ==
  /\ in_flight = Cardinality(Holding)
  /\ waiting = Cardinality(Queued)
  /\ waiters = {ticket[c] : c \in Queued}

(***************************************************************************)
(* The concurrency cap and the backpressure bound hold of the threads, not *)
(* only of the counters: at most MaxConcurrency hold a slot, and at most   *)
(* MaxQueueDepth hold one or wait for one.                                 *)
(***************************************************************************)
Bounded ==
  /\ Cardinality(Holding) <= MaxConcurrency
  /\ Cardinality(Holding) + Cardinality(Queued) <= MaxQueueDepth

(***************************************************************************)
(* snapshot() adds up: every ticket ever taken was admitted, timed out or  *)
(* cancelled exactly once or is still waiting, and the peak was reached    *)
(* within the cap.                                                         *)
(***************************************************************************)
TicketsAddUp ==
  /\ seq = stats.admitted + stats.timed_out + stats.cancelled + waiting
  /\ in_flight <= stats.peak /\ stats.peak <= MaxConcurrency
  /\ stats.peak <= stats.admitted

(***************************************************************************)
(* A dead letter is evidence of something that happened: no more letters   *)
(* of shed requests than requests were shed, no more of failed ones than   *)
(* requests were admitted, and never more rows than the table may hold.    *)
(***************************************************************************)
LettersOf(r) == SelectSeq(dlq, LAMBDA row : row = r)
DeadLettersHappened ==
  /\ Len(LettersOf("backpressure_shed")) <= stats.shed
  /\ Len(LettersOf("infra_failure")) <= stats.admitted
  /\ Len(dlq) <= DlqMaxRows

(***************************************************************************)
(* The scheduler implements the admission control its callers are promised *)
(* (cap, backpressure and order), through counters, a heap and polling.    *)
(***************************************************************************)
Place(c) == CASE pc[c] = "waiting" -> "queued"
              [] pc[c] = "held"    -> "holding"
              [] OTHER             -> "out"

AC == INSTANCE AdmissionControl
        WITH place <- [c \in Clients |-> Place(c)], rank <- ticket

ImplementsAdmissionControl == AC!Spec

(***************************************************************************)
(* With an acquire timeout nobody waits for ever, even if no holder ever   *)
(* finishes: the request is admitted, or fails with a timeout or a         *)
(* cancellation.                                                           *)
(***************************************************************************)
NobodyWaitsForEver ==
  \A c \in Clients : pc[c] = "waiting" ~> pc[c] # "waiting"

(***************************************************************************)
(* A free slot with a token is not left idle while somebody waits: an exit *)
(* never leaves behind a ticket that blocks the front of the heap.         *)
(***************************************************************************)
SlotLeftIdle == waiters # {} /\ in_flight < MaxConcurrency /\ TokenReady
SlotsAreFilled == []<>~SlotLeftIdle
============================================================================
