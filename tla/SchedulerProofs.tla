-------------------------- MODULE SchedulerProofs --------------------------
(***************************************************************************)
(* Safety of the request scheduler for every number of clients, every cap, *)
(* depth, bucket and table size: type correctness, the accounting of slots *)
(* and tickets, the two bounds, and the refinement of AdmissionControl.    *)
(***************************************************************************)
EXTENDS Scheduler, FiniteSetTheorems, TLAPS

(***************************************************************************)
(* The inductive invariant.  Bounded speaks of threads and the guards of   *)
(* counters, so the two are tied by Accounting; removing one ticket from   *)
(* the heap takes one client out of it only if no two waiting clients have *)
(* the same number, hence TicketsDistinct.                                 *)
(***************************************************************************)
TicketsDistinct ==
  /\ \A c \in Queued : ticket[c][2] < seq
  /\ \A c, d \in Queued : ticket[c][2] = ticket[d][2] => c = d
  /\ \A c \in Clients : pc[c] \notin {"waiting", "held"} => ticket[c] = NoTicket

CountersBounded ==
  in_flight <= MaxConcurrency /\ waiting + in_flight <= MaxQueueDepth

IInv == TypeOK /\ Accounting /\ TicketsDistinct /\ CountersBounded /\ TicketsAddUp

----------------------------------------------------------------------------
LEMMA NoTicketType == NoTicket \in Tickets
  BY ConstantsAssumption DEF NoTicket, Tickets

LEMMA TrimmedType ==
  ASSUME NEW rows \in Seq(Reasons)
  PROVE  Trimmed(rows) \in Seq(Reasons)
  BY ConstantsAssumption DEF Trimmed

LEMMA StatsType ==
  ASSUME NEW s \in [admitted : Nat, shed : Nat, timed_out : Nat,
                    cancelled : Nat, peak : Nat],
         NEW a \in Nat, NEW p \in Nat
  PROVE  LET u == [s EXCEPT !.admitted = a, !.peak = p]
         IN  /\ u \in [admitted : Nat, shed : Nat, timed_out : Nat,
                       cancelled : Nat, peak : Nat]
             /\ u.admitted = a /\ u.peak = p /\ u.shed = s.shed
             /\ u.timed_out = s.timed_out /\ u.cancelled = s.cancelled
  OBVIOUS

\* One counter goes up.
LEMMA BumpType ==
  ASSUME NEW s \in [admitted : Nat, shed : Nat, timed_out : Nat,
                    cancelled : Nat, peak : Nat]
  PROVE  /\ [s EXCEPT !.shed = @ + 1] \in
              [admitted : Nat, shed : Nat, timed_out : Nat, cancelled : Nat, peak : Nat]
         /\ [s EXCEPT !.timed_out = @ + 1] \in
              [admitted : Nat, shed : Nat, timed_out : Nat, cancelled : Nat, peak : Nat]
         /\ [s EXCEPT !.cancelled = @ + 1] \in
              [admitted : Nat, shed : Nat, timed_out : Nat, cancelled : Nat, peak : Nat]
<1>1. [s EXCEPT !.shed = @ + 1] \in
        [admitted : Nat, shed : Nat, timed_out : Nat, cancelled : Nat, peak : Nat]
  OBVIOUS
<1>2. [s EXCEPT !.timed_out = @ + 1] \in
        [admitted : Nat, shed : Nat, timed_out : Nat, cancelled : Nat, peak : Nat]
  OBVIOUS
<1>3. [s EXCEPT !.cancelled = @ + 1] \in
        [admitted : Nat, shed : Nat, timed_out : Nat, cancelled : Nat, peak : Nat]
  OBVIOUS
<1> QED BY <1>1, <1>2, <1>3

\* The places of the clients, as sets: what a move of one client does.
LEMMA MoveClient ==
  ASSUME TypeOK, NEW c \in Clients, NEW to \in Places,
         pc' = [pc EXCEPT ![c] = to]
  PROVE  /\ pc' \in [Clients -> Places]
         /\ Queued' = IF to = "waiting" THEN Queued \cup {c} ELSE Queued \ {c}
         /\ Holding' = IF to = "held" THEN Holding \cup {c} ELSE Holding \ {c}
  BY DEF TypeOK, Queued, Holding, Places

LEMMA Finite == IsFiniteSet(Queued) /\ IsFiniteSet(Holding)
  BY ConstantsAssumption, FS_Subset DEF Queued, Holding

LEMMA Counting ==
  ASSUME NEW c \in Clients
  PROVE  /\ Cardinality(Queued) \in Nat /\ Cardinality(Holding) \in Nat
         /\ Cardinality(Queued \ {c}) \in Nat
         /\ Cardinality(Queued \cup {c}) =
              IF c \in Queued THEN Cardinality(Queued) ELSE Cardinality(Queued) + 1
         /\ Cardinality(Queued \ {c}) =
              IF c \in Queued THEN Cardinality(Queued) - 1 ELSE Cardinality(Queued)
         /\ Cardinality(Holding \cup {c}) =
              IF c \in Holding THEN Cardinality(Holding) ELSE Cardinality(Holding) + 1
         /\ Cardinality(Holding \ {c}) =
              IF c \in Holding THEN Cardinality(Holding) - 1 ELSE Cardinality(Holding)
<1>1. IsFiniteSet(Queued \ {c})
  BY Finite, FS_RemoveElement
<1> QED
  BY <1>1, Finite, FS_CardinalityType, FS_AddElement, FS_RemoveElement
----------------------------------------------------------------------------
LEMMA TypeInit == Init => TypeOK
  BY ConstantsAssumption, NoTicketType DEF Init, TypeOK, Places, Reasons

\* An iteration keeps the types, from any well-typed heap and ticket.
LEMMA IterationType ==
  ASSUME TypeOK, NEW c \in Clients, NEW t \in Tickets, NEW W \in SUBSET Tickets,
         NEW n \in Nat \ {0}, Iteration(c, t, W, n)
  PROVE  /\ pc' \in [Clients -> Places]
         /\ ticket' \in [Clients -> Tickets]
         /\ cancel' \in SUBSET Clients /\ expired' \in SUBSET Clients
         /\ waiters' \in SUBSET Tickets
         /\ in_flight' \in Nat /\ waiting' \in Nat
         /\ tokens' \in 0..Burst
         /\ stats' \in [admitted : Nat, shed : Nat, timed_out : Nat,
                        cancelled : Nat, peak : Nat]
<1> USE NoTicketType DEF TypeOK, Places
<1>1. CASE Cancelled(c, t, W, n)
  <2>1. stats' \in [admitted : Nat, shed : Nat, timed_out : Nat,
                    cancelled : Nat, peak : Nat]
    <3>1. stats' = [stats EXCEPT !.cancelled = @ + 1]
      BY <1>1 DEF Cancelled
    <3> QED BY <3>1, BumpType
  <2>2. /\ pc' = [pc EXCEPT ![c] = "idle"] /\ ticket' = [ticket EXCEPT ![c] = NoTicket]
        /\ cancel' = cancel \ {c} /\ expired' = expired \ {c}
        /\ waiters' = W \ {t} /\ waiting' = n - 1
        /\ in_flight' = in_flight /\ tokens' = tokens
    BY <1>1 DEF Cancelled, Dequeue, GoIdle
  <2> HIDE <1>1
  <2> QED BY <2>1, <2>2
<1>2. CASE Admitted(c, t, W, n)
  <2>1. tokens' \in 0..Burst
    <3>1. /\ tokens' = IF RateLimited THEN tokens - 1 ELSE tokens
          /\ RateLimited => tokens >= 1
      BY <1>2 DEF Admitted, Admissible, TokenReady
    <3> QED BY <3>1, ConstantsAssumption
  <2>2. stats' \in [admitted : Nat, shed : Nat, timed_out : Nat,
                   cancelled : Nat, peak : Nat]
    <3> DEFINE top == IF stats.peak < in_flight + 1 THEN in_flight + 1 ELSE stats.peak
    <3>1. top \in Nat
      OBVIOUS
    <3>2. stats' = [stats EXCEPT !.admitted = stats.admitted + 1, !.peak = top]
      BY <1>2 DEF Admitted
    <3>3. stats.admitted + 1 \in Nat
      OBVIOUS
    <3> HIDE DEF top
    <3> QED BY <3>1, <3>2, <3>3, StatsType
  <2>3. /\ pc' = [pc EXCEPT ![c] = "held"] /\ ticket' = [ticket EXCEPT ![c] = t]
        /\ waiters' = W \ {t} /\ waiting' = n - 1 /\ in_flight' = in_flight + 1
        /\ expired' = expired \ {c} /\ cancel' = cancel
    BY <1>2 DEF Admitted
  <2> QED BY <2>1, <2>2, <2>3
<1>3. CASE TimedOut(c, t, W, n)
  <2>1. stats' \in [admitted : Nat, shed : Nat, timed_out : Nat,
                    cancelled : Nat, peak : Nat]
    <3>1. stats' = [stats EXCEPT !.timed_out = @ + 1]
      BY <1>3 DEF TimedOut
    <3> QED BY <3>1, BumpType
  <2>2. /\ pc' = [pc EXCEPT ![c] = "idle"] /\ ticket' = [ticket EXCEPT ![c] = NoTicket]
        /\ cancel' = cancel \ {c} /\ expired' = expired \ {c}
        /\ waiters' = W \ {t} /\ waiting' = n - 1
        /\ in_flight' = in_flight /\ tokens' = tokens
    BY <1>3 DEF TimedOut, Dequeue, GoIdle
  <2> HIDE <1>3
  <2> QED BY <2>1, <2>2
<1>4. CASE Waits(c, t, W, n)
  BY <1>4 DEF Waits
<1> QED BY <1>1, <1>2, <1>3, <1>4 DEF Iteration

LEMMA TypeStep == TypeOK /\ (Accounting /\ [Next]_vars) => TypeOK'
<1> SUFFICES ASSUME TypeOK, Accounting, [Next]_vars PROVE TypeOK'
  OBVIOUS
<1>1. ASSUME NEW c \in Clients, Shed(c) PROVE TypeOK'
  <2>1. stats' \in [admitted : Nat, shed : Nat, timed_out : Nat,
                    cancelled : Nat, peak : Nat]
    <3>1. stats' = [stats EXCEPT !.shed = @ + 1]
      BY <1>1 DEF Shed
    <3> QED BY <3>1, BumpType DEF TypeOK
  <2>2. pc' = [pc EXCEPT ![c] = "shed"]
        /\ UNCHANGED <<ticket, cancel, expired, waiters, seq, in_flight, waiting, tokens, dlq>>
    BY <1>1 DEF Shed
  <2> QED BY <2>1, <2>2 DEF TypeOK, Places
<1>2. ASSUME NEW c \in Clients, NEW p \in Priorities, Enter(c, p) PROVE TypeOK'
  <2>1. /\ <<p, seq>> \in Tickets
        /\ waiters \cup {<<p, seq>>} \in SUBSET Tickets
        /\ waiting + 1 \in Nat \ {0}
    BY DEF TypeOK, Tickets
  <2>2. Iteration(c, <<p, seq>>, waiters \cup {<<p, seq>>}, waiting + 1)
    BY <1>2 DEF Enter
  <2>3. seq' \in Nat /\ dlq' \in Seq(Reasons)
    BY <1>2 DEF Enter, TypeOK
  <2> HIDE DEF TypeOK
  <2> QED BY <2>1, <2>2, <2>3, IterationType DEF TypeOK
<1>3. ASSUME NEW c \in Clients, Poll(c) PROVE TypeOK'
  <2>1. c \in Queued
    BY <1>3 DEF Poll, Queued
  <2>2. waiting \in Nat \ {0}
    BY <2>1, Counting, Finite, FS_EmptySet DEF Accounting, TypeOK
  <2>3. ticket[c] \in Tickets /\ waiters \in SUBSET Tickets
    BY DEF TypeOK
  <2>4. Iteration(c, ticket[c], waiters, waiting)
    BY <1>3 DEF Poll
  <2>5. seq' \in Nat /\ dlq' \in Seq(Reasons)
    BY <1>3 DEF Poll, TypeOK
  <2> QED BY <2>2, <2>3, <2>4, <2>5, IterationType DEF TypeOK
<1>4. ASSUME NEW c \in Clients, Release(c) PROVE TypeOK'
  BY <1>4, NoTicketType DEF TypeOK, Release, GoIdle, Places
<1>5. ASSUME NEW c \in Clients, RecordDeadLetter(c) PROVE TypeOK'
  <2>1. dlq' \in Seq(Reasons)
    <3>1. Append(dlq, Reason(c)) \in Seq(Reasons)
      BY DEF TypeOK, Reason, Reasons
    <3> QED BY <1>5, <3>1, TrimmedType DEF RecordDeadLetter, TypeOK
  <2> QED BY <1>5, <2>1, NoTicketType DEF TypeOK, RecordDeadLetter, GoIdle, Places
<1>6. ASSUME NEW c \in Clients, UserCancels(c) PROVE TypeOK'
  BY <1>6 DEF TypeOK, UserCancels
<1>7. ASSUME NEW c \in Clients, DeadlinePasses(c) PROVE TypeOK'
  BY <1>7 DEF TypeOK, DeadlinePasses
<1>8. CASE Refill
  BY <1>8, ConstantsAssumption DEF TypeOK, Refill
<1>9. CASE Quiet \/ UNCHANGED vars
  BY <1>9 DEF TypeOK, Quiet, vars
<1> QED
  BY <1>1, <1>2, <1>3, <1>4, <1>5, <1>6, <1>7, <1>8, <1>9 DEF Next
----------------------------------------------------------------------------
\* The waiting clients other than c, and the heap without c's ticket.
Others(c)  == Queued \ {c}
OtherTickets(c) == {ticket[d] : d \in Others(c)}

\* What Enter and Poll establish before the first line of the loop runs.
LoopEntry(c, t, W, n) ==
  /\ pc[c] \in {"idle", "waiting"}
  /\ W = OtherTickets(c) \cup {t}
  /\ n = Cardinality(Others(c)) + 1
  /\ \A d \in Others(c) : ticket[d][2] # t[2]
  /\ t[2] < seq' /\ seq <= seq' /\ seq' \in Nat
  /\ n + in_flight <= MaxQueueDepth
  /\ seq' = stats.admitted + stats.timed_out + stats.cancelled + n

\* The rest of the invariant, which an iteration re-establishes.
Rest == Accounting /\ TicketsDistinct /\ CountersBounded /\ TicketsAddUp

\* Leaving the heap, whatever the place c goes to.
LEMMA LeaveHeap ==
  ASSUME IInv, NEW c \in Clients, NEW t \in Tickets, NEW W, NEW n,
         LoopEntry(c, t, W, n), NEW to \in Places \ {"waiting"},
         pc' = [pc EXCEPT ![c] = to], waiters' = W \ {t}, waiting' = n - 1,
         NEW nt \in Tickets, ticket' = [ticket EXCEPT ![c] = nt],
         to # "held" => nt = NoTicket
  PROVE  /\ waiting' = Cardinality(Queued')
         /\ waiters' = {ticket'[d] : d \in Queued'}
         /\ TicketsDistinct'
<1>1. Queued' = Others(c)
  BY MoveClient DEF IInv, Others
<1>2. \A d \in Others(c) : ticket'[d] = ticket[d]
  BY DEF IInv, TypeOK, Others, Queued
<1>3. waiting' = Cardinality(Queued')
  <2>1. n = Cardinality(Queued') + 1
    BY <1>1 DEF LoopEntry
  <2>2. Cardinality(Queued') \in Nat
    BY <1>1, Counting DEF Others
  <2> QED BY <2>1, <2>2
<1>4. waiters' = {ticket'[d] : d \in Queued'}
  <2>1. t \notin OtherTickets(c)
    BY DEF LoopEntry, OtherTickets
  <2> QED BY <1>1, <1>2, <2>1 DEF LoopEntry, OtherTickets
<1>5. TicketsDistinct'
  <2>1. \A d \in Queued' : ticket'[d][2] < seq'
    <3> SUFFICES ASSUME NEW d \in Queued' PROVE ticket'[d][2] < seq'
      OBVIOUS
    <3>1. d \in Queued /\ ticket'[d] = ticket[d] /\ ticket[d][2] < seq
      BY <1>1, <1>2 DEF Others, IInv, TicketsDistinct
    <3>2. ticket[d][2] \in Nat /\ seq \in Nat
      BY <3>1 DEF IInv, TypeOK, Queued, Tickets
    <3>3. seq <= seq' /\ seq' \in Nat
      BY DEF LoopEntry
    <3> QED BY <3>1, <3>2, <3>3
  <2>2. \A d, e \in Queued' : ticket'[d][2] = ticket'[e][2] => d = e
    BY <1>1, <1>2 DEF Others, IInv, TicketsDistinct
  <2>3. \A d \in Clients : pc'[d] \notin {"waiting", "held"} => ticket'[d] = NoTicket
    BY DEF IInv, TypeOK, TicketsDistinct
  <2> QED BY <2>1, <2>2, <2>3 DEF TicketsDistinct
<1> QED BY <1>3, <1>4, <1>5

LEMMA GiveUp ==
  ASSUME IInv, NEW c \in Clients, NEW t \in Tickets, NEW W, NEW n \in Nat,
         LoopEntry(c, t, W, n), Cancelled(c, t, W, n) \/ TimedOut(c, t, W, n)
  PROVE  Rest'
<1>1. /\ pc' = [pc EXCEPT ![c] = "idle"] /\ waiters' = W \ {t} /\ waiting' = n - 1
      /\ ticket' = [ticket EXCEPT ![c] = NoTicket] /\ in_flight' = in_flight
  BY DEF Cancelled, TimedOut, Dequeue, GoIdle
<1>2. /\ waiting' = Cardinality(Queued')
      /\ waiters' = {ticket'[d] : d \in Queued'}
      /\ TicketsDistinct'
  BY <1>1, LeaveHeap, NoTicketType DEF Places
<1>3. Holding' = Holding
  BY <1>1, MoveClient DEF IInv, LoopEntry, Holding, Places
<1>4. CountersBounded'
  <2>1. in_flight <= MaxConcurrency /\ in_flight \in Nat
    BY DEF IInv, CountersBounded, TypeOK
  <2>2. n + in_flight <= MaxQueueDepth /\ MaxQueueDepth \in Nat
    BY ConstantsAssumption DEF LoopEntry
  <2> QED BY <1>1, <2>1, <2>2 DEF CountersBounded
<1>5. stats' \in [admitted : Nat, shed : Nat, timed_out : Nat, cancelled : Nat, peak : Nat]
      /\ stats'.admitted = stats.admitted /\ stats'.peak = stats.peak
      /\ stats'.timed_out + stats'.cancelled = stats.timed_out + stats.cancelled + 1
  <2>1. stats \in [admitted : Nat, shed : Nat, timed_out : Nat, cancelled : Nat, peak : Nat]
    BY DEF IInv, TypeOK
  <2>2. \/ stats' = [stats EXCEPT !.cancelled = @ + 1]
        \/ stats' = [stats EXCEPT !.timed_out = @ + 1]
    BY DEF Cancelled, TimedOut
  <2> QED BY <2>1, <2>2
<1>6. TicketsAddUp'
  <2>1. /\ stats.timed_out \in Nat /\ stats.cancelled \in Nat /\ stats.admitted \in Nat
        /\ stats'.timed_out \in Nat /\ stats'.cancelled \in Nat
    BY <1>5 DEF IInv, TypeOK
  <2>2. in_flight <= stats.peak /\ stats.peak <= MaxConcurrency
        /\ stats.peak <= stats.admitted
    BY DEF IInv, TicketsAddUp
  <2>3. seq' = stats.admitted + stats.timed_out + stats.cancelled + n
    BY DEF LoopEntry
  <2> QED BY <1>1, <1>5, <2>1, <2>2, <2>3 DEF TicketsAddUp
<1> QED BY <1>1, <1>2, <1>3, <1>4, <1>6 DEF Rest, Accounting, IInv

LEMMA TakeSlot ==
  ASSUME IInv, NEW c \in Clients, NEW t \in Tickets, NEW W, NEW n \in Nat,
         LoopEntry(c, t, W, n), Admitted(c, t, W, n)
  PROVE  Rest'
<1>1. /\ pc' = [pc EXCEPT ![c] = "held"] /\ waiters' = W \ {t} /\ waiting' = n - 1
      /\ ticket' = [ticket EXCEPT ![c] = t] /\ in_flight' = in_flight + 1
      /\ in_flight < MaxConcurrency
  BY DEF Admitted, Admissible
<1>2. /\ waiting' = Cardinality(Queued')
      /\ waiters' = {ticket'[d] : d \in Queued'}
      /\ TicketsDistinct'
  BY <1>1, LeaveHeap DEF Places
<1>3. in_flight' = Cardinality(Holding')
  <2>1. Holding' = Holding \cup {c} /\ c \notin Holding
    BY <1>1, MoveClient DEF IInv, LoopEntry, Holding, Places
  <2> QED BY <1>1, <2>1, Counting DEF IInv, Accounting
<1>4. CountersBounded'
  BY <1>1, ConstantsAssumption DEF IInv, CountersBounded, LoopEntry, TypeOK
<1>5. /\ stats'.admitted = stats.admitted + 1 /\ stats'.timed_out = stats.timed_out
      /\ stats'.cancelled = stats.cancelled
      /\ stats'.peak = IF stats.peak < in_flight + 1 THEN in_flight + 1 ELSE stats.peak
  <2> DEFINE top == IF stats.peak < in_flight + 1 THEN in_flight + 1 ELSE stats.peak
  <2>1. stats' = [stats EXCEPT !.admitted = stats.admitted + 1, !.peak = top]
    BY DEF Admitted, IInv, TypeOK
  <2>2. top \in Nat /\ stats.admitted + 1 \in Nat
    BY DEF IInv, TypeOK
  <2>3. stats \in [admitted : Nat, shed : Nat, timed_out : Nat, cancelled : Nat, peak : Nat]
    BY DEF IInv, TypeOK
  <2> HIDE DEF top
  <2>4. stats'.peak = top
    BY <2>1, <2>2, <2>3, StatsType
  <2> QED BY <2>1, <2>2, <2>3, <2>4, StatsType DEF top
<1>6. TicketsAddUp'
  <2>1. stats.peak \in Nat /\ stats.admitted \in Nat /\ in_flight \in Nat
        /\ stats.timed_out \in Nat /\ stats.cancelled \in Nat
    BY DEF IInv, TypeOK
  <2>2. in_flight <= stats.peak /\ stats.peak <= MaxConcurrency
        /\ stats.peak <= stats.admitted
    BY DEF IInv, TicketsAddUp
  <2>3. seq' = stats.admitted + stats.timed_out + stats.cancelled + n
    BY DEF LoopEntry
  <2> QED BY <1>1, <1>5, <2>1, <2>2, <2>3, ConstantsAssumption DEF TicketsAddUp
<1> QED BY <1>2, <1>3, <1>4, <1>6 DEF Rest, Accounting

LEMMA KeepWaiting ==
  ASSUME IInv, NEW c \in Clients, NEW t \in Tickets, NEW W, NEW n \in Nat,
         LoopEntry(c, t, W, n), Waits(c, t, W, n)
  PROVE  Rest'
<1>1. /\ pc' = [pc EXCEPT ![c] = "waiting"] /\ waiters' = W /\ waiting' = n
      /\ ticket' = [ticket EXCEPT ![c] = t] /\ in_flight' = in_flight
      /\ stats' = stats
  BY DEF Waits
<1>2. Queued' = Others(c) \cup {c} /\ Holding' = Holding
  BY <1>1, MoveClient DEF IInv, LoopEntry, Holding, Others, Places
<1>3. \A d \in Others(c) : ticket'[d] = ticket[d]
  BY <1>1 DEF IInv, TypeOK, Others, Queued
<1>4. ticket'[c] = t
  BY <1>1 DEF IInv, TypeOK
<1>5. waiting' = Cardinality(Queued')
  <2>1. Queued' = Queued \cup {c}
    BY <1>2 DEF Others
  <2>2. n = IF c \in Queued THEN Cardinality(Queued) ELSE Cardinality(Queued) + 1
    <3>1. n = Cardinality(Queued \ {c}) + 1
      BY DEF LoopEntry, Others
    <3>2. /\ Cardinality(Queued) \in Nat
          /\ Cardinality(Queued \ {c}) =
               IF c \in Queued THEN Cardinality(Queued) - 1 ELSE Cardinality(Queued)
      BY Counting
    <3> QED BY <3>1, <3>2
  <2> QED BY <1>1, <2>1, <2>2, Counting
<1>6. waiters' = {ticket'[d] : d \in Queued'}
  BY <1>1, <1>2, <1>3, <1>4 DEF LoopEntry, OtherTickets
<1>7. TicketsDistinct'
  <2>1. \A d \in Others(c) : ticket[d][2] < seq'
    <3> SUFFICES ASSUME NEW d \in Others(c) PROVE ticket[d][2] < seq'
      OBVIOUS
    <3>1. d \in Queued /\ ticket[d][2] < seq
      BY DEF Others, IInv, TicketsDistinct
    <3>2. ticket[d][2] \in Nat /\ seq \in Nat
      BY <3>1 DEF IInv, TypeOK, Queued, Tickets
    <3>3. seq <= seq' /\ seq' \in Nat
      BY DEF LoopEntry
    <3> QED BY <3>1, <3>2, <3>3
  <2>2. \A d, e \in Others(c) : ticket[d][2] = ticket[e][2] => d = e
    BY DEF Others, IInv, TicketsDistinct
  <2>3. \A d \in Others(c) : ticket[d][2] # t[2] /\ t[2] < seq'
    BY DEF LoopEntry
  <2>4. t[2] < seq'
    BY DEF LoopEntry
  <2>5. \A d \in Clients : pc'[d] \notin {"waiting", "held"} => ticket'[d] = NoTicket
    BY <1>1 DEF IInv, TypeOK, TicketsDistinct
  <2> QED BY <1>2, <1>3, <1>4, <2>1, <2>2, <2>3, <2>4, <2>5 DEF TicketsDistinct
<1>8. CountersBounded'
  BY <1>1 DEF IInv, CountersBounded, LoopEntry, TypeOK
<1>9. TicketsAddUp'
  BY <1>1 DEF IInv, TicketsAddUp, LoopEntry
<1> QED BY <1>1, <1>2, <1>5, <1>6, <1>7, <1>8, <1>9 DEF Rest, Accounting, IInv

LEMMA IterationRest ==
  ASSUME IInv, NEW c \in Clients, NEW t \in Tickets, NEW W, NEW n \in Nat,
         LoopEntry(c, t, W, n), Iteration(c, t, W, n)
  PROVE  Rest'
  BY GiveUp, TakeSlot, KeepWaiting DEF Iteration
----------------------------------------------------------------------------
LEMMA EnterEntry ==
  ASSUME IInv, NEW c \in Clients, NEW p \in Priorities, Enter(c, p)
  PROVE  LoopEntry(c, <<p, seq>>, waiters \cup {<<p, seq>>}, waiting + 1)
<1>1. pc[c] = "idle" /\ ~Full /\ seq' = seq + 1
  BY DEF Enter, MayRequest
<1>2. Others(c) = Queued
  BY <1>1 DEF Others, Queued
<1>3. \A d \in Others(c) : ticket[d][2] # seq
  <2> SUFFICES ASSUME NEW d \in Others(c) PROVE ticket[d][2] # seq
    OBVIOUS
  <2>1. ticket[d][2] < seq /\ ticket[d][2] \in Nat /\ seq \in Nat
    BY <1>2 DEF IInv, TicketsDistinct, TypeOK, Queued, Tickets
  <2> QED BY <2>1
<1>4. waiting + 1 + in_flight <= MaxQueueDepth
  BY <1>1, ConstantsAssumption DEF Full, IInv, TypeOK
<1>5. seq' = stats.admitted + stats.timed_out + stats.cancelled + (waiting + 1)
  <2>1. seq = stats.admitted + stats.timed_out + stats.cancelled + waiting
    BY DEF IInv, TicketsAddUp
  <2>2. /\ stats.admitted \in Nat /\ stats.timed_out \in Nat
        /\ stats.cancelled \in Nat
    BY DEF IInv, TypeOK
  <2>3. waiting \in Nat
    BY DEF IInv, TypeOK
  <2> QED BY <1>1, <2>1, <2>2, <2>3
<1>6. waiters = OtherTickets(c) /\ waiting = Cardinality(Others(c))
  BY <1>2 DEF IInv, Accounting, OtherTickets
<1>7. seq \in Nat
  BY DEF IInv, TypeOK
<1> QED BY <1>1, <1>3, <1>4, <1>5, <1>6, <1>7 DEF LoopEntry

LEMMA PollEntry ==
  ASSUME IInv, NEW c \in Clients, Poll(c)
  PROVE  LoopEntry(c, ticket[c], waiters, waiting)
<1>1. pc[c] = "waiting" /\ c \in Queued /\ seq' = seq
  BY DEF Poll, Queued
<1>2. waiters = OtherTickets(c) \cup {ticket[c]}
  BY <1>1 DEF IInv, Accounting, OtherTickets, Others
<1>3. waiting = Cardinality(Others(c)) + 1
  <2>1. waiting = Cardinality(Queued) /\ waiting \in Nat
    BY DEF IInv, Accounting, TypeOK
  <2>2. /\ Cardinality(Queued) \in Nat
        /\ Cardinality(Queued \ {c}) = Cardinality(Queued) - 1
    BY <1>1, Counting
  <2> QED BY <2>1, <2>2 DEF Others
<1>4. /\ \A d \in Others(c) : ticket[d][2] # ticket[c][2]
      /\ ticket[c][2] < seq
  BY <1>1 DEF IInv, TicketsDistinct, Others
<1>5. waiting + in_flight <= MaxQueueDepth /\ seq \in Nat
  BY DEF IInv, CountersBounded, TypeOK
<1>6. seq = stats.admitted + stats.timed_out + stats.cancelled + waiting
  BY DEF IInv, TicketsAddUp
<1> QED BY <1>1, <1>2, <1>3, <1>4, <1>5, <1>6 DEF LoopEntry

\* A client that neither waits nor holds before and after the step.
LEMMA MoveOutside ==
  ASSUME IInv, NEW c \in Clients, pc[c] \notin {"waiting", "held"},
         NEW to \in Places \ {"waiting", "held"}, pc' = [pc EXCEPT ![c] = to],
         ticket' = [ticket EXCEPT ![c] = NoTicket] \/ ticket' = ticket,
         UNCHANGED <<waiters, seq, in_flight, waiting>>,
         UNCHANGED stats \/ stats' = [stats EXCEPT !.shed = @ + 1]
  PROVE  Rest'
<1>1. ticket[c] = NoTicket /\ c \notin Queued /\ c \notin Holding
  BY DEF IInv, TicketsDistinct, Queued, Holding
<1>2. ticket' = ticket
  BY <1>1 DEF IInv, TypeOK
<1>3. Queued' = Queued /\ Holding' = Holding
  <2>1. Queued' = Queued \ {c} /\ Holding' = Holding \ {c}
    BY MoveClient DEF IInv, Places
  <2> QED BY <1>1, <2>1
<1>4. \A d \in Clients : pc'[d] \notin {"waiting", "held"} => ticket'[d] = NoTicket
  BY <1>1, <1>2 DEF IInv, TypeOK, TicketsDistinct
<1>5. /\ stats'.admitted = stats.admitted /\ stats'.peak = stats.peak
      /\ stats'.timed_out = stats.timed_out /\ stats'.cancelled = stats.cancelled
  BY DEF IInv, TypeOK
<1> QED
  BY <1>2, <1>3, <1>4, <1>5 DEF Rest, IInv, Accounting, TicketsDistinct,
                                CountersBounded, TicketsAddUp

LEMMA FreeSlot ==
  ASSUME IInv, NEW c \in Clients, Release(c)
  PROVE  Rest'
<1>1. PICK to \in {"idle", "failed"} : pc' = [pc EXCEPT ![c] = to]
  BY DEF Release, GoIdle
<1>2. pc[c] = "held" /\ c \in Holding /\ c \notin Queued
  BY DEF Release, Holding, Queued
<1>3. ticket' = [ticket EXCEPT ![c] = NoTicket]
  BY DEF Release, GoIdle
<1>4. Queued' = Queued /\ Holding' = Holding \ {c}
  <2>1. Queued' = Queued \ {c} /\ Holding' = Holding \ {c}
    BY <1>1, MoveClient DEF IInv, Places
  <2> QED BY <1>2, <2>1
<1>5. in_flight' = Cardinality(Holding') /\ in_flight' <= in_flight /\ in_flight' \in Nat
  <2>1. in_flight = Cardinality(Holding) /\ in_flight \in Nat
    BY DEF IInv, Accounting, TypeOK
  <2>2. in_flight > 0
    BY <1>2, <2>1, Finite, FS_EmptySet
  <2>3. in_flight' = in_flight - 1
    BY <2>1, <2>2 DEF Release
  <2>4. Cardinality(Holding') = Cardinality(Holding) - 1
    BY <1>2, <1>4, Counting
  <2> QED BY <2>1, <2>2, <2>3, <2>4
<1>6. \A d \in Queued : ticket'[d] = ticket[d]
  BY <1>2, <1>3 DEF IInv, TypeOK, Queued
<1>7. UNCHANGED <<waiters, seq, waiting, stats>>
  BY DEF Release
<1>8. Accounting'
  BY <1>4, <1>5, <1>6, <1>7 DEF IInv, Accounting
<1>9. TicketsDistinct'
  <2>1. \A d \in Clients : pc'[d] \notin {"waiting", "held"} => ticket'[d] = NoTicket
    BY <1>1, <1>3 DEF IInv, TypeOK, TicketsDistinct
  <2> QED BY <1>4, <1>6, <1>7, <2>1 DEF IInv, TicketsDistinct
<1>10. CountersBounded'
  BY <1>5, <1>7, ConstantsAssumption DEF IInv, CountersBounded, TypeOK
<1>11. TicketsAddUp'
  BY <1>5, <1>7, ConstantsAssumption DEF IInv, TicketsAddUp, TypeOK
<1> QED BY <1>8, <1>9, <1>10, <1>11 DEF Rest

LEMMA InvInit == Init => IInv
<1> SUFFICES ASSUME Init PROVE IInv
  OBVIOUS
<1>1. Queued = {} /\ Holding = {}
  BY DEF Init, Queued, Holding
<1>2. Accounting
  BY <1>1, FS_EmptySet DEF Init, Accounting
<1>3. TicketsDistinct
  BY <1>1 DEF Init, TicketsDistinct
<1>4. CountersBounded
  BY ConstantsAssumption DEF Init, CountersBounded
<1>5. TicketsAddUp
  BY ConstantsAssumption DEF Init, TicketsAddUp
<1> QED BY <1>2, <1>3, <1>4, <1>5, TypeInit DEF IInv

LEMMA InvStep == IInv /\ [Next]_vars => IInv'
<1> SUFFICES ASSUME IInv, [Next]_vars PROVE IInv'
  OBVIOUS
<1>0. TypeOK'
  BY TypeStep DEF IInv
<1> SUFFICES Rest'
  BY <1>0 DEF IInv, Rest
<1>1. ASSUME NEW c \in Clients, Shed(c) PROVE Rest'
  <2>1. /\ pc[c] = "idle" /\ pc' = [pc EXCEPT ![c] = "shed"]
        /\ UNCHANGED <<ticket, waiters, seq, in_flight, waiting>>
        /\ stats' = [stats EXCEPT !.shed = @ + 1]
    BY <1>1 DEF Shed, MayRequest
  <2> QED BY <2>1, MoveOutside DEF Places
<1>2. ASSUME NEW c \in Clients, NEW p \in Priorities, Enter(c, p) PROVE Rest'
  <2>1. <<p, seq>> \in Tickets /\ waiting + 1 \in Nat
    BY DEF IInv, TypeOK, Tickets
  <2>2. Iteration(c, <<p, seq>>, waiters \cup {<<p, seq>>}, waiting + 1)
    BY <1>2 DEF Enter
  <2> QED BY <1>2, <2>1, <2>2, EnterEntry, IterationRest
<1>3. ASSUME NEW c \in Clients, Poll(c) PROVE Rest'
  <2>1. ticket[c] \in Tickets /\ waiting \in Nat
    BY DEF IInv, TypeOK
  <2>2. Iteration(c, ticket[c], waiters, waiting)
    BY <1>3 DEF Poll
  <2> QED BY <1>3, <2>1, <2>2, PollEntry, IterationRest
<1>4. ASSUME NEW c \in Clients, Release(c) PROVE Rest'
  BY <1>4, FreeSlot
<1>5. ASSUME NEW c \in Clients, RecordDeadLetter(c) PROVE Rest'
  BY <1>5, MoveOutside DEF RecordDeadLetter, GoIdle, Places
<1>6. CASE UNCHANGED <<pc, ticket, waiters, seq, in_flight, waiting, stats>>
  BY <1>6 DEF IInv, Rest, Accounting, TicketsDistinct, CountersBounded,
              TicketsAddUp, Queued, Holding
<1>7. ASSUME NEW c \in Clients, UserCancels(c) \/ DeadlinePasses(c) PROVE Rest'
  BY <1>6, <1>7 DEF UserCancels, DeadlinePasses
<1>8. CASE Refill \/ Quiet \/ UNCHANGED vars
  BY <1>6, <1>8 DEF Refill, Quiet, vars
<1> QED BY <1>1, <1>2, <1>3, <1>4, <1>5, <1>7, <1>8 DEF Next

(***************************************************************************)
(* Every reachable state satisfies the inductive invariant.                *)
(***************************************************************************)
THEOREM Invariance == Spec => []IInv
  BY InvInit, InvStep, PTL DEF Spec

(***************************************************************************)
(* The scheduler keeps its types: every variable of RequestScheduler stays *)
(* in the range __init__ and the operations give it.                       *)
(***************************************************************************)
THEOREM TypeCorrect == Spec => []TypeOK
<1>1. IInv => TypeOK
  BY DEF IInv
<1> QED BY <1>1, Invariance, PTL

(***************************************************************************)
(* _in_flight, _waiting and the heap are exactly the threads that hold a   *)
(* slot and the threads that wait, after any mix of the exits of _admit.   *)
(***************************************************************************)
THEOREM AccountingHolds == Spec => []Accounting
<1>1. IInv => Accounting
  BY DEF IInv
<1> QED BY <1>1, Invariance, PTL

(***************************************************************************)
(* The concurrency cap and the backpressure bound hold for every cap and   *)
(* depth and any number of threads.                                        *)
(***************************************************************************)
THEOREM BoundedHolds == Spec => []Bounded
<1>1. IInv => Bounded
  <2> SUFFICES ASSUME IInv PROVE Bounded
    OBVIOUS
  <2>1. /\ in_flight = Cardinality(Holding) /\ waiting = Cardinality(Queued)
        /\ in_flight \in Nat /\ waiting \in Nat
        /\ in_flight <= MaxConcurrency /\ waiting + in_flight <= MaxQueueDepth
    BY DEF IInv, Accounting, CountersBounded, TypeOK
  <2> QED BY <2>1, ConstantsAssumption DEF Bounded
<1> QED BY <1>1, Invariance, PTL

(***************************************************************************)
(* snapshot() adds up: no ticket is lost or counted twice.                 *)
(***************************************************************************)
THEOREM TicketsAddUpHolds == Spec => []TicketsAddUp
<1>1. IInv => TicketsAddUp
  BY DEF IInv
<1> QED BY <1>1, Invariance, PTL
----------------------------------------------------------------------------
(***************************************************************************)
(* Refinement.  place is the image of pc and rank is ticket; the sets the  *)
(* abstract guards count are the concrete ones.                            *)
(***************************************************************************)
place == [c \in Clients |-> Place(c)]

\* AdmissionControl extends FiniteSets too: its Cardinality is ours.
LEMMA SameCardinality == \A S : AC!Cardinality(S) = Cardinality(S)
  BY DEF AC!Cardinality, Cardinality

LEMMA SameSets == AC!Queued = Queued /\ AC!Holding = Holding
  BY DEF AC!Queued, AC!Holding, Queued, Holding, Place

\* How a move of one client looks from above.
LEMMA MovePlace ==
  ASSUME TypeOK, NEW c \in Clients, NEW to \in Places,
         pc' = [pc EXCEPT ![c] = to]
  PROVE  place' = [place EXCEPT ![c] = CASE to = "waiting" -> "queued"
                                         [] to = "held" -> "holding"
                                         [] OTHER -> "out"]
  BY DEF TypeOK, place, Place, Places

LEMMA RefineInit == Init => AC!Init
  BY NoTicketType DEF Init, AC!Init, Place, Tickets

\* The ticket a loop iteration admits precedes every other waiting client.
LEMMA HeadPrecedes ==
  ASSUME IInv, NEW c \in Clients, NEW t \in Tickets, NEW W, NEW n,
         LoopEntry(c, t, W, n), AtHead(t, W)
  PROVE  \A d \in Queued \ {c} : AC!Before(t, ticket[d])
<1> SUFFICES ASSUME NEW d \in Queued \ {c} PROVE AC!Before(t, ticket[d])
  OBVIOUS
<1>1. ticket[d] \in W /\ ticket[d][2] # t[2]
  BY DEF LoopEntry, OtherTickets, Others
<1>2. ticket[d] \in W \ {t}
  BY <1>1
<1> QED BY <1>2 DEF AtHead, Before, AC!Before

LEMMA ArrivalRefines ==
  ASSUME IInv, NEW c \in Clients, NEW p \in Priorities, Enter(c, p),
         ticket' = [ticket EXCEPT ![c] = <<p, seq>>]
  PROVE  AC!Arrives(c)
<1>1. pc[c] = "idle" /\ ~Full
  BY DEF Enter, MayRequest
<1>2. place[c] = "out"
  BY <1>1 DEF place, Place
<1>3. Cardinality(AC!Queued) + Cardinality(AC!Holding) < MaxQueueDepth
  <2>1. waiting + in_flight < MaxQueueDepth
    BY <1>1, ConstantsAssumption DEF Full, IInv, TypeOK
  <2> QED BY <2>1, SameSets DEF IInv, Accounting, TypeOK
<1>4. ticket'[c] = <<p, seq>> /\ <<p, seq>> \in Priorities \X Nat
  BY DEF IInv, TypeOK
<1>5. \A d \in AC!Queued : ticket[d][2] < ticket'[c][2]
  BY <1>4, SameSets DEF IInv, TicketsDistinct
<1>6. ticket' = [ticket EXCEPT ![c] = ticket'[c]]
  BY <1>4
<1>7. ticket'[c] \in Priorities \X Nat
  BY <1>4
<1> QED BY <1>2, <1>3, <1>5, <1>6, <1>7, SameCardinality DEF AC!Arrives, place

LEMMA EnterRefines ==
  ASSUME IInv, NEW c \in Clients, NEW p \in Priorities, Enter(c, p)
  PROVE  AC!Enqueue(c) \/ AC!EnterAtOnce(c) \/ UNCHANGED <<place, ticket>>
<1> DEFINE t == <<p, seq>>
           W == waiters \cup {t}
<1>1. pc[c] = "idle" /\ t \in Tickets
  BY DEF Enter, MayRequest, IInv, TypeOK, Tickets
<1>2. LoopEntry(c, t, W, waiting + 1)
  BY EnterEntry
<1> HIDE DEF t, W
<1>3. CASE Cancelled(c, t, W, waiting + 1) \/ TimedOut(c, t, W, waiting + 1)
  <2>1. /\ pc' = [pc EXCEPT ![c] = "idle"]
        /\ ticket' = [ticket EXCEPT ![c] = NoTicket]
    BY <1>3 DEF Cancelled, TimedOut, GoIdle
  <2>2. pc' = pc /\ ticket' = ticket
    BY <1>1, <2>1 DEF IInv, TypeOK, TicketsDistinct
  <2> QED BY <2>2 DEF place, Place
<1>4. CASE Admitted(c, t, W, waiting + 1)
  <2>1. /\ pc' = [pc EXCEPT ![c] = "held"] /\ ticket' = [ticket EXCEPT ![c] = t]
        /\ AtHead(t, W) /\ in_flight < MaxConcurrency
    BY <1>4 DEF Admitted, Admissible
  <2>2. AC!Arrives(c)
    BY <2>1, ArrivalRefines DEF t
  <2>3. ticket'[c] = t
    BY <2>1 DEF IInv, TypeOK
  <2>4. AC!MayHold(c, ticket'[c])
    <3>1. \A d \in AC!Queued \ {c} : AC!Before(t, ticket[d])
      BY <1>1, <1>2, <2>1, HeadPrecedes, SameSets
    <3>2. Cardinality(AC!Holding) < MaxConcurrency
      BY <2>1, SameSets DEF IInv, Accounting
    <3> QED BY <2>3, <3>1, <3>2, SameCardinality DEF AC!MayHold
  <2>5. place' = [place EXCEPT ![c] = "holding"]
    BY <2>1, MovePlace DEF IInv, Places
  <2> QED BY <2>2, <2>4, <2>5 DEF AC!EnterAtOnce, place
<1>5. CASE Waits(c, t, W, waiting + 1)
  <2>1. /\ pc' = [pc EXCEPT ![c] = "waiting"]
        /\ ticket' = [ticket EXCEPT ![c] = t]
    BY <1>5 DEF Waits
  <2>2. AC!Arrives(c)
    BY <2>1, ArrivalRefines DEF t
  <2>3. place' = [place EXCEPT ![c] = "queued"]
    BY <2>1, MovePlace DEF IInv, Places
  <2> QED BY <2>2, <2>3 DEF AC!Enqueue, place
<1>6. Iteration(c, t, W, waiting + 1)
  BY DEF Enter, t, W
<1> QED BY <1>3, <1>4, <1>5, <1>6 DEF Iteration

\* A waiting or holding client that goes away.
LEMMA LeaveRefines ==
  ASSUME IInv, NEW c \in Clients, pc[c] \in {"waiting", "held"},
         NEW to \in {"idle", "failed"}, pc' = [pc EXCEPT ![c] = to],
         ticket' = [ticket EXCEPT ![c] = NoTicket]
  PROVE  AC!Leave(c)
<1>1. place[c] # "out"
  BY DEF place, Place
<1>2. place' = [place EXCEPT ![c] = "out"]
  BY MovePlace DEF IInv, Places
<1>3. \A d \in Clients \ {c} : ticket'[d] = ticket[d]
  BY DEF IInv, TypeOK
<1> QED BY <1>1, <1>2, <1>3 DEF AC!Leave, place

LEMMA PollRefines ==
  ASSUME IInv, NEW c \in Clients, Poll(c)
  PROVE  AC!Admit(c) \/ AC!Leave(c) \/ UNCHANGED <<place, ticket>>
<1> DEFINE t == ticket[c]
<1>1. pc[c] = "waiting" /\ t \in Tickets
  BY DEF Poll, IInv, TypeOK
<1>2. LoopEntry(c, t, waiters, waiting)
  BY PollEntry
<1>3. Iteration(c, t, waiters, waiting)
  BY DEF Poll
<1>4. CASE Cancelled(c, t, waiters, waiting) \/ TimedOut(c, t, waiters, waiting)
  <2>1. /\ pc' = [pc EXCEPT ![c] = "idle"]
        /\ ticket' = [ticket EXCEPT ![c] = NoTicket]
    BY <1>4 DEF Cancelled, TimedOut, GoIdle
  <2> QED BY <1>1, <2>1, LeaveRefines
<1>5. CASE Admitted(c, t, waiters, waiting)
  <2>1. /\ pc' = [pc EXCEPT ![c] = "held"] /\ ticket' = [ticket EXCEPT ![c] = t]
        /\ AtHead(t, waiters) /\ in_flight < MaxConcurrency
    BY <1>5 DEF Admitted, Admissible
  <2>2. ticket' = ticket
    BY <2>1 DEF IInv, TypeOK
  <2>3. AC!MayHold(c, ticket[c])
    <3>1. \A d \in AC!Queued \ {c} : AC!Before(t, ticket[d])
      BY <1>1, <1>2, <2>1, HeadPrecedes, SameSets
    <3>2. Cardinality(AC!Holding) < MaxConcurrency
      BY <2>1, SameSets DEF IInv, Accounting
    <3> QED BY <3>1, <3>2, SameCardinality DEF AC!MayHold
  <2>4. place[c] = "queued" /\ place' = [place EXCEPT ![c] = "holding"]
    BY <1>1, <2>1, MovePlace DEF IInv, Places, place, Place
  <2> QED BY <2>2, <2>3, <2>4 DEF AC!Admit, place
<1>6. CASE Waits(c, t, waiters, waiting)
  <2>1. pc' = pc /\ ticket' = ticket
    BY <1>1, <1>6 DEF Waits, IInv, TypeOK
  <2> QED BY <2>1 DEF place, Place
<1> QED BY <1>3, <1>4, <1>5, <1>6 DEF Iteration

LEMMA RefineStep == IInv /\ [Next]_vars => [AC!Next]_AC!vars
<1> SUFFICES ASSUME IInv, [Next]_vars PROVE [AC!Next]_AC!vars
  OBVIOUS
<1> DEFINE Stutter == UNCHANGED <<place, ticket>>
<1> SUFFICES Stutter \/ \E c \in Clients :
               AC!Enqueue(c) \/ AC!EnterAtOnce(c) \/ AC!Admit(c) \/ AC!Leave(c)
  BY DEF AC!Next, AC!vars, place
<1>1. ASSUME NEW c \in Clients, Shed(c) \/ RecordDeadLetter(c) PROVE Stutter
  <2>1. PICK to \in {"idle", "shed"} : pc' = [pc EXCEPT ![c] = to]
    BY <1>1 DEF Shed, RecordDeadLetter, GoIdle
  <2>2. pc[c] \in {"idle", "shed", "failed"} /\ ticket[c] = NoTicket
    BY <1>1 DEF Shed, MayRequest, RecordDeadLetter, IInv, TicketsDistinct
  <2>3. place' = place
    BY <2>1, <2>2 DEF place, Place, IInv, TypeOK
  <2>4. ticket' = ticket
    BY <1>1, <2>2 DEF Shed, RecordDeadLetter, GoIdle, IInv, TypeOK
  <2> QED BY <2>3, <2>4
<1>2. ASSUME NEW c \in Clients, Release(c) PROVE AC!Leave(c)
  <2>1. PICK to \in {"idle", "failed"} : pc' = [pc EXCEPT ![c] = to]
    BY <1>2 DEF Release, GoIdle
  <2>2. pc[c] = "held" /\ ticket' = [ticket EXCEPT ![c] = NoTicket]
    BY <1>2 DEF Release, GoIdle
  <2> QED BY <2>1, <2>2, LeaveRefines
<1>3. UNCHANGED <<pc, ticket>> => Stutter
  BY DEF place, Place
<1>4. ASSUME NEW c \in Clients, UserCancels(c) \/ DeadlinePasses(c) PROVE Stutter
  BY <1>3, <1>4 DEF UserCancels, DeadlinePasses
<1>5. CASE Refill \/ Quiet \/ UNCHANGED vars
  BY <1>3, <1>5 DEF Refill, Quiet, vars
<1> QED
  BY <1>1, <1>2, <1>4, <1>5, EnterRefines, PollRefines DEF Next

(***************************************************************************)
(* The scheduler implements AdmissionControl: with any number of clients   *)
(* it admits within the cap, queues within the depth, and never lets a     *)
(* waiting request be overtaken by one of a later ticket or lower rank.    *)
(***************************************************************************)
THEOREM Refinement == Spec => ImplementsAdmissionControl
  BY RefineInit, RefineStep, Invariance, PTL
  DEF Spec, ImplementsAdmissionControl, AC!Spec
============================================================================
