-------------------------- MODULE RequestQueueProofs --------------------------
(***************************************************************************)
(* Safety of open_with_resiliency and of recovery on boot for every number *)
(* of calls, attempts and crashes.                                         *)
(***************************************************************************)
EXTENDS RequestQueue, TLAPS

(***************************************************************************)
(* The properties compare the row, which outlives the process, with the    *)
(* thread, which does not.  Alone they are not inductive: recovery writes  *)
(* rows without asking the threads, so one has to know which threads there *)
(* can be while it runs, and how old their rows are.  All of it is said of *)
(* one call at a time, as every step but recovery and a crash is about one. *)
(***************************************************************************)

\* The row says where the thread is (RowTracksThread).
Tracked(c) ==
  /\ pc[c] \in Live => row[c].attempts = attempt[c]
  /\ pc[c] = "created" => row[c].status = "created"
  /\ pc[c] = "checked" => row[c].status \in {"created", "queued"}
  /\ pc[c] = "opening" => row[c].status = "running"
  /\ pc[c] = "asleep"  => row[c].status = "queued"
  /\ pc[c] = "reading" => row[c].status = "succeeded"

\* A thread has an outcome when it is over, and attempts left before one.
Progress(c) ==
  /\ pc[c] = "done" <=> outcome[c] # "none"
  /\ pc[c] \in Pending \cup {"checked"} => attempt[c] < MaxAttempts
  /\ pc[c] = "new" => row[c].status = "none" /\ attempt[c] = 0

\* What the row says of a call that has ended (FailedRowsGaveUp), and the other
\* way round.
Verdict(c) ==
  /\ row[c].status = "failed" =>
       /\ outcome[c] # "response"
       /\ row[c].last_error = "upstream" =>
            error[c] = "fatal" \/ row[c].attempts = MaxAttempts
  /\ outcome[c] = "response" => row[c].status = "succeeded"
  /\ outcome[c] = "upstream_error" => row[c].status \in Settled
  /\ pc[c] \in Live => row[c].status # "failed"

\* A process that is down has no threads, and one that recovers has only young
\* ones, which started with it.
Young(c) ==
  /\ proc = "down" => pc[c] \notin Live
  /\ proc = "recovering" /\ pc[c] \in Live => ~row[c].stale

\* What was dead-lettered, or is about to be, was settled by recovery.
Lettered(c) ==
  letters[c] > 0 \/ c \in todo =>
    /\ pc[c] = "done" /\ row[c].status = "failed"
    /\ row[c].last_error = "recovered_on_startup"
    /\ outcome[c] \in {"crashed", "db_error", "cancelled"}
    /\ letters[c] = 0 \/ (c \notin todo /\ letters[c] = 1)

CallInv(c) == Tracked(c) /\ Progress(c) /\ Verdict(c) /\ Young(c) /\ Lettered(c)

IInv ==
  /\ TypeOK
  /\ todo # {} => proc = "recovering"
  /\ \A c \in Calls : CallInv(c)

-----------------------------------------------------------------------------
\* At the start no call has a row, a thread or a letter.
LEMMA Initially == Init => IInv
<1> SUFFICES ASSUME Init PROVE IInv
  OBVIOUS
<1> USE ConstantsAssumption
<1>1. row \in [Calls -> Rows]
  <2>1. [status |-> "none", attempts |-> 0, last_error |-> "", stale |-> FALSE] \in Rows
    BY DEF Rows
  <2> QED
    BY <2>1 DEF Init
<1>2. TypeOK
  <2>0. 0 \in 0..MaxAttempts /\ 0 \in 0..MaxCrashes
    OBVIOUS
  <2>1. /\ pc \in [Calls -> Places] /\ attempt \in [Calls -> 0..MaxAttempts]
        /\ error \in [Calls -> Errors] /\ outcome \in [Calls -> Outcomes]
        /\ letters \in [Calls -> Nat]
    BY <2>0 DEF Init, Places, Errors, Outcomes
  <2>2. /\ cancel \in SUBSET Streams /\ todo \in SUBSET Calls
        /\ proc \in Phases /\ crashes \in 0..MaxCrashes
    BY <2>0 DEF Init, Phases
  <2> QED
    BY <1>1, <2>1, <2>2 DEF TypeOK
<1>3. ASSUME NEW c \in Calls PROVE CallInv(c)
  <2>1. /\ row[c].status = "none" /\ pc[c] = "new" /\ attempt[c] = 0
        /\ outcome[c] = "none" /\ letters[c] = 0 /\ todo = {}
    BY DEF Init
  <2> QED
    BY <2>1 DEF CallInv, Tracked, Progress, Verdict, Young, Lettered, Live, Pending
<1> QED
  BY <1>2, <1>3 DEF Init, IInv

\* Rows and threads keep their shape; the attempts stop at MaxAttempts because
\* a thread only waits with one left.
LEMMA TypePreserved ==
  IInv /\ [Next]_vars => TypeOK' /\ (todo' # {} => proc' = "recovering")
<1> SUFFICES ASSUME IInv, [Next]_vars
             PROVE  TypeOK' /\ (todo' # {} => proc' = "recovering")
  OBVIOUS
<1>a. TypeOK /\ (todo # {} => proc = "recovering")
  BY DEF IInv
<1>b. \A c \in Calls : Progress(c)
  BY DEF IInv, CallInv
<1>0. 0 \in 0..MaxAttempts
  BY ConstantsAssumption
<1>c. \A c \in Calls : row[c].last_error \in {"", "upstream", "recovered_on_startup"}
  BY <1>a DEF TypeOK, Rows
<1> USE ConstantsAssumption, <1>a DEF TypeOK, Places, Live, Pending, Phases, Outcomes, Errors
<1>1. ASSUME NEW c \in Calls, Create(c)
      PROVE  TypeOK' /\ (todo' # {} => proc' = "recovering")
  <2>a. [status |-> "created", attempts |-> 0, last_error |-> "", stale |-> FALSE] \in Rows
    BY <1>0, <1>c DEF Rows, InFlight, Settled
  <2>1. row' \in [Calls -> Rows]
    BY <1>1, <2>a DEF Create, Mark
  <2> QED
    BY <1>1, <2>1 DEF Create, recovery
<1>k. ASSUME NEW c \in Calls, Check(c)
      PROVE  TypeOK' /\ (todo' # {} => proc' = "recovering")
  BY <1>k DEF Check, recovery
<1>2. ASSUME NEW c \in Calls, StartAttempt(c)
      PROVE  TypeOK' /\ (todo' # {} => proc' = "recovering")
  <2>0. attempt[c] + 1 \in 0..MaxAttempts
    BY <1>2, <1>b DEF StartAttempt, Progress
  <2>a. [status |-> "running", attempts |-> attempt[c] + 1,
         last_error |-> row[c].last_error, stale |-> FALSE] \in Rows
    BY <1>0, <1>c, <2>0 DEF Rows, InFlight, Settled
  <2>1. row' \in [Calls -> Rows]
    BY <1>2, <2>a DEF StartAttempt, Mark
  <2> QED
    BY <1>2, <2>1, <2>0 DEF StartAttempt, recovery
<1>3. ASSUME NEW c \in Calls, Abandon(c)
      PROVE  TypeOK' /\ (todo' # {} => proc' = "recovering")
  BY <1>3 DEF Abandon, Finish, recovery
<1>4. ASSUME NEW c \in Calls, OpenSucceeds(c)
      PROVE  TypeOK' /\ (todo' # {} => proc' = "recovering")
  <2>a. [status |-> "succeeded", attempts |-> attempt[c],
         last_error |-> "", stale |-> FALSE] \in Rows
    BY <1>0, <1>c DEF Rows, InFlight, Settled
  <2>1. row' \in [Calls -> Rows]
    BY <1>4, <2>a DEF OpenSucceeds, Mark
  <2> QED
    BY <1>4, <2>1 DEF OpenSucceeds, recovery
<1>5. ASSUME NEW c \in Calls, NEW e \in Errors \ {"none"}, OpenFails(c, e)
      PROVE  TypeOK' /\ (todo' # {} => proc' = "recovering")
  <2>1. \A s \in {"queued", "failed"} :
          [status |-> s, attempts |-> attempt[c], last_error |-> "upstream",
           stale |-> FALSE] \in Rows
    BY DEF Rows, InFlight, Settled
  <2>p. \E s \in {"queued", "failed"} : Mark(c, s, attempt[c], "upstream")
    BY <1>5 DEF OpenFails
  <2>q. PICK s \in {"queued", "failed"} : Mark(c, s, attempt[c], "upstream")
    BY <2>p
  <2>r. PICK r \in Rows : row' = [row EXCEPT ![c] = r]
    BY <2>q, <2>1 DEF Mark
  <2>2. row' \in [Calls -> Rows]
    BY <2>r, <1>c
  <2>3. pc' \in [Calls -> Places] /\ outcome' \in [Calls -> Outcomes]
    BY <1>5 DEF OpenFails, Finish
  <2> QED
    BY <1>5, <2>2, <2>3 DEF OpenFails, recovery
<1>6. ASSUME NEW c \in Calls, MarkFails(c)
      PROVE  TypeOK' /\ (todo' # {} => proc' = "recovering")
  BY <1>6 DEF MarkFails, Finish, recovery
<1>7. ASSUME NEW c \in Calls, EndReading(c)
      PROVE  TypeOK' /\ (todo' # {} => proc' = "recovering")
  <2>1. PICK how \in Outcomes : Finish(c, how)
    BY <1>7 DEF EndReading
  <2> QED
    BY <1>7, <2>1 DEF EndReading, Finish, recovery
<1>8. ASSUME NEW c \in Calls, UserCancels(c)
      PROVE  TypeOK' /\ (todo' # {} => proc' = "recovering")
  BY <1>8 DEF UserCancels, recovery
<1>9. ASSUME NEW c \in Calls, DeadLetter(c)
      PROVE  TypeOK' /\ (todo' # {} => proc' = "recovering")
  <2>1. letters' \in [Calls -> Nat]
    BY <1>9 DEF DeadLetter
  <2>2. /\ todo' \in SUBSET Calls /\ proc' \in Phases
        /\ todo' # {} => proc' = "recovering"
    BY <1>9 DEF DeadLetter
  <2> QED
    BY <1>9, <2>1, <2>2 DEF DeadLetter
<1>10. ASSUME NEW c \in Calls, Age(c)
      PROVE  TypeOK' /\ (todo' # {} => proc' = "recovering")
  <2>0. row[c] \in Rows
    BY <1>10
  <2>1. [row[c] EXCEPT !.stale = TRUE] \in Rows
    BY <2>0 DEF Rows
  <2>2. row' \in [Calls -> Rows]
    BY <1>10, <2>1 DEF Age
  <2> QED
    BY <1>10, <2>2 DEF Age, recovery
<1>11. ASSUME Recover
      PROVE  TypeOK' /\ (todo' # {} => proc' = "recovering")
  <2>1. ASSUME NEW c \in Calls
        PROVE  [row[c] EXCEPT !.status = "failed", !.stale = FALSE,
                              !.last_error = "recovered_on_startup"] \in Rows
    <3>1. row[c] \in Rows
      OBVIOUS
    <3> QED
      BY <3>1 DEF Rows, InFlight, Settled
  <2>2. row' \in [Calls -> Rows]
    BY <1>11, <2>1 DEF Recover
  <2>3. /\ todo' \in SUBSET Calls /\ proc' \in Phases
        /\ todo' # {} => proc' = "recovering"
    BY <1>11 DEF Recover
  <2> QED
    BY <1>11, <2>2, <2>3 DEF Recover
<1>12. ASSUME Crash
      PROVE  TypeOK' /\ (todo' # {} => proc' = "recovering")
  BY <1>12 DEF Crash, recovery
<1>13. ASSUME Boot
      PROVE  TypeOK' /\ (todo' # {} => proc' = "recovering")
  BY <1>13 DEF Boot, recovery
<1>14. ASSUME Quiet \/ UNCHANGED vars
      PROVE  TypeOK' /\ (todo' # {} => proc' = "recovering")
  BY <1>14 DEF Quiet, vars, recovery
<1> QED
  BY <1>1, <1>k, <1>2, <1>3, <1>4, <1>5, <1>6, <1>7, <1>8, <1>9, <1>10, <1>11, <1>12,
     <1>13, <1>14 DEF Next

\* What a step leaves alone about a call goes on holding; that recovery is over
\* is no harm.
LEMMA LeftAlone ==
  ASSUME NEW d \in Calls, CallInv(d),
         row'[d] = row[d], pc'[d] = pc[d], attempt'[d] = attempt[d],
         error'[d] = error[d], outcome'[d] = outcome[d],
         letters'[d] = letters[d], d \in todo' <=> d \in todo,
         proc' \in {proc, "up"}
  PROVE  CallInv(d)'
  BY DEF CallInv, Tracked, Progress, Verdict, Young, Lettered

LEMMA CallPreserved == IInv /\ [Next]_vars => \A d \in Calls : CallInv(d)'
<1> SUFFICES ASSUME IInv, [Next]_vars, NEW d \in Calls PROVE CallInv(d)'
  OBVIOUS
<1>a. /\ TypeOK /\ CallInv(d) /\ (todo # {} => proc = "recovering")
      /\ letters[d] \in Nat /\ attempt[d] \in 0..MaxAttempts
      /\ row[d] \in Rows
  BY DEF IInv, TypeOK
<1> USE ConstantsAssumption, <1>a
<1>1. ASSUME NEW c \in Calls, Create(c) PROVE CallInv(d)'
  <2>1. CASE d # c
    BY <1>1, <2>1, LeftAlone DEF Create, Mark, recovery, TypeOK
  <2>2. CASE d = c
    <3>1. pc'[d] = "created" /\ pc[d] = "new" /\ proc # "down"
      BY <1>1, <2>2 DEF Create, TypeOK
    <3>2. /\ outcome' = outcome /\ letters' = letters /\ todo' = todo
          /\ attempt' = attempt /\ error' = error /\ proc' = proc
      BY <1>1 DEF Create, recovery
    <3>3. attempt[d] = 0 /\ outcome[d] = "none" /\ ~(letters[d] > 0) /\ d \notin todo
      BY <3>1 DEF CallInv, Progress, Lettered
    <3>4. row'[d].status = "created" /\ ~row'[d].stale
      BY <1>1, <2>2 DEF Create, Mark, TypeOK
    <3>5. row'[d].attempts = attempt[d]
      BY <1>1, <2>2, <3>3 DEF Create, Mark, TypeOK
    <3>6. attempt[d] < MaxAttempts
      BY <3>3
    <3> QED
      BY <3>1, <3>2, <3>3, <3>4, <3>5, <3>6
         DEF CallInv, Tracked, Progress, Verdict, Young, Lettered, Live, Pending,
             Settled
  <2> QED
    BY <2>1, <2>2
<1>k. ASSUME NEW c \in Calls, Check(c) PROVE CallInv(d)'
  <2>1. CASE d # c
    BY <1>k, <2>1, LeftAlone DEF Check, recovery, TypeOK
  <2>2. CASE d = c
    BY <1>k, <2>2
       DEF Check, recovery, TypeOK, CallInv, Tracked, Progress, Verdict, Young,
           Lettered, Live, Pending, Settled
  <2> QED
    BY <2>1, <2>2
<1>2. ASSUME NEW c \in Calls, StartAttempt(c) PROVE CallInv(d)'
  <2>1. CASE d # c
    BY <1>2, <2>1, LeftAlone DEF StartAttempt, Mark, recovery, TypeOK
  <2>2. CASE d = c
    BY <1>2, <2>2
       DEF StartAttempt, Mark, recovery, TypeOK, CallInv, Tracked, Progress, Verdict,
           Young, Lettered, Live, Pending, Settled
  <2> QED
    BY <2>1, <2>2
<1>3. ASSUME NEW c \in Calls, Abandon(c) PROVE CallInv(d)'
  <2>1. CASE d # c
    BY <1>3, <2>1, LeftAlone DEF Abandon, Finish, recovery, TypeOK
  <2>2. CASE d = c
    BY <1>3, <2>2
       DEF Abandon, Finish, recovery, TypeOK, CallInv, Tracked, Progress, Verdict,
           Young, Lettered, Live, Pending, Settled
  <2> QED
    BY <2>1, <2>2
<1>4. ASSUME NEW c \in Calls, OpenSucceeds(c) PROVE CallInv(d)'
  <2>1. CASE d # c
    BY <1>4, <2>1, LeftAlone DEF OpenSucceeds, Mark, recovery, TypeOK
  <2>2. CASE d = c
    BY <1>4, <2>2
       DEF OpenSucceeds, Mark, recovery, TypeOK, CallInv, Tracked, Progress, Verdict,
           Young, Lettered, Live, Pending, Settled
  <2> QED
    BY <2>1, <2>2
<1>5. ASSUME NEW c \in Calls, NEW e \in Errors \ {"none"}, OpenFails(c, e) PROVE CallInv(d)'
  <2>1. CASE d # c
    BY <1>5, <2>1, LeftAlone DEF OpenFails, MayRetry, Mark, Finish, recovery, TypeOK
  <2>2. CASE d = c
    <3>1. CASE MayRetry(c, e)
      BY <1>5, <2>2, <3>1
         DEF OpenFails, MayRetry, Mark, recovery, TypeOK, CallInv, Tracked, Progress,
             Verdict, Young, Lettered, Live, Pending, Settled
    <3>2. CASE ~MayRetry(c, e)
      <4>1. row'[d] = [status |-> "failed", attempts |-> attempt[d],
                       last_error |-> "upstream", stale |-> FALSE]
        BY <1>5, <2>2, <3>2 DEF OpenFails, Mark, TypeOK
      <4>2. /\ pc'[d] = "done" /\ outcome'[d] = "upstream_error" /\ error'[d] = e
            /\ e = "fatal" \/ attempt[d] = MaxAttempts
        BY <1>5, <2>2, <3>2 DEF OpenFails, Finish, TypeOK, MayRetry, Errors
      <4>3. letters'[d] = letters[d] /\ todo' = todo /\ pc[d] = "opening"
        BY <1>5, <2>2 DEF OpenFails, recovery
      <4> QED
        BY <4>1, <4>2, <4>3
           DEF CallInv, Tracked, Progress, Verdict, Young, Lettered, Live, Pending,
               Settled
    <3> QED
      BY <3>1, <3>2
  <2> QED
    BY <2>1, <2>2
<1>6. ASSUME NEW c \in Calls, MarkFails(c) PROVE CallInv(d)'
  <2>1. CASE d # c
    BY <1>6, <2>1, LeftAlone DEF MarkFails, Finish, recovery, TypeOK
  <2>2. CASE d = c
    BY <1>6, <2>2
       DEF MarkFails, Finish, recovery, TypeOK, CallInv, Tracked, Progress, Verdict,
           Young, Lettered, Live, Pending, Settled
  <2> QED
    BY <2>1, <2>2
<1>7. ASSUME NEW c \in Calls, EndReading(c) PROVE CallInv(d)'
  <2>1. CASE d # c
    BY <1>7, <2>1, LeftAlone DEF EndReading, Finish, recovery, TypeOK
  <2>2. CASE d = c
    <3>1. /\ pc'[d] = "done" /\ pc[d] = "reading"
          /\ outcome'[d] \in {"response", "upstream_error", "cancelled"}
      BY <1>7, <2>2 DEF EndReading, Finish, TypeOK
    <3>2. /\ row' = row /\ letters' = letters /\ todo' = todo
          /\ attempt' = attempt /\ error' = error
      BY <1>7 DEF EndReading, recovery
    <3> QED
      BY <3>1, <3>2
         DEF CallInv, Tracked, Progress, Verdict, Young, Lettered, Live, Pending,
             Settled
  <2> QED
    BY <2>1, <2>2
<1>8. ASSUME NEW c \in Calls, UserCancels(c) PROVE CallInv(d)'
  BY <1>8, LeftAlone DEF UserCancels, recovery
<1>9. ASSUME NEW c \in Calls, DeadLetter(c) PROVE CallInv(d)'
  <2>1. CASE d # c
    BY <1>9, <2>1, LeftAlone DEF DeadLetter, recovery, TypeOK
  <2>2. CASE d = c
    <3>1. /\ letters'[d] \in {letters[d], letters[d] + 1}
          /\ d \in todo /\ d \notin todo' /\ proc' \in {proc, "up"}
      BY <1>9, <2>2 DEF DeadLetter, TypeOK
    <3>2. /\ row' = row /\ pc' = pc /\ outcome' = outcome
          /\ attempt' = attempt /\ error' = error
      BY <1>9 DEF DeadLetter
    <3> QED
      BY <3>1, <3>2
         DEF CallInv, Tracked, Progress, Verdict, Young, Lettered, Live, Pending,
             Settled
  <2> QED
    BY <2>1, <2>2
<1>10. ASSUME NEW c \in Calls, Age(c) PROVE CallInv(d)'
  <2>1. CASE d # c
    BY <1>10, <2>1, LeftAlone DEF Age, recovery, TypeOK
  <2>2. CASE d = c
    <3>1. row'[d] = [row[d] EXCEPT !.stale = TRUE]
      BY <1>10, <2>2 DEF Age, TypeOK
    <3>2. /\ row'[d].status = row[d].status /\ row'[d].attempts = row[d].attempts
          /\ row'[d].last_error = row[d].last_error
      BY <3>1 DEF Rows
    <3> QED
      BY <1>10, <3>2
         DEF Age, recovery, CallInv, Tracked, Progress, Verdict, Young, Lettered,
             Live, Pending, Settled
  <2> QED
    BY <2>1, <2>2
<1>11. ASSUME Recover PROVE CallInv(d)'
  <2>1. CASE row' = row /\ todo' = todo
    BY <1>11, <2>1, LeftAlone DEF Recover
  <2>2. CASE ~Orphan(d) /\ ~(row' = row /\ todo' = todo)
    <3>1. row'[d] = row[d] /\ d \notin todo' /\ d \notin todo /\ proc' \in {proc, "up"}
      BY <1>11, <2>2 DEF Recover
    <3> QED
      BY <1>11, <3>1, LeftAlone DEF Recover
  <2>3. CASE Orphan(d) /\ ~(row' = row /\ todo' = todo)
    <3>1. /\ row'[d].status = "failed" /\ row'[d].stale = FALSE
          /\ row'[d].last_error = "recovered_on_startup"
      <4>1. row'[d] = [row[d] EXCEPT !.status = "failed", !.stale = FALSE,
                                     !.last_error = "recovered_on_startup"]
        BY <1>11, <2>3 DEF Recover
      <4> QED
        BY <4>1 DEF Rows
    <3>2. pc[d] = "done" /\ outcome[d] \in {"crashed", "db_error", "cancelled"}
      BY <1>11, <2>3
         DEF Recover, Orphan, TypeOK, Places, Outcomes, InFlight, CallInv, Tracked,
             Progress, Verdict, Young, Lettered, Live, Pending, Settled
    <3>3. letters[d] = 0
      BY <2>3 DEF Orphan, InFlight, CallInv, Lettered
    <3>4. /\ pc' = pc /\ outcome' = outcome /\ letters' = letters
          /\ attempt' = attempt /\ error' = error
      BY <1>11 DEF Recover
    <3> QED
      BY <3>1, <3>2, <3>3, <3>4
         DEF CallInv, Tracked, Progress, Verdict, Young, Lettered, Live, Pending,
             Settled
  <2> QED
    BY <2>1, <2>2, <2>3
<1>12. ASSUME Crash PROVE CallInv(d)'
  <2>1. CASE pc[d] \in Live
    BY <1>12, <2>1
       DEF Crash, CallInv, Tracked, Progress, Verdict, Young, Lettered, Live,
           Pending, Settled
  <2>2. CASE pc[d] \notin Live
    BY <1>12, <2>2
       DEF Crash, CallInv, Tracked, Progress, Verdict, Young, Lettered, Live,
           Pending, Settled
  <2> QED
    BY <2>1, <2>2
<1>13. ASSUME Boot PROVE CallInv(d)'
  BY <1>13
     DEF Boot, CallInv, Tracked, Progress, Verdict, Young, Lettered, Live, Pending,
         Settled
<1>14. ASSUME Quiet \/ UNCHANGED vars PROVE CallInv(d)'
  BY <1>14, LeftAlone DEF Quiet, vars, recovery
<1> QED
  BY <1>1, <1>k, <1>2, <1>3, <1>4, <1>5, <1>6, <1>7, <1>8, <1>9, <1>10, <1>11, <1>12,
     <1>13, <1>14 DEF Next

THEOREM Invariance == Spec => []IInv
<1>1. IInv /\ [Next]_vars => IInv'
  BY TypePreserved, CallPreserved DEF IInv
<1> QED
  BY Initially, <1>1, PTL DEF Spec

-----------------------------------------------------------------------------
(***************************************************************************)
(* Type correctness of the rows, the threads and the recovery.             *)
(***************************************************************************)
THEOREM TypeCorrect == Spec => []TypeOK
<1>1. IInv => TypeOK
  BY DEF IInv
<1> QED
  BY Invariance, <1>1, PTL

(***************************************************************************)
(* The row of a call that is still running says where its thread is, also  *)
(* while recovery runs beside it.                                          *)
(***************************************************************************)
THEOREM RowTracksThreadHolds == Spec => []RowTracksThread
<1>1. IInv => RowTracksThread
  BY DEF IInv, CallInv, Tracked, RowTracksThread
<1> QED
  BY Invariance, <1>1, PTL

(***************************************************************************)
(* A failed row never stands for a success, and an upstream failure is     *)
(* final only when a retry was not worth it or none was left.              *)
(***************************************************************************)
THEOREM FailedRowsHold == Spec => []FailedRowsGaveUp
<1>1. IInv => FailedRowsGaveUp
  BY DEF IInv, CallInv, Verdict, FailedRowsGaveUp
<1> QED
  BY Invariance, <1>1, PTL

(***************************************************************************)
(* A call is dead-lettered by recovery at most once, whatever number of    *)
(* crashes interrupts it, and never one that got its response or an error. *)
(***************************************************************************)
THEOREM RecoveredOnceHolds == Spec => []RecoveredOnce
<1>1. IInv => RecoveredOnce
  <2> SUFFICES ASSUME IInv, NEW c \in Calls
               PROVE  /\ letters[c] + (IF c \in todo THEN 1 ELSE 0) <= 1
                      /\ letters[c] > 0 =>
                           /\ row[c].last_error = "recovered_on_startup"
                           /\ outcome[c] \in {"crashed", "db_error", "cancelled"}
    BY DEF RecoveredOnce
  <2>1. letters[c] \in Nat /\ Lettered(c)
    BY DEF IInv, CallInv, TypeOK
  <2> QED
    BY <2>1 DEF Lettered
<1> QED
  BY Invariance, <1>1, PTL

-----------------------------------------------------------------------------
(***************************************************************************)
(* What is settled stays settled: no retry, late answer or recovery writes *)
(* a row again that has its outcome.                                       *)
(***************************************************************************)
THEOREM SettledStay == Spec => SettledRowsStay
<1>1. IInv /\ [Next]_vars =>
        [\A c \in Calls :
           row[c].status \in Settled =>
             /\ row'[c].status = row[c].status
             /\ row'[c].last_error = row[c].last_error]_vars
  <2> SUFFICES ASSUME IInv, [Next]_vars, NEW d \in Calls, row[d].status \in Settled
               PROVE  /\ row'[d].status = row[d].status
                      /\ row'[d].last_error = row[d].last_error
    OBVIOUS
  <2> USE DEF IInv, TypeOK, CallInv, Tracked, Progress, Rows, Live, Pending, InFlight, Settled
  <2>1. ASSUME NEW c \in Calls,
               \/ Create(c) \/ StartAttempt(c) \/ OpenSucceeds(c) \/ Age(c)
               \/ \E e \in Errors \ {"none"} : OpenFails(c, e)
        PROVE  /\ row'[d].status = row[d].status
               /\ row'[d].last_error = row[d].last_error
    <3>1. CASE c = d
      BY <2>1, <3>1 DEF Create, StartAttempt, OpenSucceeds, Age, OpenFails, Mark
    <3>2. CASE c # d
      BY <2>1, <3>2 DEF Create, StartAttempt, OpenSucceeds, Age, OpenFails, Mark
    <3> QED
      BY <3>1, <3>2
  <2>2. ASSUME Recover
        PROVE  /\ row'[d].status = row[d].status
               /\ row'[d].last_error = row[d].last_error
    <3>1. ~Orphan(d)
      BY DEF Orphan
    <3>2. row' = row \/ row'[d] = row[d]
      BY <2>2, <3>1 DEF Recover
    <3> QED
      BY <3>2
  <2>3. ASSUME UNCHANGED row
        PROVE  /\ row'[d].status = row[d].status
               /\ row'[d].last_error = row[d].last_error
    BY <2>3
  <2> HIDE DEF IInv
  <2> QED
    BY <2>1, <2>2, <2>3
       DEF Next, Check, Abandon, MarkFails, EndReading, UserCancels, DeadLetter, Crash,
           Boot, Quiet, vars
<1> QED
  BY Invariance, <1>1, PTL DEF Spec, SettledRowsStay
=============================================================================
