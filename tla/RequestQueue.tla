---------------------------- MODULE RequestQueue ----------------------------
(***************************************************************************)
(* infra/gateway/resiliency.py: open_with_resiliency, which opens one      *)
(* upstream request with retries and keeps a row of the durable table      *)
(* request_queue_items in step with it, and scheduler.recover_orphans,     *)
(* which app.prepare_and_start runs on boot over the rows a previous       *)
(* process left behind.                                                    *)
(*                                                                         *)
(* A call is one thread inside open_with_resiliency and then in the body   *)
(* of the with statement of deepseek_client.  The row is on disk; the      *)
(* thread is lost in a crash.  An SQLite statement is one step: it holds   *)
(* _DB_LOCK and commits on leaving the with block.                         *)
(***************************************************************************)
EXTENDS Integers, FiniteSets

CONSTANTS
  Calls,        \* upstream calls, each with its own row (queue_id)
  Streams,      \* those that pass a cancel_checker
  MaxAttempts,  \* GATEWAY_REQUEST_QUEUE_MAX_ATTEMPTS
  MaxCrashes    \* bound on the crashes of one behaviour

ASSUME ConstantsAssumption ==
  /\ IsFiniteSet(Calls)
  /\ Streams \subseteq Calls
  /\ MaxAttempts \in Nat \ {0}
  /\ MaxCrashes \in Nat

VARIABLES
  row,      \* row[c]: the row of c, its payload left out
  pc,       \* where the thread of c is: see Places
  attempt,  \* the loop variable of open_with_resiliency
  error,    \* the exception the last urlopen of c raised
  outcome,  \* how c ended
  cancel,   \* calls whose cancel event is set
  letters,  \* letters[c]: dead letters "recovered_on_startup" keyed by c
  proc,     \* the server process: see Phases
  todo,     \* orphans marked failed and not yet dead-lettered
  crashes   \* crashes so far

recovery == <<letters, proc, todo, crashes>>
vars == <<row, pc, attempt, error, outcome, cancel, recovery>>

\* "checked" is past the check at the top of the loop, "asleep" the backoff
\* between two attempts; "reading" the with body.
Places   == {"new", "created", "checked", "opening", "asleep", "reading", "done"}
Pending  == {"created", "asleep"}
Live     == {"created", "checked", "opening", "asleep", "reading"}
\* Serving starts only after recovery, but auto-resumed agent runs already
\* make calls during it.
Phases   == {"recovering", "up", "down"}
Outcomes == {"none", "response", "upstream_error", "db_error", "cancelled",
             "crashed"}
\* "fatal" is an error is_retryable_exception says no to.
Errors   == {"none", "retryable", "fatal"}
InFlight == {"created", "running", "queued"}
Settled  == {"succeeded", "failed"}
Rows     == [status : InFlight \cup Settled \cup {"none"},
             attempts : 0..MaxAttempts,
             last_error : {"", "upstream", "recovered_on_startup"},
             stale : BOOLEAN]

Init ==
  /\ row = [c \in Calls |-> [status |-> "none", attempts |-> 0,
                             last_error |-> "", stale |-> FALSE]]
  /\ pc = [c \in Calls |-> "new"]
  /\ attempt = [c \in Calls |-> 0]
  /\ error = [c \in Calls |-> "none"]
  /\ outcome = [c \in Calls |-> "none"]
  /\ cancel = {}
  /\ letters = [c \in Calls |-> 0]
  /\ proc = "recovering" /\ todo = {} /\ crashes = 0
----------------------------------------------------------------------------
\* _update_item: every write refreshes updated_at.
Mark(c, s, n, e) ==
  row' = [row EXCEPT ![c] = [status |-> s, attempts |-> n, last_error |-> e,
                             stale |-> FALSE]]

Finish(c, how) ==
  /\ pc' = [pc EXCEPT ![c] = "done"]
  /\ outcome' = [outcome EXCEPT ![c] = how]

Create(c) ==
  /\ pc[c] = "new" /\ proc # "down"
  /\ Mark(c, "created", 0, "")
  /\ pc' = [pc EXCEPT ![c] = "created"]
  /\ UNCHANGED <<attempt, error, outcome, cancel, recovery>>

\* The top of the loop: not cancelled (yet).
Check(c) ==
  /\ pc[c] \in Pending /\ c \notin cancel
  /\ pc' = [pc EXCEPT ![c] = "checked"]
  /\ UNCHANGED <<row, attempt, error, outcome, cancel, recovery>>

\* The row is marked running and the request sent, also if the user has
\* cancelled since the check.
StartAttempt(c) ==
  /\ pc[c] = "checked"
  /\ attempt' = [attempt EXCEPT ![c] = @ + 1]
  /\ Mark(c, "running", attempt[c] + 1, row[c].last_error)
  /\ pc' = [pc EXCEPT ![c] = "opening"]
  /\ UNCHANGED <<error, outcome, cancel, recovery>>

\* The check at the top of the loop, the one in sleep_with_cancel, or the
\* notice of the retry that cannot be emitted any more.
Abandon(c) ==
  /\ pc[c] \in Pending /\ c \in cancel
  /\ Finish(c, "cancelled")
  /\ UNCHANGED <<row, attempt, error, cancel, recovery>>

OpenSucceeds(c) ==
  /\ pc[c] = "opening"
  /\ Mark(c, "succeeded", attempt[c], "")
  /\ pc' = [pc EXCEPT ![c] = "reading"]
  /\ UNCHANGED <<attempt, error, outcome, cancel, recovery>>

MayRetry(c, e) == e = "retryable" /\ attempt[c] < MaxAttempts

OpenFails(c, e) ==
  /\ pc[c] = "opening"
  /\ error' = [error EXCEPT ![c] = e]
  /\ \/ /\ MayRetry(c, e)
        /\ Mark(c, "queued", attempt[c], "upstream")
        /\ pc' = [pc EXCEPT ![c] = "asleep"]
        /\ UNCHANGED outcome
     \/ /\ ~MayRetry(c, e)
        /\ Mark(c, "failed", attempt[c], "upstream")
        /\ Finish(c, "upstream_error")
  /\ UNCHANGED <<attempt, cancel, recovery>>

\* Any of the _mark_* calls raises (the database is locked): the exception
\* leaves open_with_resiliency and the row stays as it was.
MarkFails(c) ==
  /\ pc[c] \in {"checked", "opening"}
  /\ Finish(c, "db_error")
  /\ UNCHANGED <<row, attempt, error, cancel, recovery>>

\* The body of the with statement; the row is not written any more.
EndReading(c) ==
  /\ pc[c] = "reading"
  /\ \/ Finish(c, "response")
     \/ Finish(c, "upstream_error")
     \/ c \in cancel /\ Finish(c, "cancelled")
  /\ UNCHANGED <<row, attempt, error, cancel, recovery>>

UserCancels(c) ==
  /\ c \in Streams \ cancel /\ pc[c] \in Live
  /\ cancel' = cancel \cup {c}
  /\ UNCHANGED <<row, pc, attempt, error, outcome, recovery>>
----------------------------------------------------------------------------
\* Mutants of Orphan: the cutoff, or the status filter, is left out.
OrphanAnyAge(c)    == row[c].status \in InFlight
OrphanAnyStatus(c) == row[c].status # "none" /\ row[c].stale

\* The WHERE clause of recover_orphans.
Orphan(c) == row[c].status \in InFlight /\ row[c].stale

\* Mutant of Recover: the orphans are read but not marked.
RecoverUnmarked ==
  /\ proc = "recovering" /\ todo = {}
  /\ LET orphans == {c \in Calls : Orphan(c)} IN
       /\ todo' = orphans
       /\ proc' = IF orphans = {} THEN "up" ELSE "recovering"
  /\ UNCHANGED <<row, pc, attempt, error, outcome, cancel, letters, crashes>>

\* One transaction marks every orphan failed; an sqlite error marks none.
Recover ==
  /\ proc = "recovering" /\ todo = {}
  /\ LET orphans == {c \in Calls : Orphan(c)} IN
       \/ /\ row' = [c \in Calls |->
                       IF c \in orphans
                       THEN [row[c] EXCEPT
                               !.status = "failed", !.stale = FALSE,
                               !.last_error = "recovered_on_startup"]
                       ELSE row[c]]
          /\ todo' = orphans
          /\ proc' = IF orphans = {} THEN "up" ELSE "recovering"
       \/ /\ proc' = "up"
          /\ UNCHANGED <<row, todo>>
  /\ UNCHANGED <<pc, attempt, error, outcome, cancel, letters, crashes>>

\* Best effort, one by one, after the commit.
DeadLetter(c) ==
  /\ proc = "recovering" /\ c \in todo
  /\ letters' \in {letters, [letters EXCEPT ![c] = @ + 1]}
  /\ todo' = todo \ {c}
  /\ proc' = IF todo = {c} THEN "up" ELSE "recovering"
  /\ UNCHANGED <<row, pc, attempt, error, outcome, cancel, crashes>>

Crash ==
  /\ proc # "down" /\ crashes < MaxCrashes
  /\ crashes' = crashes + 1
  /\ proc' = "down" /\ todo' = {}
  /\ pc' = [c \in Calls |-> IF pc[c] \in Live THEN "done" ELSE pc[c]]
  /\ outcome' = [c \in Calls |-> IF pc[c] \in Live THEN "crashed"
                                                   ELSE outcome[c]]
  /\ UNCHANGED <<row, attempt, error, cancel, letters>>

Boot ==
  /\ proc = "down"
  /\ proc' = "recovering"
  /\ UNCHANGED <<row, pc, attempt, error, outcome, cancel, letters, todo, crashes>>

\* updated_at falls SCHEDULER_ORPHAN_SECONDS (15 minutes) behind the clock.
\* The boot sequence is shorter than that.
Age(c) ==
  /\ proc # "recovering"
  /\ row[c].status # "none" /\ ~row[c].stale
  /\ row' = [row EXCEPT ![c].stale = TRUE]
  /\ UNCHANGED <<pc, attempt, error, outcome, cancel, recovery>>

Quiet ==
  /\ proc = "up" /\ \A c \in Calls : pc[c] = "done"
  /\ UNCHANGED vars

Next ==
  \/ \E c \in Calls :
       \/ Create(c) \/ Check(c) \/ StartAttempt(c) \/ Abandon(c)
       \/ OpenSucceeds(c) \/ \E e \in Errors \ {"none"} : OpenFails(c, e)
       \/ MarkFails(c) \/ EndReading(c) \/ UserCancels(c)
       \/ DeadLetter(c) \/ Age(c)
  \/ Recover \/ Crash \/ Boot \/ Quiet

Spec == Init /\ [][Next]_vars

\* Backoff sleeps end and urlopen has a timeout.  Nothing is assumed of the
\* body of the with statement, of the users or of the operator who restarts
\* the process.
Opening(c) == OpenSucceeds(c) \/ \E e \in Errors \ {"none"} : OpenFails(c, e)
Fairness ==
  \A c \in Calls : /\ WF_vars(Check(c) \/ StartAttempt(c) \/ Abandon(c))
                  /\ WF_vars(Opening(c))

FairSpec == Spec /\ Fairness
----------------------------------------------------------------------------
\* The rows and threads have the shape the table and the code give them.
TypeOK ==
  /\ row \in [Calls -> Rows]
  /\ pc \in [Calls -> Places]
  /\ attempt \in [Calls -> 0..MaxAttempts]
  /\ error \in [Calls -> Errors]
  /\ outcome \in [Calls -> Outcomes]
  /\ cancel \in SUBSET Streams
  /\ letters \in [Calls -> Nat]
  /\ proc \in Phases /\ todo \in SUBSET Calls /\ crashes \in 0..MaxCrashes

(***************************************************************************)
(* The row of a call that is still running says where its thread is, even  *)
(* while recovery runs beside the calls of auto-resumed agent runs: only   *)
(* the cutoff on updated_at keeps recovery away from them.                 *)
(***************************************************************************)
RowTracksThread ==
  \A c \in Calls :
    /\ pc[c] \in Live => row[c].attempts = attempt[c]
    /\ pc[c] = "created" => row[c].status = "created"
    /\ pc[c] = "checked" => row[c].status \in {"created", "queued"}
    /\ pc[c] = "opening" => row[c].status = "running"
    /\ pc[c] = "asleep"  => row[c].status = "queued"
    /\ pc[c] = "reading" => row[c].status = "succeeded"

(***************************************************************************)
(* A failed row never stands for a success, and a row that failed upstream *)
(* failed for good: the error was not worth a retry or every attempt was   *)
(* used.                                                                   *)
(***************************************************************************)
FailedRowsGaveUp ==
  \A c \in Calls :
    row[c].status = "failed" =>
      /\ outcome[c] # "response"
      /\ row[c].last_error = "upstream" =>
           error[c] = "fatal" \/ row[c].attempts = MaxAttempts

(***************************************************************************)
(* Recovery is idempotent across crashes, also a crash between the commit  *)
(* and the dead letters: a call is dead-lettered at most once, and only a  *)
(* row that recovery itself settled is: never that of a call that still    *)
(* runs, that got its response, or whose caller was told of the failure of *)
(* the upstream.  (A stream cancelled during a retry leaves its row behind *)
(* as well, and is dead-lettered like a crashed one.)                      *)
(***************************************************************************)
RecoveredOnce ==
  \A c \in Calls :
    /\ letters[c] + (IF c \in todo THEN 1 ELSE 0) <= 1
    /\ letters[c] > 0 =>
         /\ row[c].last_error = "recovered_on_startup"
         /\ outcome[c] \in {"crashed", "db_error", "cancelled"}

(***************************************************************************)
(* What is settled stays settled: no later retry, late answer or recovery  *)
(* rewrites the outcome of a row.                                          *)
(***************************************************************************)
SettledRowsStay ==
  [][\A c \in Calls :
       row[c].status \in Settled =>
         /\ row'[c].status = row[c].status
         /\ row'[c].last_error = row[c].last_error]_vars

============================================================================
