----------------------------- MODULE ChatStream -----------------------------
(***************************************************************************)
(* The life of an answer in infra/gateway/deepseek_client.py:              *)
(* stream_deepseek with its rounds of tool calls, call_deepseek, the       *)
(* cascade of two calls, the local (edge) model that takes over when the   *)
(* provider cannot be reached, and around them chat_event_stream of        *)
(* web/server.py: a worker thread that puts events on a queue and a        *)
(* generator that hands them to the client.                                *)
(*                                                                         *)
(* Two modules appear here as their callers see them.  The scheduler is a  *)
(* line of requests of one priority (AdmissionControl says what it         *)
(* promises); open_with_resiliency is the attempts of RequestQueue without *)
(* their rows, and it runs inside the lease.  emit_checked looks at the    *)
(* cancel event before and after it puts an event, so every step of a      *)
(* streaming worker starts by that look; what it then does comes later:    *)
(* between _check_cancel and urlopen, and between raise_if_cancelled and   *)
(* the tools, the event may be set and they are started all the same.      *)
(***************************************************************************)
EXTENDS Integers, Sequences, FiniteSets, SequencesExt

CONSTANTS
  Requests,
  Mixes,          \* what the requests may be, together: see Bodies
  MaxToolRounds,  \* MAX_TOOL_ROUNDS
  MaxAttempts,    \* GATEWAY_REQUEST_QUEUE_MAX_ATTEMPTS
  Slots,          \* SCHEDULER_MAX_CONCURRENCY
  MaxChunks       \* bound on the content chunks of one answer

\* A request streams, is a cascade or is answered in one piece; its body may
\* offer tools (and is never cached then), and edge_fallback_route may have a
\* local model for it.
Bodies ==
  [kind : {"stream", "cascade", "json"}, tooled : BOOLEAN, local : BOOLEAN]

ASSUME ConstantsAssumption ==
  /\ IsFiniteSet(Requests) /\ Mixes \subseteq [Requests -> Bodies]
  /\ MaxToolRounds \in Nat /\ MaxChunks \in Nat
  /\ MaxAttempts \in Nat \ {0} /\ Slots \in Nat \ {0}

VARIABLES
  body,     \* what each request is
  pc,       \* where the worker of a request is: see Places
  line,     \* requests waiting in scheduler.lease, first come first
  holders,  \* requests that hold a slot
  round,    \* tool_round of the loop
  attempt,  \* attempts of the open_with_resiliency of this round
  finish,   \* last_finish_reason of a stream, as far as it is "length"
  text,     \* chunks in the answer that is being built
  tools,    \* tool turns executed
  pass,     \* which call of a cascade this is
  sent,     \* events put on the queue: chunks by number, done with its content
  client,   \* how the generator of a request stands with its client
  due,      \* what a stream had checked for when its cancel event was set, less
            \* what it has started since (no variable of the code)
  cache     \* semantic cache entries for the prompt all requests share: of the
            \* usual model, and of the refining model of a cascade

call == <<round, attempt, finish, text, tools, pass>>
gate == <<line, holders>>
vars == <<body, pc, gate, call, sent, client, due, cache>>

Kind(r)  == body[r].kind
Streams  == {r \in Requests : Kind(r) = "stream"}
Browsed  == {r \in Requests : Kind(r) # "json"}
Tooled   == {r \in Requests : body[r].tooled}
Local    == {r \in Requests : body[r].local}
Checked  == {"checked", "called"}  \* for a request, for a turn of tools
InLease  == {"checked", "opening", "asleep", "reading"}
Places   == {"start", "waiting", "called", "tools", "settling", "edge", "judge",
             "done", "replay", "closing", "end"} \cup InLease
Clients  == {"on", "served", "left"}
Content(n) == [type |-> "content", n |-> n]
Done(n)    == [type |-> "done", n |-> n]
Note     == [type |-> "note", n |-> 0]
Failure  == [type |-> "error", n |-> 0]
Sentinel == [type |-> "none", n |-> 0]
NoEntry  == [by |-> "nobody", n |-> 0]

Init ==
  /\ body \in Mixes
  /\ pc = [r \in Requests |-> "start"]
  /\ line = <<>> /\ holders = {}
  /\ round = [r \in Requests |-> 0] /\ attempt = [r \in Requests |-> 0]
  /\ finish = [r \in Requests |-> ""] /\ text = [r \in Requests |-> 0]
  /\ tools = [r \in Requests |-> 0] /\ pass = [r \in Requests |-> 1]
  /\ sent = [r \in Requests |-> <<>>]
  /\ client = [r \in Requests |-> "on"]
  /\ due = [r \in Requests |-> 0]
  /\ cache = [p \in 1..2 |-> NoEntry]
----------------------------------------------------------------------------
\* Requests whose cancel event is set: by the finally clause of the generator.
cancel == {r \in Requests : client[r] # "on"}

\* raise_if_cancelled; a cascade and a JSON call have no cancel event.
Goes(r) == r \notin Streams \/ r \notin cancel

\* Only a streaming worker tells of its progress.  Of the notes, searches and
\* retries it tells of, the first is kept: there is something to hand over.
Emit(r, event) ==
  sent' = IF r \in Streams THEN [sent EXCEPT ![r] = Append(@, event)] ELSE sent
Tell(r) == IF sent[r] = <<>> THEN Emit(r, Note) ELSE UNCHANGED sent

Move(r, p) == pc' = [pc EXCEPT ![r] = p]

\* The end of the with statement, however it is left.
LeaveLease(r) == holders' = holders \ {r} /\ line' = Remove(line, r)

\* Mutant of NextRound: a stream, too, forgets what earlier rounds said.
NextRoundForgets(r) ==
  /\ line' = Append(line, r)
  /\ text' = [text EXCEPT ![r] = 0]
  /\ Move(r, "waiting")

\* The top of the loop: the next request is made under a new lease, and a call
\* that does not stream only keeps the answer of the last one.
NextRound(r) ==
  /\ line' = Append(line, r)
  /\ text' = IF r \in Streams THEN text ELSE [text EXCEPT ![r] = 0]
  /\ Move(r, "waiting")

\* An exception other than RequestCancelled is reported as an error event:
\* by a handler of stream_deepseek, or by the worker for a cascade.
Report(r) ==
  /\ sent' = [sent EXCEPT ![r] = Append(@, Failure)]
  /\ Move(r, "closing")
  /\ LeaveLease(r)

\* (edge_fallback_route) Only a URLError, and only with a local model.
\* (Mutant: the local model is started inside the with statement.)
FallBackInLease(r) ==
  /\ r \in Local
  /\ text' = [text EXCEPT ![r] = 0]
  /\ Tell(r)
  /\ Move(r, "edge")
  /\ UNCHANGED gate
FallBack(r) ==
  /\ r \in Local
  /\ text' = [text EXCEPT ![r] = 0]
  /\ Tell(r)
  /\ Move(r, "edge")
  /\ LeaveLease(r)

Cacheable(r) == r \notin Tooled
Hit(r) == Cacheable(r) /\ cache[pass[r]] # NoEntry

\* Where a result goes: a cascade judges it first.
Answered(r) == IF Kind(r) = "cascade" THEN "judge" ELSE "done"
----------------------------------------------------------------------------
\* Validation, context and search either raise or give a body; the cache is
\* asked once, before the first round.
Start(r) ==
  /\ pc[r] = "start" /\ Goes(r)
  /\ \/ /\ Hit(r)
        /\ text' = [text EXCEPT ![r] = 1]
        /\ Emit(r, Content(1))
        /\ Move(r, Answered(r))
        /\ UNCHANGED gate
     \/ /\ ~Hit(r)
        /\ NextRound(r)
        /\ UNCHANGED <<holders, sent>>
     \/ Report(r) /\ UNCHANGED text
     \/ /\ r \in Local                        \* the edge route is taken at once
        /\ Tell(r)
        /\ Move(r, "edge")
        /\ UNCHANGED <<gate, text>>
  /\ UNCHANGED <<body, round, attempt, finish, tools, pass, client, due, cache>>

\* The scheduler lets the first of the line in, and open_with_resiliency looks
\* once more before its first attempt.
Acquire(r) ==
  /\ pc[r] = "waiting" /\ Goes(r)
  /\ line # <<>> /\ Head(line) = r /\ Cardinality(holders) < Slots
  /\ line' = Tail(line) /\ holders' = holders \cup {r}
  /\ attempt' = [attempt EXCEPT ![r] = 1]
  /\ Move(r, "checked")
  /\ UNCHANGED <<body, round, finish, text, tools, pass, sent,
                 client, due, cache>>

\* It is full, or the wait lasted longer than acquire_timeout.
Refused(r) ==
  /\ pc[r] = "waiting" /\ Goes(r)
  /\ Report(r)
  /\ UNCHANGED <<body, call, client, due, cache>>

\* What a stream starts counts against what it had checked for.
Starts(r) ==
  due' = IF r \in Streams \cap cancel THEN [due EXCEPT ![r] = @ - 1] ELSE due

\* _mark_running and urlopen.
Send(r) ==
  /\ pc[r] = "checked"
  /\ Move(r, "opening")
  /\ Starts(r)
  /\ UNCHANGED <<body, gate, call, sent, client, cache>>

Opened(r) ==
  /\ pc[r] = "opening" /\ Goes(r)
  /\ Move(r, "reading")
  /\ UNCHANGED <<body, gate, call, sent, client, due, cache>>

\* A retry is announced and slept for with the slot in hand; the last
\* failure is an error, or the local model's turn.
OpenFails(r) ==
  /\ pc[r] = "opening" /\ Goes(r)
  /\ \/ /\ attempt[r] < MaxAttempts
        /\ Tell(r)
        /\ Move(r, "asleep")
        /\ UNCHANGED <<gate, text>>
     \/ Report(r) /\ UNCHANGED text
     \/ attempt[r] = MaxAttempts /\ FallBack(r)
  /\ UNCHANGED <<body, round, attempt, finish, tools, pass, client, due, cache>>

\* Mutant of Wake: the attempt is not counted.
WakeUncounted(r) ==
  /\ pc[r] = "asleep" /\ Goes(r)
  /\ Move(r, "checked")
  /\ UNCHANGED <<body, gate, call, sent, client, due, cache>>

\* Mutant of Wake: the event is not looked at after the sleep.
WakeUnchecked(r) ==
  /\ pc[r] = "asleep"
  /\ attempt' = [attempt EXCEPT ![r] = @ + 1]
  /\ Move(r, "checked")
  /\ UNCHANGED <<body, gate, round, finish, text, tools, pass, sent,
                 client, due, cache>>

Wake(r) ==
  /\ pc[r] = "asleep" /\ Goes(r)
  /\ attempt' = [attempt EXCEPT ![r] = @ + 1]
  /\ Move(r, "checked")
  /\ UNCHANGED <<body, gate, round, finish, text, tools, pass, sent,
                 client, due, cache>>

Chunk(r) ==
  /\ pc[r] = "reading" /\ Goes(r) /\ text[r] < MaxChunks
  /\ text' = [text EXCEPT ![r] = @ + 1]
  /\ Emit(r, Content(text'[r]))
  /\ UNCHANGED <<body, pc, gate, round, attempt, finish, tools, pass,
                 client, due, cache>>

\* Mutant of ReadFails: a broken upstream ends the stream without a word.
ReadFailsSilently(r) ==
  /\ pc[r] = "reading" /\ Goes(r)
  /\ Move(r, "closing")
  /\ LeaveLease(r)
  /\ UNCHANGED <<body, call, sent, client, due, cache>>

\* An error event in the stream, a reset, a timeout, a JSON body that is none.
ReadFails(r) ==
  /\ pc[r] = "reading" /\ Goes(r)
  /\ Report(r)
  /\ UNCHANGED <<body, call, client, due, cache>>

\* round_number >= MAX_TOOL_ROUNDS
Limit(r) == round[r] >= MaxToolRounds

\* The upstream ends a round: with a reason, or without a word (how = "eof"),
\* which the code takes for an end like any other and which leaves the reason
\* of the round before.  Only a body that offers tools gets calls.  At the
\* limit the next round may call no tool, and the round after it is the last.
RoundEnds(r, how, calls) ==
  /\ pc[r] = "reading" /\ Goes(r)
  /\ calls => r \in Tooled
  /\ finish' = IF r \notin Streams \/ how = "eof" THEN finish
               ELSE [finish EXCEPT ![r] = IF how = "length" THEN how ELSE ""]
  /\ holders' = holders \ {r}
  /\ \/ /\ ~calls
        /\ Move(r, "settling")
        /\ UNCHANGED <<line, round, text, sent>>
     \/ /\ calls /\ ~Limit(r)
        /\ Tell(r)
        /\ Move(r, "called")
        /\ UNCHANGED <<line, round, text>>
     \/ /\ calls /\ Limit(r)
        /\ Tell(r)
        /\ round' = [round EXCEPT ![r] = @ + 1]
        /\ IF round[r] > MaxToolRounds
           THEN Move(r, "settling") /\ UNCHANGED <<line, text>>
           ELSE NextRound(r)
  /\ UNCHANGED <<body, attempt, tools, pass, client, due, cache>>

\* execute_tool_calls, after the look with which append_tool_exchange starts.
ToolsStart(r) ==
  /\ pc[r] = "called"
  /\ Move(r, "tools")
  /\ Starts(r)
  /\ UNCHANGED <<body, gate, call, sent, client, cache>>

\* append_tool_exchange: the results go into the next body, unless one of
\* them is a file, which is itself the answer.
ToolsEnd(r) ==
  /\ pc[r] = "tools" /\ Goes(r)
  /\ tools' = [tools EXCEPT ![r] = @ + 1]
  /\ \/ /\ round' = [round EXCEPT ![r] = @ + 1]
        /\ Tell(r)
        /\ NextRound(r)
     \/ /\ text' = [text EXCEPT ![r] = IF r \in Streams THEN @ + 1 ELSE 1]
        /\ Emit(r, Content(text'[r]))
        /\ Move(r, "settling")
        /\ UNCHANGED <<line, round>>
  /\ UNCHANGED <<body, holders, attempt, finish, pass, client, due, cache>>

\* A stream keeps an answer cut at the length limit out of the cache; a call in
\* one piece keeps whatever it got.
Stores(r) ==
  /\ Cacheable(r) /\ text[r] > 0
  /\ r \in Streams => finish[r] # "length"

\* The answer is complete.  What it cost goes on the ledger (AnswerStores).
Settle(r) ==
  /\ pc[r] = "settling" /\ Goes(r)
  /\ cache' = IF Stores(r)
              THEN [cache EXCEPT ![pass[r]] = [by |-> r, n |-> text[r]]]
              ELSE cache
  /\ finish' = [finish EXCEPT ![r] = ""]
  /\ Move(r, Answered(r))
  /\ UNCHANGED <<body, gate, round, attempt, text, tools, pass, sent, client, due>>

\* The quality gate of the cascade: the draft is the answer, or the whole
\* call is made again with the refining model, whose result is the answer.
Judge(r) ==
  /\ pc[r] = "judge"
  /\ \/ /\ Move(r, "done")
        /\ UNCHANGED <<round, text, pass>>
     \/ /\ pass[r] = 1
        /\ pass' = [pass EXCEPT ![r] = 2]
        /\ round' = [round EXCEPT ![r] = 0]
        /\ text' = [text EXCEPT ![r] = 0]
        /\ Move(r, "start")
  /\ UNCHANGED <<body, gate, attempt, finish, tools, sent, client, due, cache>>

\* The local model, in the place of the provider or after it.
EdgeChunk(r) ==
  /\ pc[r] = "edge" /\ Goes(r) /\ text[r] < MaxChunks
  /\ text' = [text EXCEPT ![r] = @ + 1]
  /\ Emit(r, Content(text'[r]))
  /\ UNCHANGED <<body, pc, gate, round, attempt, finish, tools, pass,
                 client, due, cache>>

EdgeEnds(r) ==
  /\ pc[r] = "edge" /\ Goes(r)
  /\ \/ /\ Move(r, Answered(r))
        /\ UNCHANGED <<gate, sent>>
     \/ Report(r)
  /\ UNCHANGED <<body, call, client, due, cache>>

\* The last event but the sentinel.  A cascade replays its result as one chunk
\* first.
Finish(r) ==
  /\ pc[r] = "done" /\ Goes(r)
  /\ Kind(r) = "cascade" => r \notin cancel
  /\ IF Kind(r) = "cascade" /\ text[r] > 0
     THEN /\ text' = [text EXCEPT ![r] = 1]
          /\ sent' = [sent EXCEPT ![r] = Append(@, Content(1))]
          /\ Move(r, "replay")
     ELSE /\ sent' = [sent EXCEPT ![r] = Append(@, Done(text[r]))]
          /\ Move(r, "closing")
          /\ UNCHANGED text
  /\ UNCHANGED <<body, gate, round, attempt, finish, tools, pass,
                 client, due, cache>>

Replayed(r) ==
  /\ pc[r] = "replay" /\ r \notin cancel
  /\ sent' = [sent EXCEPT ![r] = Append(@, Done(text[r]))]
  /\ Move(r, "closing")
  /\ UNCHANGED <<body, gate, call, client, due, cache>>

\* RequestCancelled at one of the checks: none stands between what was checked
\* for and its start.
Looks(r) ==
  \/ /\ r \in Streams
     /\ pc[r] \in {"start", "waiting", "opening", "asleep", "reading", "tools",
                   "settling", "edge", "done"}
  \/ Kind(r) = "cascade" /\ pc[r] \in {"done", "replay"}

Cancelled(r) ==
  /\ r \in cancel /\ Looks(r)
  /\ Move(r, "closing")
  /\ LeaveLease(r)
  /\ UNCHANGED <<body, call, sent, client, due, cache>>

\* The finally clause of the worker; a JSON call has returned or raised.
Close(r) ==
  /\ pc[r] = "closing"
  /\ sent' = IF r \in Browsed THEN [sent EXCEPT ![r] = Append(@, Sentinel)]
                               ELSE sent
  /\ Move(r, "end")
  /\ UNCHANGED <<body, gate, call, client, due, cache>>
----------------------------------------------------------------------------
\* The generator hands events over behind the worker's back, as late as it
\* likes; at the sentinel it ends.
Served(r) ==
  /\ client[r] = "on" /\ sent[r] # <<>> /\ Last(sent[r]) = Sentinel
  /\ client' = [client EXCEPT ![r] = "served"]
  /\ UNCHANGED <<body, pc, gate, call, sent, due, cache>>

\* The browser goes away.  The generator is blocked in events.get, so it can
\* only notice with an event in hand, never before the first one.
Leaves(r) ==
  /\ client[r] = "on" /\ r \in Browsed /\ sent[r] # <<>>
  /\ client' = [client EXCEPT ![r] = "left"]
  /\ due' = IF r \in Streams /\ pc[r] \in Checked
            THEN [due EXCEPT ![r] = 1] ELSE due
  /\ UNCHANGED <<body, pc, gate, call, sent, cache>>

Over ==
  /\ \A r \in Requests : pc[r] = "end" /\ (r \in Browsed => client[r] # "on")
  /\ UNCHANGED vars

Working(r) ==
  \/ Start(r) \/ Acquire(r) \/ Send(r) \/ Opened(r) \/ OpenFails(r) \/ Wake(r)
  \/ ReadFails(r)
  \/ \E how \in {"stop", "length", "eof"}, calls \in BOOLEAN :
       RoundEnds(r, how, calls)
  \/ ToolsStart(r) \/ ToolsEnd(r) \/ Settle(r) \/ Judge(r) \/ EdgeEnds(r)
  \/ Finish(r) \/ Replayed(r) \/ Cancelled(r) \/ Close(r)

Next ==
  \/ \E r \in Requests :
       \/ Working(r) \/ Chunk(r) \/ EdgeChunk(r) \/ Refused(r)
       \/ Served(r) \/ Leaves(r)
  \/ Over

Spec == Init /\ [][Next]_vars

\* Upstream calls, sleeps and tools time out, threads run, and a generator
\* takes what is there.  The line is served in order.
Fairness == \A r \in Requests : WF_vars(Working(r)) /\ WF_vars(Served(r))
FairSpec == Spec /\ Fairness
----------------------------------------------------------------------------
Verdicts == {"done", "error"}

TypeOK ==
  /\ body \in Mixes
  /\ pc \in [Requests -> Places]
  /\ line \in Seq(Requests) /\ holders \subseteq Requests
  /\ round \in [Requests -> 0..MaxToolRounds + 2]
  /\ attempt \in [Requests -> 0..MaxAttempts]
  /\ finish \in [Requests -> {"", "length"}]
  /\ text \in [Requests -> 0..MaxChunks + 1]
  /\ tools \in [Requests -> Nat] /\ pass \in [Requests -> 1..2]
  /\ client \in [Requests -> Clients] /\ cancel \subseteq Browsed
  /\ due \in [Requests -> Int]


(***************************************************************************)
(* What the browser sees is a whole answer or an error: nothing follows    *)
(* the verdict but the sentinel, and a stream that ends while its client   *)
(* is there ends with a verdict, whatever failed and however often.        *)
(***************************************************************************)
OneVerdict ==
  \A r \in Requests : \A i \in 1..Len(sent[r]) :
    /\ sent[r][i].type \in Verdicts =>
         \A j \in i + 1..Len(sent[r]) : sent[r][j] = Sentinel
    /\ sent[r][i] = Sentinel /\ client[r] \in {"on", "served"} =>
         i > 1 /\ sent[r][i - 1].type \in Verdicts

\* The last chunk before event i is number n; number 0 is the beginning.
ComesAfter(events, i, n) ==
  \E j \in 0..i - 1 :
    /\ IF n = 0 THEN j = 0 ELSE j > 0 /\ events[j] = Content(n)
    /\ \A k \in j + 1..i - 1 : events[k].type # "content"

(***************************************************************************)
(* The content of the done event is what was streamed: the last chunk that *)
(* was sent is the last of its content, and before each chunk comes the    *)
(* one it follows, over all rounds of tools.  Only a local model that took *)
(* over begins again, after part of another answer.                        *)
(***************************************************************************)
DoneTellsAll ==
  \A r \in Browsed : \A i \in 1..Len(sent[r]) :
    LET event == sent[r][i]
        n == IF event.type = "content" THEN event.n - 1 ELSE event.n IN
    event.type \in {"content", "done"} =>
      ComesAfter(sent[r], i, n) \/ (n = 0 /\ r \in Local)

\* What a stream puts in the cache, where the same question will meet it, is
\* what it told its own client, whatever attempts went before and though the
\* client has left: the last chunk it sent is the last of the entry, and
\* nothing of an answer that broke off or of the local model comes into it.
StoredIsShown ==
  \A p \in 1..2 : LET entry == cache[p] IN
    entry # NoEntry /\ entry.by \in Streams =>
      /\ entry.n > 0
      /\ ComesAfter(sent[entry.by], Len(sent[entry.by]) + 1, entry.n)

\* What is called an answer is all that was said, and nothing else: to the
\* browser, and in the cache.
AnswersAreWhole == DoneTellsAll /\ StoredIsShown

\* Once its client has left, a stream asks the provider for nothing and starts
\* no turn of tools, but the one it had checked for and not started by then:
\* not after a retry's sleep, a wait in line, a round, or a turn of tools.
SendsWhatItChecked == \A r \in Streams : due[r] >= 0

\* Every call ends and its client gets the end of the stream or has left:
\* rounds, attempts and waits are finite, and a slot that is held through a
\* backoff comes back to those who wait for it.
Ended(r) == pc[r] = "end" /\ (r \in Browsed => client[r] # "on")
EveryCallEnds == <>(\A r \in Requests : Ended(r))
=============================================================================
