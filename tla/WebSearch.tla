----------------------------- MODULE WebSearch -----------------------------
(***************************************************************************)
(* The web searches of a chat turn: search_multiple, search_single_round   *)
(* and the cache of infra/tool_runtime/search.py, and the web_search       *)
(* callback that infra/gateway/deepseek_client.py makes for each turn.     *)
(*                                                                         *)
(* The model cites a page by the marker [^Wn] that came with it.  Markers  *)
(* are numbered twice: by compact_search_tool_result for the model, with   *)
(* an offset, and by aggregate_search_rounds for the browser, which looks  *)
(* a marker up in the rounds of its message.                               *)
(*                                                                         *)
(* One turn follows another, and the cache stays.  Other requests are felt *)
(* through the cache files: they take the .tmp file away, which all        *)
(* writers of a query share, or leave a file that does not parse.          *)
(***************************************************************************)
EXTENDS Integers, FiniteSets, Sequences

CONSTANTS
  Base, Aside, \* the question and its complementary query
  Other,       \* what the model may search for besides
  Pages,       \* what Tavily finds
  ResultLimit, \* SEARCH_RESULT_LIMIT
  TurnLimit,   \* WEB_SEARCH_TURN_LIMIT
  MaxRefused,  \* bound on the calls of a turn above that limit
  MaxTurns     \* bound on the turns

Queries == {Base, Aside, Other}

VARIABLES
  pc,       \* "off", "prefetch", "ready", "searching", "saving", "failed"
  rounds,   \* rounds_by_index, in the order of the index
  counter,  \* the highest index
  offset,   \* citation_counter
  answered, \* the queries in cached_tool_results
  given,    \* history: the pairs <<marker, page>> the model was given
  entry,    \* what search_multiple or search_single_round is about to save
  cache,    \* cache[q]: the cache file of q
  turns     \* how many turns have begun

marks == <<offset, answered, given>>
vars  == <<pc, rounds, counter, marks, entry, cache, turns>>

(***************************************************************************)
(* A result is a page with its marker, 0 while it has none.  A cache entry *)
(* holds the ranked results of all its rounds, and these rounds; "hit" is  *)
(* a round that a tool call took from the cache.                           *)
(***************************************************************************)
NoEntry == [results |-> <<>>, rounds |-> <<>>]
Round(q, index, status, results, hit) ==
  [query |-> q, index |-> index, status |-> status, results |-> results, hit |-> hit]

Plain(pages) == [i \in 1 .. Len(pages) |-> [page |-> pages[i], mark |-> 0]]

\* What one search may return, best first; nothing also stands for a search
\* that failed, with its retry by a simpler query.
Found == {Plain(s) : s \in {s \in UNION {[1 .. n -> Pages] : n \in 0 .. ResultLimit} :
                              \A i, j \in DOMAIN s : s[i] = s[j] => i = j}}

Init ==
  /\ pc = "off" /\ rounds = <<>> /\ counter = 0 /\ offset = 0
  /\ answered = {} /\ given = {}
  /\ entry = NoEntry /\ cache = [q \in Queries |-> NoEntry] /\ turns = 0
----------------------------------------------------------------------------
\* How many results there are in the rounds before k.
Before(rs, k) == Cardinality(UNION {{l} \X DOMAIN rs[l].results : l \in 1 .. k - 1})

\* Mutant of Marked: the numbers start anew in each round.
MarkedAnew(rs) ==
  [k \in 1 .. Len(rs) |-> [rs[k] EXCEPT !.results =
     [i \in 1 .. Len(@) |-> IF @[i].mark = 0 THEN [@[i] EXCEPT !.mark = i] ELSE @[i]]]]

\* aggregate_search_rounds: a result without a marker gets the number of the
\* results up to it.
Marked(rs) ==
  [k \in 1 .. Len(rs) |-> [rs[k] EXCEPT !.results =
     [i \in 1 .. Len(@) |->
        IF @[i].mark = 0 THEN [@[i] EXCEPT !.mark = Before(rs, k) + i] ELSE @[i]]]]

Elements(s) == {s[i] : i \in DOMAIN s}
Results(rs) == UNION {Elements(rs[k].results) : k \in 1 .. Len(rs)}

\* The "results" of the aggregate: of each page what came first, in an order
\* that depends on scores.
Firsts(rs) ==
  UNION {{x \in Elements(Marked(rs)[k].results) :
            \A l \in 1 .. k - 1 : \A y \in Elements(rs[l].results) : y.page # x.page} :
         k \in 1 .. Len(rs)}

Aggregates(rs) ==
  {[results |-> ranked, rounds |-> Marked(rs)] :
     ranked \in {s \in [1 .. Cardinality(Firsts(rs)) -> Firsts(rs)] :
                   \A i, j \in DOMAIN s : s[i] = s[j] => i = j}}

\* compact_search_tool_result: a marker is kept, the others count on from the
\* offset.
Compact(results, from) ==
  {IF results[i].mark = 0 THEN [results[i] EXCEPT !.mark = from + i] ELSE results[i] :
     i \in {i \in DOMAIN results : i <= ResultLimit}}

Pairs(S) == {<<x.mark, x.page>> : x \in S}

Cached(q) == cache[q] # NoEntry
----------------------------------------------------------------------------
\* web_search_callback_for_turn: the turn has prefetched what e holds.
Open(e) ==
  /\ pc' = "ready" /\ rounds' = e.rounds
  /\ counter' = IF e.rounds = <<>> THEN 0 ELSE e.rounds[Len(e.rounds)].index
  /\ answered' = {e.rounds[k].query : k \in 1 .. Len(e.rounds)}
  /\ offset' = Before(e.rounds, Len(e.rounds) + 1)
  /\ given' = Pairs(Elements(e.results))

Begins == pc = "off" /\ turns < MaxTurns /\ turns' = turns + 1

\* The model decides whether to search.
Begin ==
  /\ Begins /\ Open(NoEntry)
  /\ UNCHANGED <<entry, cache>>

\* The user forces a search, and the cache knows the question...
BeginCached ==
  /\ Begins /\ Cached(Base) /\ Open(cache[Base])
  /\ UNCHANGED <<entry, cache>>

\* ... or search_multiple submits its queries to a pool.
BeginFresh ==
  /\ Begins /\ ~Cached(Base) /\ pc' = "prefetch"
  /\ rounds' = <<Round(Base, 1, "searching", <<>>, FALSE),
                 Round(Aside, 2, "searching", <<>>, FALSE)>>
  /\ UNCHANGED <<counter, marks, entry, cache>>

\* as_completed gives the rounds in any order.
Completes(k) ==
  /\ pc = "prefetch" /\ k <= Len(rounds) /\ rounds[k].status = "searching"
  /\ \E found \in Found :
       rounds' = [rounds EXCEPT ![k].results = found, ![k].status = "done"]
  /\ UNCHANGED <<pc, counter, marks, entry, cache, turns>>

\* The pool is done.  A search that found nothing is not saved.
Prefetched ==
  /\ pc = "prefetch" /\ \A k \in 1 .. Len(rounds) : rounds[k].status = "done"
  /\ \E e \in Aggregates(rounds) :
       IF e.results = <<>> THEN Open(e) /\ UNCHANGED entry
       ELSE /\ pc' = "saving" /\ entry' = e
            /\ UNCHANGED <<rounds, counter, marks>>
  /\ UNCHANGED <<cache, turns>>
----------------------------------------------------------------------------
Newest == rounds[Len(rounds)]
InTool == Newest.status = "searching"

\* The tool's answer to the model.
Answers(results) ==
  /\ given' = given \cup Pairs(Compact(results, offset))
  /\ offset' = offset + Cardinality(Compact(results, offset))
  /\ answered' = answered \cup {rounds'[Len(rounds')].query}

Record(results) ==
  /\ rounds' = [rounds EXCEPT ![Len(rounds)].results = results,
                              ![Len(rounds)].status = "done"]
  /\ Answers(results)
  /\ pc' = "ready" /\ UNCHANGED counter

\* save_search_cache, then the round of the tool or of the prefetch.
Saved ==
  LET q == IF InTool THEN Newest.query ELSE Base
      e == entry.rounds[1].results
  IN
  /\ pc = "saving" /\ cache' = [cache EXCEPT ![q] = entry] /\ entry' = NoEntry
  /\ IF InTool THEN Record([i \in DOMAIN e |-> [e[i] EXCEPT !.mark = 0]])
               ELSE Open(entry)
  /\ UNCHANGED <<turns>>

\* Another writer of the query has replaced the .tmp file: FileNotFoundError
\* ends the tool call, whose round goes on "searching", or the request.
SaveFails ==
  /\ pc = "saving" /\ entry' = NoEntry
  /\ pc' = IF InTool THEN "ready" ELSE "failed"
  /\ UNCHANGED <<rounds, counter, marks, cache, turns>>

\* The file got old, or torn by two writers, or was deleted.
Lost(q) ==
  /\ Cached(q) /\ cache' = [cache EXCEPT ![q] = NoEntry]
  /\ UNCHANGED <<pc, rounds, counter, marks, entry, turns>>
----------------------------------------------------------------------------
\* _perform_web_search: an answered query is answered alike, without a step.
MayAsk(q) == q \notin answered

NewRound(q) ==
  /\ pc = "ready" /\ MayAsk(q) /\ counter < TurnLimit
  /\ counter' = counter + 1

\* search_single_round, from the cache: with the markers that are in it.
AskCached(q) ==
  /\ NewRound(q) /\ Cached(q)
  /\ rounds' = Append(rounds, Round(q, counter + 1, "done", cache[q].results, TRUE))
  /\ Answers(cache[q].results)
  /\ UNCHANGED <<pc, entry, cache, turns>>

AskFresh(q) ==
  /\ NewRound(q) /\ ~Cached(q) /\ pc' = "searching"
  /\ rounds' = Append(rounds, Round(q, counter + 1, "searching", <<>>, FALSE))
  /\ UNCHANGED <<marks, entry, cache, turns>>

FindsNothing ==
  /\ pc = "searching" /\ Record(<<>>)
  /\ UNCHANGED <<entry, cache, turns>>

Finds ==
  /\ pc = "searching" /\ pc' = "saving"
  /\ \E found \in Found \ {<<>>} :
       entry' \in Aggregates(<<[Newest EXCEPT !.results = found, !.status = "done"]>>)
  /\ UNCHANGED <<rounds, counter, marks, cache, turns>>

\* limit_result
Refuse(q) ==
  /\ pc = "ready" /\ MayAsk(q)
  /\ counter >= TurnLimit /\ counter < TurnLimit + MaxRefused
  /\ counter' = counter + 1
  /\ rounds' = Append(rounds, Round(q, counter + 1, "done", <<>>, FALSE))
  /\ UNCHANGED <<pc, marks, entry, cache, turns>>

End ==
  /\ pc \in {"ready", "failed"} /\ pc' = "off"
  /\ rounds' = <<>> /\ counter' = 0 /\ offset' = 0 /\ answered' = {} /\ given' = {}
  /\ UNCHANGED <<entry, cache, turns>>

Next ==
  \/ Begin \/ BeginCached \/ BeginFresh
  \/ \E k \in 1 .. 2 : Completes(k)
  \/ Prefetched \/ Saved \/ SaveFails \/ FindsNothing \/ Finds \/ End
  \/ \E q \in Queries : AskCached(q) \/ AskFresh(q) \/ Refuse(q) \/ Lost(q)

Spec == Init /\ [][Next]_vars
----------------------------------------------------------------------------
(***************************************************************************)
(* The two numberings agree: in a turn whose tool calls all went to        *)
(* Tavily, a marker that the model was given stands for the same page in   *)
(* the rounds of the browser, and for no other, however the searches of    *)
(* the prefetch overtook each other and whichever call broke.              *)
(***************************************************************************)
MarkersAgree ==
  pc = "ready" /\ (\A k \in 1 .. Len(rounds) : ~rounds[k].hit) =>
    LET shown == Pairs(Results(Marked(rounds))) IN
    /\ given \subseteq shown
    /\ \A x, y \in shown : x[1] = y[1] => x = y
============================================================================
