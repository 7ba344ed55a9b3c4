---------------------------- MODULE SemanticCache ----------------------------
(***************************************************************************)
(* infra/gateway/semantic_cache.py: the table of answers that requests     *)
(* share.  A request reads the rows of its scope and, on a hit, touches    *)
(* the row it took; on a miss it asks the model, looks for the id of a row *)
(* of its own prompt and then writes.  _db_lock covers each of these by    *)
(* itself, and other requests come in between.                             *)
(*                                                                         *)
(* model and cache_version are the same for all requests here; a row of    *)
(* another prompt may be similar enough for a request without attachments. *)
(***************************************************************************)
EXTENDS Integers, FiniteSets, Sequences

CONSTANTS
  Workers,    \* request threads
  Prompts,    \* values of prompt_hash
  Scopes,     \* values of scope_for
  Asked,      \* bound: the <<prompt, scope>> that requests have
  MaxItems,   \* SEMANTIC_CACHE_MAX_ITEMS
  TTL,        \* SEMANTIC_CACHE_TTL_SECONDS, positive
  MaxAnswers, \* bound on the answers of the model
  MaxNow      \* bound on the clock

VARIABLES
  rows,     \* the table: [id, prompt, scope, updated_at, answer]
  now,
  pc,       \* pc[w]: "idle", "hit", "asked", "writing"
  query,    \* query[w]: [prompt, scope, exact_only]; the last one only
            \* matters until the row is read
  picked,   \* picked[w]: the row read on a hit
  cache_id, \* cache_id[w]: that of existing_cache_id, 0 for none
  stamp,    \* stamp[w]: the time store read at its start
  answers,  \* answers[n]: the prompt and scope that answer n was written for
  cleared   \* history: answers that were in the table when it was cleared

vars == <<rows, now, pc, query, picked, cache_id, stamp, answers, cleared>>

Queries == {q \in [prompt : Prompts, scope : Scopes, exact_only : BOOLEAN] :
              <<q.prompt, q.scope>> \in Asked}
NoQuery == CHOOSE q \in Queries : ~q.exact_only
NoRow   == [id |-> 0, prompt |-> NoQuery.prompt, scope |-> NoQuery.scope,
            updated_at |-> 0, answer |-> 0]

\* Answers are numbered as they are stored; the one that inserts a row gives
\* it its id (uuid4).
NewAnswer == Len(answers) + 1

Init ==
  /\ rows = {} /\ now = 0
  /\ pc = [w \in Workers |-> "idle"]
  /\ query = [w \in Workers |-> NoQuery]
  /\ picked = [w \in Workers |-> NoRow]
  /\ cache_id = [w \in Workers |-> 0] /\ stamp = [w \in Workers |-> 0]
  /\ answers = <<>> /\ cleared = {}
----------------------------------------------------------------------------
Expired(r) == now - r.updated_at > TTL

\* Mutant of Candidates: all projects share their rows.
CandidatesOfAll(q) ==
  {r \in rows : ~Expired(r) /\ (q.exact_only => r.prompt = q.prompt)}

\* candidate_rows, without what the loop of lookup passes over.
Candidates(q) ==
  {r \in rows : /\ r.scope = q.scope /\ ~Expired(r)
                /\ (q.exact_only => r.prompt = q.prompt)}

Newest(S) == {r \in S : \A o \in S : o.updated_at <= r.updated_at}

\* The row of the greatest similarity, the latest of equals: one of the same
\* prompt if there is any, else any row, if it is similar enough.
Best(q) ==
  LET same == {r \in Candidates(q) : r.prompt = q.prompt}
  IN  IF same # {} THEN Newest(same) ELSE Candidates(q)

Hit(w) ==
  /\ pc[w] = "idle"
  /\ \E q \in Queries : /\ query' = [query EXCEPT ![w] = q]
                        /\ \E r \in Best(q) : picked' = [picked EXCEPT ![w] = r]
  /\ pc' = [pc EXCEPT ![w] = "hit"]
  /\ UNCHANGED <<rows, now, cache_id, stamp, answers, cleared>>

\* No row of the prompt, and none that is similar enough.
Miss(w) ==
  /\ pc[w] = "idle"
  /\ \E q \in Queries :
       /\ \A r \in Candidates(q) : r.prompt # q.prompt
       /\ query' = [query EXCEPT ![w] = [q EXCEPT !.exact_only = FALSE]]
  /\ pc' = [pc EXCEPT ![w] = "asked"]
  /\ UNCHANGED <<rows, now, picked, cache_id, stamp, answers, cleared>>

\* touch_cache: an UPDATE, of nothing when the row is gone.  A hit starts the
\* time to live of the row again.
Touch(w) ==
  /\ pc[w] = "hit"
  /\ rows' = {IF r.id = picked[w].id THEN [r EXCEPT !.updated_at = now] ELSE r
                : r \in rows}
  /\ pc' = [pc EXCEPT ![w] = "idle"] /\ picked' = [picked EXCEPT ![w] = NoRow]
  /\ query' = [query EXCEPT ![w] = NoQuery]
  /\ UNCHANGED <<now, cache_id, stamp, answers, cleared>>

\* The answer is not stored: too long, low quality, a side effect, an error.
NotStored(w) ==
  /\ pc[w] = "asked" /\ pc' = [pc EXCEPT ![w] = "idle"]
  /\ query' = [query EXCEPT ![w] = NoQuery]
  /\ UNCHANGED <<rows, now, picked, cache_id, stamp, answers, cleared>>
----------------------------------------------------------------------------
\* existing_cache_id: the latest row of the prompt, expired or not.
Existing(q) == Newest({r \in rows : r.prompt = q.prompt /\ r.scope = q.scope})

LookForId(w) ==
  /\ pc[w] = "asked"
  /\ IF Existing(query[w]) = {} THEN cache_id' = [cache_id EXCEPT ![w] = 0]
     ELSE \E r \in Existing(query[w]) : cache_id' = [cache_id EXCEPT ![w] = r.id]
  /\ stamp' = [stamp EXCEPT ![w] = now]
  /\ pc' = [pc EXCEPT ![w] = "writing"]
  /\ UNCHANGED <<rows, now, query, picked, answers, cleared>>

\* INSERT ... ON CONFLICT(cache_id) DO UPDATE: a row that is there keeps its
\* prompt_hash and its scope.
Upserted(id, w) ==
  IF \E r \in rows : r.id = id
  THEN {IF r.id = id
        THEN [r EXCEPT !.updated_at = stamp[w], !.answer = NewAnswer]
        ELSE r : r \in rows}
  ELSE rows \union {[id |-> id, prompt |-> query[w].prompt,
                     scope |-> query[w].scope, updated_at |-> stamp[w],
                     answer |-> NewAnswer]}

\* trim_cache keeps the MaxItems rows updated last.
Trimmed(S, T) ==
  /\ T \subseteq S
  /\ Cardinality(T) = IF Cardinality(S) < MaxItems THEN Cardinality(S) ELSE MaxItems
  /\ \A r \in T, o \in S \ T : o.updated_at <= r.updated_at

Write(w) ==
  /\ pc[w] = "writing" /\ NewAnswer <= MaxAnswers
  /\ LET id   == IF cache_id[w] = 0 THEN NewAnswer ELSE cache_id[w]
         full == Upserted(id, w)
     IN  \E kept \in SUBSET full : Trimmed(full, kept) /\ rows' = kept
  /\ answers' = Append(answers, [prompt |-> query[w].prompt,
                                 scope |-> query[w].scope])
  /\ pc' = [pc EXCEPT ![w] = "idle"]
  /\ cache_id' = [cache_id EXCEPT ![w] = 0] /\ stamp' = [stamp EXCEPT ![w] = 0]
  /\ query' = [query EXCEPT ![w] = NoQuery]
  /\ UNCHANGED <<now, picked, cleared>>

\* clear
Clear ==
  /\ rows # {}
  /\ rows' = {} /\ cleared' = cleared \union {r.answer : r \in rows}
  /\ UNCHANGED <<now, pc, query, picked, cache_id, stamp, answers>>

Tick ==
  /\ now < MaxNow /\ now' = now + 1
  /\ UNCHANGED <<rows, pc, query, picked, cache_id, stamp, answers, cleared>>

Next ==
  \/ \E w \in Workers : \/ Hit(w) \/ Miss(w) \/ Touch(w)
                        \/ NotStored(w) \/ LookForId(w) \/ Write(w)
  \/ Clear \/ Tick

Spec == Init /\ [][Next]_vars
----------------------------------------------------------------------------
\* The table is as large as it may be, and its ids are its primary key.
TypeOK ==
  /\ now \in 0 .. MaxNow
  /\ answers \in Seq([prompt : Prompts, scope : Scopes])
  /\ pc \in [Workers -> {"idle", "hit", "asked", "writing"}]
  /\ query \in [Workers -> Queries]
  /\ Cardinality(rows) <= MaxItems
  /\ \A r, o \in rows : r.id = o.id => r = o
  /\ \A r \in rows : r.answer \in DOMAIN answers /\ r.updated_at \in 0 .. now


(***************************************************************************)
(* "Privacy / project isolation": a request is answered with what was      *)
(* written for a request of its own scope, and when it has attachments for *)
(* the very same prompt.  And a cleared answer stays forgotten: neither    *)
(* the touch of a hit that was read before nor a late store with the old   *)
(* id brings it back.                                                      *)
(***************************************************************************)
AnswersStayInScope ==
  /\ \A w \in Workers : pc[w] = "hit" =>
       LET origin == answers[picked[w].answer]
       IN  /\ origin.scope = query[w].scope
           /\ query[w].exact_only => origin.prompt = query[w].prompt
  /\ \A r \in rows : r.answer \notin cleared
============================================================================
