------------------------------ MODULE Services ------------------------------
(***************************************************************************)
(* Eight machines beside the request path, one of them in each behaviour:  *)
(* the layering of a plan, the semantic cache, the budget ledger, the      *)
(* reminders, the memories, the tool calls of one answer, its web searches *)
(* and the index of the files.                                             *)
(***************************************************************************)
EXTENDS PlanLayers, Integers, FiniteSets

CONSTANTS Workers, Prompts, Scopes, Asked, MaxItems, TTL, MaxAnswers, MaxNow,
          Limit, ProCost, FlashCost, MaxReminders, MaxCreated, MaxDue,
          Ids, MaxMemories, MaxWrites, Calls,
          Docs, Projects, Global, Loop, MaxUploads, MaxFailures,
          q1, q2, q3, Pages, ResultLimit, TurnLimit, MaxRefused, MaxTurns

ASSUME ServicesAssumption ==
  /\ IsFiniteSet(Workers) /\ Loop \notin Workers
  /\ Asked # {} /\ Asked \subseteq Prompts \X Scopes
  /\ MaxItems \in Nat /\ TTL \in Nat /\ MaxAnswers \in Nat /\ MaxNow \in Nat
  /\ Limit \in Nat \ {0} /\ ProCost \in Nat /\ FlashCost \in Nat
  /\ MaxReminders \in Nat /\ MaxCreated \in Nat /\ MaxDue \in Nat
  /\ Calls \in Nat /\ ResultLimit \in Nat
  /\ Global \notin Projects

VARIABLES which,
  rows, now, pc, query, picked, cache_id, stamp, answers, cleared,
  spend, working, request, governedPro,
  reminders, date, owner, op, copy, due, created, announced, settled,
  memories, holder, draft, intent, clock, ideal,
  kind, approved, cancelled, tainted, index, batch, mode, task, result, outputs,
  tainters,
  files, indexed, gone, step, doing, todo, cur, listed, hits, stays, uploads, failures,
  turn, rounds, counter, offset, answered, given, entry, cache, turns

S == INSTANCE SemanticCache
B == INSTANCE BudgetLedger WITH pc <- working
R == INSTANCE Reminders WITH file <- reminders, now <- date, Threads <- Workers,
                             MaxNow <- MaxDue
M == INSTANCE MemoryStore WITH file <- memories, copy <- draft, Writers <- Workers,
                               MaxItems <- MaxMemories

T == INSTANCE ToolTurn
G == INSTANCE RagIndex WITH Searchers <- Workers, MaxRequests <- MaxUploads,
       rows <- indexed, pc <- step, op <- doing, requests <- uploads
W == INSTANCE WebSearch WITH pc <- turn, Base <- q1, Aside <- q2, Other <- q3

cacheVars    == <<rows, now, pc, query, picked, cache_id, stamp, answers, cleared>>
budgetVars   == <<spend, working, request, governedPro>>
reminderVars == <<reminders, date, owner, op, copy, due, created, announced, settled>>
memoryVars   == <<memories, holder, draft, intent, clock, ideal>>
toolVars     == <<kind, approved, cancelled, tainted, index, batch, mode, task,
                  result, outputs, tainters>>
fileVars == <<files, indexed, gone, step, doing, todo, cur, listed, hits, stays,
              uploads, failures>>
searchVars == <<turn, rounds, counter, offset, answered, given, entry, cache, turns>>
dataVars == <<cacheVars, budgetVars, reminderVars, memoryVars>>
all == <<which, vars, dataVars, toolVars, fileVars, searchVars>>

\* The machine of a behaviour is chosen at the start; the others rest, the
\* layering on one plan.
MCInit ==
  /\ which \in {"plan", "cache", "budget", "reminders", "memory", "tools", "files", "search"}
  /\ IF which = "plan" THEN TRUE ELSE depends_on = [n \in Nodes |-> {}]
  /\ IF which = "tools" THEN TRUE
     ELSE kind = [c \in 1 .. Calls |-> "fetch"] /\ approved = {} /\ tainted = FALSE
  /\ Init /\ S!Init /\ B!Init /\ R!Init /\ M!Init /\ T!Init
  /\ G!Init /\ W!Init

MCNext ==
  \/ which = "plan" /\ Next /\ UNCHANGED <<which, dataVars, toolVars, fileVars, searchVars>>
  \/ /\ which = "cache" /\ S!Next
     /\ UNCHANGED <<which, vars, budgetVars, reminderVars, memoryVars, toolVars, fileVars, searchVars>>
  \/ /\ which = "budget" /\ B!Next
     /\ UNCHANGED <<which, vars, cacheVars, reminderVars, memoryVars, toolVars, fileVars, searchVars>>
  \/ /\ which = "reminders" /\ R!Next
     /\ UNCHANGED <<which, vars, cacheVars, budgetVars, memoryVars, toolVars, fileVars, searchVars>>
  \/ /\ which = "memory" /\ M!Next
     /\ UNCHANGED <<which, vars, cacheVars, budgetVars, reminderVars, toolVars, fileVars, searchVars>>
  \/ which = "tools" /\ T!Next /\ UNCHANGED <<which, vars, dataVars, fileVars, searchVars>>
  \/ which = "files" /\ G!Next /\ UNCHANGED <<which, vars, dataVars, toolVars, searchVars>>
  \/ which = "search" /\ W!Next /\ UNCHANGED <<which, vars, dataVars, toolVars, fileVars>>

MCSpec == MCInit /\ [][MCNext]_all

AnswersStayInScope     == S!AnswersStayInScope
OverrunBounded         == B!OverrunBounded
AnnouncedOnceNeverLost == R!AnnouncedOnceNeverLost
NoLostUpdate           == M!NoLostUpdate
CallsKeepOrder         == T!CallsKeepOrder
SearchFindsWhatStays   == G!SearchFindsWhatStays
MarkersAgree           == W!MarkersAgree
=============================================================================
