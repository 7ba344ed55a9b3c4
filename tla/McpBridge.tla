----------------------------- MODULE McpBridge -----------------------------
(***************************************************************************)
(* infra/mcp/bridge.py: the catalogue of the tools of external MCP         *)
(* servers.  Request threads rebuild it when its time to live is over and  *)
(* call the tools in it; both report to the circuit breaker of the server. *)
(*                                                                         *)
(* A refresh talks to the servers one after the other WITHOUT the lock of  *)
(* the registry and records their health there too; the lock covers the    *)
(* commit of the new catalogue, resolve, and the records of the calls.  A  *)
(* server has one record of its health here, also while two first          *)
(* refreshes each make one.                                                *)
(***************************************************************************)
EXTENDS Integers, Sequences, SequencesExt

CONSTANTS
  Order,           \* settings.mcp.client_servers, as configured
  Threads,         \* requests being served
  FailuresToOpen,  \* settings.mcp.client_circuit_breaker_failures
  MaxAttempts      \* settings.mcp.client_max_retries + 1

Servers == Range(Order)

VARIABLES
  up,         \* the servers that answer now (environment)
  fails,      \* health.consecutive_failures; FailuresToOpen stands for all above
  opened,     \* the servers with circuit_open_until in the future
  catalogue,  \* the servers whose tools _profiles and _by_client hold
  fresh,      \* is _last_refresh less than ttl_seconds ago?
  pc, at, tries, found,  \* of each thread: its step, server and attempt, and
                         \* the servers its refresh has reached
  broken,     \* history: servers that a failure was ever recorded for
  committed   \* history: some refresh has ended

health  == <<fails, opened>>
registry == <<catalogue, fresh>>
local   == <<pc, at, tries, found>>
history == <<broken, committed>>
vars    == <<up, health, registry, local, history>>

Init ==
  /\ up \in SUBSET Servers
  /\ fails = [s \in Servers |-> 0] /\ opened = {}
  /\ catalogue = {} /\ fresh = FALSE
  /\ pc = [t \in Threads |-> "idle"] /\ at = [t \in Threads |-> 1]
  /\ tries = [t \in Threads |-> 1] /\ found = [t \in Threads |-> {}]
  /\ broken = {} /\ committed = FALSE

Server(t) == Order[at[t]]

\* The lock is only seen taken by the two steps of record_call_failure.
Unlocked == \A t \in Threads : pc[t] # "call_counted"
----------------------------------------------------------------------------
\* agent_tool_definitions, for a request: refresh returns at once while the
\* catalogue is fresh.
Begin(t) ==
  /\ pc[t] = "idle"
  /\ pc' = [pc EXCEPT ![t] = IF fresh THEN "ready" ELSE "visit"]
  /\ UNCHANGED <<up, health, registry, at, tries, found, history>>

\* The next server of the loop: one with an open circuit is passed over.
Visit(t) ==
  /\ pc[t] = "visit" /\ at[t] <= Len(Order)
  /\ IF Server(t) \in opened
     THEN at' = [at EXCEPT ![t] = @ + 1] /\ UNCHANGED <<pc, tries>>
     ELSE /\ pc' = [pc EXCEPT ![t] = "handshake"]
          /\ tries' = [tries EXCEPT ![t] = 1] /\ UNCHANGED at
  /\ UNCHANGED <<up, health, registry, found, history>>

\* _post: another attempt after one that failed.
Retry(t) ==
  /\ pc[t] \in {"handshake", "call"}
  /\ Server(t) \notin up /\ tries[t] < MaxAttempts
  /\ tries' = [tries EXCEPT ![t] = @ + 1]
  /\ UNCHANGED <<up, health, registry, pc, at, found, history>>

\* _record_success
RecordSuccess(s) ==
  fails' = [fails EXCEPT ![s] = 0] /\ opened' = opened \ {s}

\* The first half of _record_failure: the streak is counted.
CountFailure(s) ==
  /\ fails' = [fails EXCEPT ![s] = IF @ < FailuresToOpen THEN @ + 1 ELSE @]
  /\ broken' = broken \union {s} /\ UNCHANGED <<opened, committed>>

\* The second half: the circuit opens if the streak is long enough by now.
OpenIfStreak(s) ==
  /\ opened' = IF fails[s] >= FailuresToOpen THEN opened \union {s} ELSE opened
  /\ UNCHANGED <<fails, history>>

\* initialize and list_tools answered.
Reached(t) ==
  /\ pc[t] = "handshake" /\ Server(t) \in up
  /\ RecordSuccess(Server(t))
  /\ found' = [found EXCEPT ![t] = @ \union {Server(t)}]
  /\ pc' = [pc EXCEPT ![t] = "visit"] /\ at' = [at EXCEPT ![t] = @ + 1]
  /\ UNCHANGED <<up, registry, tries, history>>

NotReached(t) ==
  /\ pc[t] = "handshake" /\ Server(t) \notin up /\ tries[t] = MaxAttempts
  /\ CountFailure(Server(t))
  /\ pc' = [pc EXCEPT ![t] = "counted"]
  /\ UNCHANGED <<up, registry, at, tries, found>>

\* The loop goes on with the next server.
PassOver(t) ==
  /\ pc[t] = "counted"
  /\ OpenIfStreak(Server(t))
  /\ pc' = [pc EXCEPT ![t] = "visit"] /\ at' = [at EXCEPT ![t] = @ + 1]
  /\ UNCHANGED <<up, registry, tries, found>>

\* The new catalogue replaces the old one, also one that a later refresh has
\* put there in the meantime.
Commit(t) ==
  /\ pc[t] = "visit" /\ at[t] > Len(Order) /\ Unlocked
  /\ catalogue' = found[t] /\ fresh' = TRUE /\ committed' = TRUE
  /\ pc' = [pc EXCEPT ![t] = "ready"] /\ at' = [at EXCEPT ![t] = 1]
  /\ found' = [found EXCEPT ![t] = {}]
  /\ UNCHANGED <<up, health, tries, broken>>
----------------------------------------------------------------------------
\* call_external_mcp_tool: resolve gives no client while the circuit is open.
\* A request makes one call here; more of them are like those of requests
\* that find the catalogue fresh.
StartCall(t) ==
  /\ pc[t] = "ready" /\ Unlocked
  /\ \E n \in 1 .. Len(Order) :
       /\ Order[n] \in catalogue \ opened
       /\ at' = [at EXCEPT ![t] = n]
  /\ pc' = [pc EXCEPT ![t] = "call"] /\ tries' = [tries EXCEPT ![t] = 1]
  /\ UNCHANGED <<up, health, registry, found, history>>

Answered(t) ==
  /\ pc[t] = "call" /\ Server(t) \in up /\ Unlocked
  /\ RecordSuccess(Server(t))
  /\ pc' = [pc EXCEPT ![t] = "idle"] /\ at' = [at EXCEPT ![t] = 1]
  /\ UNCHANGED <<up, registry, tries, found, history>>

\* The server is down, or it answers with a JSON-RPC error (an argument it
\* does not accept, say), which counts as a failure of the server too.
NotAnswered(t) ==
  /\ pc[t] = "call" /\ Unlocked
  /\ Server(t) \in up \/ tries[t] = MaxAttempts
  /\ CountFailure(Server(t))
  /\ pc' = [pc EXCEPT ![t] = "call_counted"]
  /\ UNCHANGED <<up, registry, at, tries, found>>

CallFails(t) ==
  /\ pc[t] = "call_counted"
  /\ OpenIfStreak(Server(t))
  /\ pc' = [pc EXCEPT ![t] = "idle"] /\ at' = [at EXCEPT ![t] = 1]
  /\ UNCHANGED <<up, registry, tries, found>>

\* The model called no external tool, or one that could not be resolved.
End(t) ==
  /\ pc[t] = "ready" /\ pc' = [pc EXCEPT ![t] = "idle"]
  /\ UNCHANGED <<up, health, registry, at, tries, found, history>>
----------------------------------------------------------------------------
\* Time: the catalogue ages; a circuit has been open for the reset time.
Expire ==
  /\ fresh /\ fresh' = FALSE
  /\ UNCHANGED <<up, health, catalogue, local, history>>

\* Mutant of ResetPasses: the circuit waits for a success to close it.
ResetOnSuccessOnly(s) ==
  /\ s \in opened /\ fails[s] = 0 /\ opened' = opened \ {s}
  /\ UNCHANGED <<up, fails, registry, local, history>>

ResetPasses(s) ==
  /\ s \in opened /\ opened' = opened \ {s}
  /\ UNCHANGED <<up, fails, registry, local, history>>

\* Servers stop and start again.
Flip(s) ==
  /\ up' = IF s \in up THEN up \ {s} ELSE up \union {s}
  /\ UNCHANGED <<health, registry, local, history>>

\* What a thread does whether the model calls a tool or not.
Step(t) ==
  \/ Begin(t) \/ End(t) \/ Visit(t) \/ Retry(t) \/ Reached(t) \/ NotReached(t) \/ PassOver(t)
  \/ Commit(t) \/ Answered(t) \/ NotAnswered(t) \/ CallFails(t)

Next ==
  \/ \E t \in Threads : StartCall(t) \/ Step(t)
  \/ \E s \in Servers : ResetPasses(s) \/ Flip(s)
  \/ Expire
----------------------------------------------------------------------------
TypeOK ==
  /\ up \subseteq Servers /\ opened \subseteq Servers
  /\ catalogue \subseteq Servers /\ broken \subseteq Servers
  /\ fails \in [Servers -> 0 .. FailuresToOpen]
  /\ fresh \in BOOLEAN /\ committed \in BOOLEAN
  /\ pc \in [Threads -> {"idle", "ready", "visit", "handshake", "counted",
                         "call", "call_counted"}]
  /\ at \in [Threads -> 1 .. Len(Order) + 1]
  /\ tries \in [Threads -> 1 .. MaxAttempts]
  /\ found \in [Threads -> SUBSET Servers]
  /\ \A t \in Threads : pc[t] \notin {"idle", "ready", "visit"} => at[t] <= Len(Order)


(***************************************************************************)
(* A server that is back is used again: the circuit is not held open by    *)
(* the failures of the past, nor by refreshes that pass it over.  Assumes  *)
(* that requests keep coming (they refresh the catalogue) and time passes. *)
(***************************************************************************)
RecoversWhenUp ==
  \A s \in Servers :
    <>[](s \in up) => []<>(s \in catalogue \ opened)
============================================================================
