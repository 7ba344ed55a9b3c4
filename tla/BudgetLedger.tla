---------------------------- MODULE BudgetLedger ----------------------------
(***************************************************************************)
(* infra/gateway/budget_manager.py: what each scope spends in a day, and   *)
(* the downgrade of build_deepseek_request.  The ledger is read before a   *)
(* request and written after it, once, with what all its model calls cost; *)
(* in between others read and write it.  Costs are whole units here.       *)
(***************************************************************************)
EXTENDS Integers, FiniteSets

CONSTANTS
  Workers,   \* request threads
  Scopes,    \* values of budget_scope
  Limit,     \* budget.max_estimated_cost_usd of the downgrade policy, > 0
  ProCost,   \* the most that one request to deepseek-v4-pro costs
  FlashCost  \* the most that one to deepseek-v4-flash costs

VARIABLES
  spend,     \* spend[s]: the row of the scope for today, cost_usd; MaxSpend
             \* stands for it and all above
  pc,        \* pc[w]: "idle" or "asking"
  request,   \* request[w]: [scope, model, governed]; governed is whether the
             \* downgrade policy was applied to it
  governedPro \* history: governedPro[s], what the governed requests to pro
              \* have reported for today

vars == <<spend, pc, request, governedPro>>

\* Spending is only compared with the limit.
MaxSpend == Limit + 1

Models   == {"pro", "flash"}
Requests == [scope : Scopes, model : Models, governed : BOOLEAN]
NoRequest == [scope |-> CHOOSE s \in Scopes : TRUE, model |-> "flash",
              governed |-> FALSE]

Init ==
  /\ spend = [s \in Scopes |-> 0]
  /\ pc = [w \in Workers |-> "idle"]
  /\ request = [w \in Workers |-> NoRequest]
  /\ governedPro = [s \in Scopes |-> 0]
----------------------------------------------------------------------------
\* Mutant of OverDailyBudget: over the limit, not at it.
OverWhenAbove(s) == spend[s] > Limit

\* over_daily_budget, of its estimated cost
OverDailyBudget(s) == spend[s] >= Limit

\* build_deepseek_request.  The policy of a request is its own (the payload
\* may set any), it only matters to a request that chose pro, and a message
\* with an image goes to pro all the same.
Build(w) ==
  /\ pc[w] = "idle"
  /\ \E s \in Scopes, chosen \in Models, downgrade, image \in BOOLEAN :
       LET held == downgrade /\ chosen = "pro" /\ OverDailyBudget(s)
       IN  request' = [request EXCEPT ![w] =
             [scope |-> s,
              model |-> IF image THEN "pro" ELSE IF held THEN "flash" ELSE chosen,
              governed |-> downgrade /\ ~image]]
  /\ pc' = [pc EXCEPT ![w] = "asking"]
  /\ UNCHANGED <<spend, governedPro>>

Cost(model) == IF model = "pro" THEN 0 .. ProCost ELSE 0 .. FlashCost

\* record_request_spend, under the day it is now.  The statement adds to the
\* row in the database.
Record(w) ==
  /\ pc[w] = "asking"
  /\ LET r == request[w]
     IN  \E c \in Cost(r.model) :
           /\ spend' = [spend EXCEPT ![r.scope] =
                          IF @ + c < MaxSpend THEN @ + c ELSE MaxSpend]
           /\ governedPro' = IF r.governed /\ r.model = "pro"
                             THEN [governedPro EXCEPT ![r.scope] = @ + c]
                             ELSE governedPro
  /\ pc' = [pc EXCEPT ![w] = "idle"]
  /\ request' = [request EXCEPT ![w] = NoRequest]

\* The request fails, is cancelled, or is answered from the cache: nothing is
\* recorded, also of model calls it has already paid for.
NotRecorded(w) ==
  /\ pc[w] = "asking"
  /\ pc' = [pc EXCEPT ![w] = "idle"]
  /\ request' = [request EXCEPT ![w] = NoRequest]
  /\ UNCHANGED <<spend, governedPro>>

\* A new day has no row yet; requests that began before report to it.
Midnight ==
  /\ spend' = [s \in Scopes |-> 0]
  /\ governedPro' = [s \in Scopes |-> 0]
  /\ UNCHANGED <<pc, request>>

Next ==
  \/ \E w \in Workers : Build(w) \/ Record(w) \/ NotRecorded(w)
  \/ Midnight

Spec == Init /\ [][Next]_vars
----------------------------------------------------------------------------
TypeOK ==
  /\ spend \in [Scopes -> 0 .. MaxSpend]
  /\ pc \in [Workers -> {"idle", "asking"}]
  /\ request \in [Workers -> Requests]

(***************************************************************************)
(* The check and the record are apart, so the limit may be passed; but     *)
(* what the governed requests of a scope spend on pro in a day is bounded  *)
(* by the limit and one request per worker, whatever the others spend.     *)
(***************************************************************************)
OverrunBounded ==
  \A s \in Scopes :
    governedPro[s] <= Limit - 1 + Cardinality(Workers) * ProCost
============================================================================
