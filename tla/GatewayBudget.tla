--------------------------- MODULE GatewayBudget ---------------------------
(***************************************************************************)
(* The model gateway's monthly budget for one tenant.  A request checks    *)
(* what is on the books for the month, calls a provider for minutes with   *)
(* no transaction open, and books the cost afterwards, in a transaction of *)
(* its own; requests run side by side in the gateway's threads.            *)
(*                                                                         *)
(* The provider bills for every answer it produces.  Some answers are of   *)
(* no use to the gateway (refused, cut off at max_tokens, invalid JSON),   *)
(* and some requests end in an exception the gateway does not expect.      *)
(* Embeddings may be routed to the gateway's own function, the default:    *)
(* they are answered without check and without record.                     *)
(*                                                                         *)
(* Amounts are whole numbers of a small unit of money.                     *)
(***************************************************************************)
EXTENDS Integers, FiniteSets

CONSTANTS
  Threads,     \* threads that serve requests (FastAPI's thread pool)
  Routes,      \* provider and model combinations a task may be routed to
  Priced,      \* routes whose model has an entry in PRICING
  Limit,       \* llm_budgets.monthly_limit_usd
  MaxCost,     \* what one answer can cost at most
  MaxCalls,    \* bound on requests that pass the check
  MaxLocal,    \* bound on embeddings the gateway computes itself
  MaxMonths    \* bound on months

ASSUME ThreadsAssumption == IsFiniteSet(Threads)
ASSUME RoutesAssumption  == Priced \subseteq Routes
ASSUME AmountsAssumption == Limit \in Nat /\ MaxCost \in Nat
ASSUME CallsAssumption   == MaxCalls \in Nat /\ MaxLocal \in Nat /\ MaxMonths \in Nat

VARIABLES
  stage,    \* stage[w]: where thread w is in its request
  route,    \* route[w]: route of that request
  cost,     \* cost[w]: what the provider billed for it
  spent,    \* sum of llm_usage.cost_usd of the current month
  month,    \* months that have begun
  calls,    \* requests that passed the check
  \* history, over all months
  billed,   \* what the providers billed
  metered,  \* sum of all llm_usage.cost_usd
  rows,     \* llm_usage rows with status "ok"
  replies,  \* answers returned to callers
  local     \* those the gateway computed itself

callVars    == <<stage, route, cost>>
bookVars    == <<spent, metered, rows>>
gatewayVars == <<stage, route, cost, spent, month, calls, billed, metered, rows, replies, local>>

Stages == {"idle", "asking", "answered", "refused", "recorded"}

GatewayInit ==
  /\ stage = [w \in Threads |-> "idle"]
  /\ route \in [Threads -> Routes]
  /\ cost  = [w \in Threads |-> 0]
  /\ spent = 0 /\ month = 1 /\ calls = 0
  /\ billed = 0 /\ metered = 0 /\ rows = 0 /\ replies = 0 /\ local = 0

Goes(w, from, to) == stage[w] = from /\ stage' = [stage EXCEPT ![w] = to]

-----------------------------------------------------------------------------
\* [variant: the budget is looked up only when the tenant's first call ever is made]
Check_Once(w, r) ==
  /\ calls < MaxCalls
  /\ calls > 0 \/ spent < Limit
  /\ Goes(w, "idle", "asking")
  /\ route' = [route EXCEPT ![w] = r]
  /\ cost'  = [cost EXCEPT ![w] = 0]
  /\ calls' = calls + 1
  /\ UNCHANGED <<bookVars, month, billed, replies, local>>

\* [variant: a budget of which nothing is left still lets one more call pass]
Check_AtLimit(w, r) ==
  /\ calls < MaxCalls
  /\ spent <= Limit
  /\ Goes(w, "idle", "asking")
  /\ route' = [route EXCEPT ![w] = r]
  /\ cost'  = [cost EXCEPT ![w] = 0]
  /\ calls' = calls + 1
  /\ UNCHANGED <<bookVars, month, billed, replies, local>>

\* _check_budget finds less on the books of this month than the limit, and the
\* request goes to the provider of its route.  (At the limit the caller gets 402
\* and nothing changes.)
Check(w, r) ==
  /\ calls < MaxCalls
  /\ spent < Limit
  /\ Goes(w, "idle", "asking")
  /\ route' = [route EXCEPT ![w] = r]
  /\ cost'  = [cost EXCEPT ![w] = 0]
  /\ calls' = calls + 1
  /\ UNCHANGED <<bookVars, month, billed, replies, local>>

\* The provider answers, and bills for it.  A declined, truncated or malformed
\* answer is a ProviderError, though the tokens were used.
Answer(w, c, usable) ==
  /\ Goes(w, "asking", IF usable THEN "answered" ELSE "refused")
  /\ cost'   = [cost EXCEPT ![w] = c]
  /\ billed' = billed + c
  /\ UNCHANGED <<route, bookVars, month, calls, replies, local>>

\* Rate limits, bad requests and an unreachable provider: an error, no bill.
ProviderFails(w) ==
  /\ Goes(w, "asking", "refused")
  /\ UNCHANGED <<route, cost, bookVars, month, calls, billed, replies, local>>

\* cost_usd: a model without an entry in PRICING costs nothing.
Charge(w) == IF route[w] \in Priced THEN cost[w] ELSE 0

\* _record after an answer: one llm_usage row with its cost, charged to the month
\* in which it is written.
Record(w) ==
  /\ Goes(w, "answered", "recorded")
  /\ spent'   = spent + Charge(w)
  /\ metered' = metered + Charge(w)
  /\ rows'    = rows + 1
  /\ UNCHANGED <<route, cost, month, calls, billed, replies, local>>

\* A ProviderError: /v1/structured records it with zero tokens, /v1/embeddings
\* not at all; either way nothing is charged and the caller gets an error.
Reject(w) ==
  /\ Goes(w, "refused", "idle")
  /\ UNCHANGED <<route, cost, bookVars, month, calls, billed, replies, local>>

\* [variant: the answer is returned even if it could not be recorded]
Breaks_Replies(w) ==
  /\ stage[w] \in {"asking", "answered"}
  /\ stage'   = [stage EXCEPT ![w] = "idle"]
  /\ replies' = IF stage[w] = "answered" THEN replies + 1 ELSE replies
  /\ UNCHANGED <<route, cost, bookVars, month, calls, billed, local>>

\* Any other exception ends the request with an error: LiteLLM's transport errors
\* and timeouts, the object store or the database while recording, a crash.
Breaks(w) ==
  /\ stage[w] \in {"asking", "answered"}
  /\ stage' = [stage EXCEPT ![w] = "idle"]
  /\ UNCHANGED <<route, cost, bookVars, month, calls, billed, replies, local>>

\* The response is returned, whether or not the caller still waits for it.
Reply(w) ==
  /\ Goes(w, "recorded", "idle")
  /\ replies' = replies + 1
  /\ UNCHANGED <<route, cost, bookVars, month, calls, billed, local>>

\* /v1/embeddings with the local route: answered at once.
EmbedsLocally(w) ==
  /\ stage[w] = "idle"
  /\ local < MaxLocal
  /\ local'   = local + 1
  /\ replies' = replies + 1
  /\ UNCHANGED <<callVars, bookVars, month, calls, billed>>

\* date_trunc('month', now()) moves on: the sum starts over.
NewMonth ==
  /\ month < MaxMonths
  /\ month' = month + 1
  /\ spent' = 0
  /\ UNCHANGED <<callVars, calls, billed, metered, rows, replies, local>>

-----------------------------------------------------------------------------
ThreadNext(w) ==
  \/ \E r \in Routes : Check(w, r)
  \/ \E c \in 0 .. MaxCost, usable \in BOOLEAN : Answer(w, c, usable)
  \/ ProviderFails(w) \/ Record(w) \/ Reject(w) \/ Breaks(w) \/ Reply(w)
  \/ EmbedsLocally(w)

GatewayNext == (\E w \in Threads : ThreadNext(w)) \/ NewMonth

GatewaySpec == GatewayInit /\ [][GatewayNext]_gatewayVars

-----------------------------------------------------------------------------
(* Properties. *)

GatewayTypeOK ==
  /\ stage \in [Threads -> Stages]
  /\ route \in [Threads -> Routes]
  /\ cost  \in [Threads -> 0 .. MaxCost]
  /\ spent \in Nat /\ month \in Nat /\ calls \in Nat
  /\ billed \in Nat /\ metered \in Nat /\ rows \in Nat /\ replies \in Nat
  /\ local \in Nat

\* Requests that passed the check and may still be charged.
Charging == {w \in Threads : stage[w] \in {"asking", "answered"}}

\* Requests whose answer is recorded and not returned yet.
Returning == {w \in Threads : stage[w] = "recorded"}

\* The most that can be on a month's books: a cent short of the limit, and one
\* answer of every thread that passed the check just then.
Ceiling == IF Limit = 0 THEN 0 ELSE Limit - 1 + Cardinality(Threads) * MaxCost

\* "Each call checks the tenant's monthly budget": though checking and booking
\* are minutes and transactions apart and every thread may be in between, a
\* month never books more than the limit and one answer per thread; a budget
\* of zero books nothing.
OverspendBounded == spent <= Ceiling

\* The inductive form: what is booked and what may still be booked.
ChargesFit ==
  IF Limit = 0 THEN spent = 0 /\ Charging = {}
  ELSE spent + Cardinality(Charging) * MaxCost <= Ceiling

\* No caller gets a provider's answer that is not on the books: the rows with status
\* "ok" are such answers, returned or just being returned.  Embeddings that the
\* gateway computes itself are excepted; app.py records nothing of them.
RepliesAreOnTheBooks == rows = (replies - local) + Cardinality(Returning)

\* "Every call: checks the tenant's monthly budget, ... records usage": no answer is
\* returned without a row.  The local embeddings break it.
EveryAnswerIsRecorded == replies <= rows

\* "Every call ... records usage", and llm.py's "metering": when no request is
\* under way, what the providers billed has been metered.
BilledIsMetered == (\A w \in Threads : stage[w] = "idle") => billed = metered

GatewayIInv == GatewayTypeOK /\ ChargesFit
=============================================================================
