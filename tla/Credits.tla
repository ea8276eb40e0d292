------------------------------- MODULE Credits -------------------------------
(***************************************************************************)
(* The credits of one office: src/billing/credits.py.                      *)
(*                                                                         *)
(* A request spends credits of the plan first and of purchased lots after, *)
(* within the quota of the member it runs for.  consume_credit is one      *)
(* transaction that locks the usage row of the current month, decides on   *)
(* what it reads then, and writes at the end.  A workflow execution spends *)
(* before it acts; the AI features check the balance, deliver, and spend   *)
(* afterwards, without looking at the answer.                              *)
(*                                                                         *)
(* The locks of member rows and lots add nothing to the model: a member    *)
(* row is only touched under the lock of its month, and the lots are       *)
(* locked, written and released in the last step of the transaction.       *)
(* An office whose subscription pauses the AI starts no request, so only   *)
(* the two states that give credits are told apart: on trial, and paying.  *)
(***************************************************************************)
EXTENDS Integers, FiniteSetsExt

CONSTANTS
    Requests,     \* requests that may be spending at the same time
    NoRequest,    \* the month row is not locked
    Members,      \* members of the office
    NoMember,     \* a request on nobody's behalf
    Lots,         \* purchased lots, numbered by expiry
    LotCredits,   \* credits of a lot
    PlanCredits,  \* effective_monthly_credits of a paying office
    TrialCredits, \* effective_monthly_credits of a trial, given once
    MemberLimit,  \* membership.credit_limit of every member
    Flows,        \* "antes": spend and act; "depois": check, act and spend
    Weights,      \* credits an operation costs
    MaxMonth,     \* bound: months the model runs through
    MaxAsked      \* bound: credits asked for by all requests

ASSUME ProcessesAssumption == NoRequest \notin Requests /\ NoMember \notin Members
ASSUME LotsAssumption == Lots \subseteq Nat /\ IsFiniteSet(Lots) /\ LotCredits \in Nat
ASSUME PlanAssumption == PlanCredits \in Nat /\ TrialCredits \in 0..PlanCredits
                          /\ MemberLimit \in Nat
ASSUME FlowsAssumption == Flows \subseteq {"antes", "depois"} /\ Weights \subseteq Nat \ {0}
ASSUME BoundsAssumption == MaxMonth \in Nat \ {0} /\ MaxAsked \in Nat

Months == 1..MaxMonth

VARIABLES
    month,       \* current_billing_month()
    trial,       \* the office is TRIALING
    used,        \* AIUsageLog.extractions_count
    memberUsed,  \* MemberCreditUsage.credits_used
    remaining,   \* CreditLot.credits_remaining
    bought,      \* lots bought so far
    lock,        \* request holding the usage row of a month
    pc, req,     \* requests, with the office as each of them loaded it
    fromPlan,    \* what each request decided to take from the plan
    asked,       \* credits asked for so far
    paid,        \* history: credits of the requests that were told yes
    lost,        \* history: credits a request told no was charged all the same
    straddled    \* history: charges of two months were in their transactions at once

balances == <<used, memberUsed, remaining>>
history == <<paid, lost, straddled>>
vars == <<month, trial, balances, bought, lock, pc, req, fromPlan, asked, history>>

PcValues == {"idle", "deliver", "enter", "lock", "finish"}
Reqs == [flow : {"antes", "depois"}, amount : Nat, member : Members \cup {NoMember},
         month : Months, trial : BOOLEAN]
NoReq == [flow |-> "antes", amount |-> 0, member |-> NoMember, month |-> 1, trial |-> FALSE]

Init ==
    /\ month = 1
    /\ trial \in BOOLEAN
    /\ used = [m \in Months |-> 0]
    /\ memberUsed = [u \in Members |-> [m \in Months |-> 0]]
    /\ remaining = [l \in Lots |-> 0]
    /\ bought = {}
    /\ lock = [m \in Months |-> NoRequest]
    /\ pc = [r \in Requests |-> "idle"]
    /\ req = [r \in Requests |-> NoReq]
    /\ fromPlan = [r \in Requests |-> 0]
    /\ asked = 0 /\ paid = 0 /\ lost = 0 /\ straddled = FALSE

Lesser(a, b) == IF a < b THEN a ELSE b

\* The sum of a column: a recursive function, so that a proof can unfold it.
Total(f) ==
    LET sum[s \in SUBSET DOMAIN f] ==
            IF s = {} THEN 0 ELSE LET x == CHOOSE x \in s : TRUE IN f[x] + sum[s \ {x}]
    IN  sum[DOMAIN f]

\* plan_credits_used: a trial counts everything since the office signed up.
PlanUsed(m, t) == IF t THEN Total(used) ELSE used[m]
PlanLeft(m, t) ==
    LET credits == IF t THEN TrialCredits ELSE PlanCredits
    IN  IF PlanUsed(m, t) >= credits THEN 0 ELSE credits - PlanUsed(m, t)

\* check_credit_available
Available(member) ==
    /\ PlanLeft(month, trial) > 0 \/ Total(remaining) > 0
    /\ member \in Members => memberUsed[member][month] < MemberLimit

Goto(r, p) == pc' = [pc EXCEPT ![r] = p]

\* The request is answered, and what it had read is forgotten.
End(r) ==
    /\ Goto(r, "idle")
    /\ req' = [req EXCEPT ![r] = NoReq]
    /\ fromPlan' = [fromPlan EXCEPT ![r] = 0]

\* A request loads the office; an AI feature then checks the balance.
Start(r) ==
    /\ pc[r] = "idle"
    /\ \E f \in Flows, n \in Weights, u \in Members \cup {NoMember} :
           /\ asked + n <= MaxAsked
           /\ asked' = asked + n
           /\ f = "depois" => Available(u)
           /\ req' = [req EXCEPT ![r] = [flow |-> f, amount |-> n, member |-> u,
                                         month |-> month, trial |-> trial]]
           /\ Goto(r, IF f = "depois" THEN "deliver" ELSE "enter")
    /\ UNCHANGED <<month, trial, balances, bought, lock, fromPlan, history>>

\* The AI answered: the work is delivered before it is paid for.
Deliver(r) ==
    /\ pc[r] = "deliver"
    /\ Goto(r, "enter")
    /\ UNCHANGED <<month, trial, balances, bought, lock, req, fromPlan, asked, history>>

(***************************************************************************)
(* consume_credit                                                          *)
(***************************************************************************)
\* The month is read before the transaction.
Enter(r) ==
    /\ pc[r] = "enter"
    /\ req' = [req EXCEPT ![r].month = month]
    /\ Goto(r, "lock")
    /\ UNCHANGED <<month, trial, balances, bought, lock, fromPlan, asked, history>>

FromPlan(r) == Lesser(PlanLeft(req[r].month, req[r].trial), req[r].amount)
FromLots(r) == req[r].amount - FromPlan(r)

WithinQuotaBefore(r) ==  \* mutant: the amount asked for is not counted
    req[r].member \in Members => memberUsed[req[r].member][req[r].month] <= MemberLimit
WithinQuota(r) ==
    req[r].member \in Members =>
        memberUsed[req[r].member][req[r].month] + req[r].amount <= MemberLimit

\* Both refusals, the plan's and the member's, leave the balances alone.
LockAndDecide(r) ==
    LET m == req[r].month
    IN  /\ pc[r] = "lock" /\ lock[m] = NoRequest
        /\ IF FromLots(r) <= Total(remaining) /\ WithinQuota(r)
           THEN /\ lock' = [lock EXCEPT ![m] = r]
                /\ fromPlan' = [fromPlan EXCEPT ![r] = FromPlan(r)]
                /\ straddled' = (straddled \/ \E k \in Months \ {m} : lock[k] # NoRequest)
                /\ Goto(r, "finish")
                /\ UNCHANGED req
           ELSE End(r) /\ UNCHANGED <<lock, straddled>>
        /\ UNCHANGED <<month, trial, balances, bought, asked, paid, lost>>

\* _take_from_lots: what each lot gives when n credits are taken, the lot
\* that expires first giving first.
Earlier(l) == {k \in Lots : k < l}
CreditsBefore(l) == Total([k \in Earlier(l) |-> remaining[k]])
TakenWhole(l, n) ==  \* mutant: a lot gives more than it has
    LET left == n - CreditsBefore(l) IN IF left <= 0 THEN 0 ELSE left
TakenUnordered(l, n) == Lesser(remaining[l], n)  \* mutant: every lot gives the whole amount
Taken(l, n) ==
    LET left == n - CreditsBefore(l)
    IN  IF left <= 0 THEN 0 ELSE Lesser(remaining[l], left)

\* The last writes and the commit.  Lots emptied since the decision make the
\* request fail, but what was already taken is committed with the rest.
Finish(r) ==
    LET m == req[r].month
        n == req[r].amount - fromPlan[r]
        taken == [l \in Lots |-> Taken(l, n)]
        enough == n = 0 \/ Total(taken) = n
        u == req[r].member
    IN  /\ pc[r] = "finish"
        /\ remaining' = [l \in Lots |-> remaining[l] - taken[l]]
        /\ IF enough
           THEN /\ used' = [used EXCEPT ![m] = @ + fromPlan[r]]
                /\ memberUsed' = IF u \in Members
                                 THEN [memberUsed EXCEPT ![u][m] = @ + req[r].amount]
                                 ELSE memberUsed
                /\ paid' = paid + req[r].amount
                /\ UNCHANGED lost
           ELSE /\ lost' = lost + Total(taken)
                /\ UNCHANGED <<used, memberUsed, paid>>
        /\ lock' = [lock EXCEPT ![m] = NoRequest]
        /\ End(r)
        /\ UNCHANGED <<month, trial, bought, asked, straddled>>

(***************************************************************************)
(* The environment: lots are bought or granted, the office starts to pay,  *)
(* and months pass.                                                        *)
(***************************************************************************)
Buy(l) ==
    /\ l \notin bought
    /\ bought' = bought \cup {l}
    /\ remaining' = [remaining EXCEPT ![l] = LotCredits]
    /\ UNCHANGED <<month, trial, used, memberUsed, lock, pc, req, fromPlan, asked, history>>

Subscribe ==
    /\ trial
    /\ trial' = FALSE
    /\ UNCHANGED <<month, balances, bought, lock, pc, req, fromPlan, asked, history>>

MonthTurns ==
    /\ month < MaxMonth
    /\ month' = month + 1
    /\ UNCHANGED <<trial, balances, bought, lock, pc, req, fromPlan, asked, history>>

Next ==
    \/ \E r \in Requests : Start(r) \/ Deliver(r) \/ Enter(r) \/ LockAndDecide(r) \/ Finish(r)
    \/ \E l \in Lots : Buy(l)
    \/ Subscribe
    \/ MonthTurns

Spec == Init /\ [][Next]_vars

-----------------------------------------------------------------------------
TypeOK ==
    /\ month \in Months
    /\ trial \in BOOLEAN /\ straddled \in BOOLEAN
    /\ used \in [Months -> Nat]
    /\ memberUsed \in [Members -> [Months -> Nat]]
    /\ remaining \in [Lots -> Nat]
    /\ bought \subseteq Lots
    /\ lock \in [Months -> Requests \cup {NoRequest}]
    /\ pc \in [Requests -> PcValues]
    /\ req \in [Requests -> Reqs]
    /\ fromPlan \in [Requests -> Nat]
    /\ asked \in 0..MaxAsked /\ paid \in Nat /\ lost \in Nat

\* However requests overlap, a month never uses more of the plan than the plan
\* gives it.
PlanWithinMonth == \A m \in Months : used[m] <= PlanCredits

\* However requests overlap, no member goes over the quota of a month.
QuotaKept == \A u \in Members, m \in Months : memberUsed[u][m] <= MemberLimit

\* Every credit that left a balance was charged to a request that was told
\* yes, and to one only.  (Two charges that straddle the turn of the month
\* lock different rows and may find the same lots: one of them then fails and
\* keeps what it took.)
BooksBalance ==
    ~straddled =>
        Total(used) + Cardinality(bought) * LotCredits - Total(remaining) = paid

\* The credits of a trial are one package, whatever month they are spent in
\* (docs/CAD232_CREDITOS_SESSAO_E_VISUAL.md:7).  (Charges that straddle the turn
\* of the month both see the package as it was.)
TrialIsOnePackage == trial /\ ~straddled => Total(used) <= TrialCredits

\* Nothing is spent that was not there, or spent and not paid: PlanWithinMonth,
\* BooksBalance and TrialIsOnePackage.
CreditsAddUp == PlanWithinMonth /\ BooksBalance /\ TrialIsOnePackage
=============================================================================
