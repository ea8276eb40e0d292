------------------------------ MODULE RuleRuns ------------------------------
(***************************************************************************)
(* One automation rule and its executions: src/automations/engine.py.      *)
(*                                                                         *)
(* A rule is a list of steps.  An event (a dedupe key) makes a queue       *)
(* worker execute the rule: the run row is inserted, the steps are planned *)
(* and performed one after the other, and only then is the row saved.      *)
(* Steps that need a human wait in the row; approve and reject claim the   *)
(* row with a compare-and-set.  Messages that fall outside business hours  *)
(* are put on a timer that resumes the run later, and the periodic tick    *)
(* expires approvals older than seven days.  Every handler reads the row,  *)
(* works on its own copy of the steps and writes the whole copy back.      *)
(*                                                                         *)
(* Rules do not share run rows, so one rule is enough.  Editing a rule is  *)
(* the subject of RuleConfig.                                              *)
(***************************************************************************)
EXTENDS Integers, FiniteSets

CONSTANTS
    Keys,             \* dedupe keys: the events that fire the rule
    Workers,          \* queue workers and web processes
    NoWorker,         \* "no process holds the row lock"
    N,                \* number of steps of the rule
    Kind,             \* kind of each step
    RequireApproval,  \* Rule.require_approval
    DailyLimit,       \* DAILY_LIMIT, runs of the rule in 24 hours
    MaxDeliveries,    \* bound: how often one event is put on the queue
    MaxCrashes        \* bound: how many times a process dies

Idx == 1..N

\* interno: create_task, notify; google: a row of a sheet or an event of the person who owns the account;
\* envio: a message to a contact; chat: team_chat; erp: erp_call; calculo: calcular and tabela.
Internal == {"interno", "google"}
Kinds == Internal \cup {"envio", "chat", "erp", "calculo"}

ASSUME KeysAssumption == Keys # {} /\ Workers # {} /\ NoWorker \notin Workers
ASSUME StepsAssumption == N \in Nat \ {0} /\ Kind \in [Idx -> Kinds]
ASSUME RuleAssumption == RequireApproval \in BOOLEAN /\ DailyLimit \in Nat
ASSUME BoundsAssumption == MaxDeliveries \in Nat /\ MaxCrashes \in Nat

External(i) == Kind[i] \in {"envio", "chat", "erp"}
NeedsApproval(i) == External(i) /\ (RequireApproval \/ Kind[i] = "erp")

StepStatus == {"ausente", "planejado", "pulado", "feito", "erro", "bloqueado",
               "aguardando", "agendado", "recusado", "expirado"}
RunStatus == {"ausente", "running", "success", "partial", "failed", "skipped",
              "pending_approval", "rejected", "expired", "scheduled"}
Steps == [Idx -> StepStatus]
NoSteps == [i \in Idx |-> "ausente"]

(***************************************************************************)
(* The control points of the handlers, a process being at one of them.     *)
(***************************************************************************)
ExecuteAt == {"insert", "check", "disable", "perform", "save"}
DecideAt == {"claim", "refresh", "approving", "approved", "claimReject", "rejecting"}
ResumeAt == {"resume", "resumed"}
PcValues == {"idle", "notify", "expire"} \cup ExecuteAt \cup DecideAt \cup ResumeAt

VARIABLES
    enabled,     \* Rule.enabled
    status,      \* RuleRun.status by dedupe key, "ausente" when there is no row
    steps,       \* RuleRun.steps
    age,         \* 0: under a day old, 1: over a day, 2: over APPROVAL_TTL_DAYS
    consent,     \* the contact may be written to (Contact.can_receive)
    open,        \* business_hours()
    timers,      \* Schedule rows that will call resume_step(run, index)
    deliveries,  \* how often the event was queued
    notices,     \* notifications sent by _notify_outcome, by their dedupe key
    lock,        \* process whose open transaction holds the row lock
    pc, job,     \* where each process is, and its local variables
    effects,     \* history: times the effect of a step happened
    approvals,   \* history: runs some approver claimed
    crashes      \* history: processes that died

row == <<status, steps>>
env == <<age, consent, open, deliveries>>
hist == <<effects, approvals, crashes>>
vars == <<enabled, row, env, timers, notices, lock, pc, job, hist>>

\* key: the run; steps: the local copy; at: the loop index; web: the decision
\* runs in RunDecisionView's transaction; held: timers it has not committed.
Jobs == [key : Keys, steps : Steps, at : 1..(N + 1), web : BOOLEAN, held : SUBSET Idx]
Blank == [key |-> CHOOSE k \in Keys : TRUE, steps |-> NoSteps, at |-> 1,
          web |-> FALSE, held |-> {}]
JobFor(k) == [Blank EXCEPT !.key = k]

Init ==
    /\ enabled = TRUE
    /\ status = [k \in Keys |-> "ausente"]
    /\ steps = [k \in Keys |-> NoSteps]
    /\ age = [k \in Keys |-> 0]
    /\ consent \in BOOLEAN
    /\ open \in BOOLEAN
    /\ timers = [k \in Keys |-> [i \in Idx |-> 0]]
    /\ deliveries = [k \in Keys |-> 0]
    /\ notices = {}
    /\ lock = [k \in Keys |-> NoWorker]
    /\ pc = [w \in Workers |-> "idle"]
    /\ job = [w \in Workers |-> Blank]
    /\ effects = [k \in Keys |-> [i \in Idx |-> 0]]
    /\ approvals = {}
    /\ crashes = 0

Goto(w, l) == pc' = [pc EXCEPT ![w] = l]
Local(w, j) == job' = [job EXCEPT ![w] = j]
Done(w) == Goto(w, "idle") /\ Local(w, Blank)
Unlocked(k) == lock[k] = NoWorker

\* final_status: what the steps of a run add up to.
FinalStatus(s) ==
    LET states == {s[i] : i \in {j \in Idx : s[j] # "pulado"}}
    IN  IF "aguardando" \in states THEN "pending_approval"
        ELSE IF "agendado" \in states /\ states \subseteq {"feito", "agendado"}
             THEN "scheduled"
        ELSE IF states \subseteq {"feito"} THEN "success"
        ELSE IF "feito" \in states THEN "partial"
        ELSE "failed"

(***************************************************************************)
(* perform: the outcomes of one step, as its new status and whether its    *)
(* effect happened.  Consent and business hours are checked again here.  A *)
(* call to another system may fail after it took effect.                   *)
(***************************************************************************)
OutcomesSwallowed(i, force) == {<<"feito", 1>>, <<"feito", 0>>}  \* mutant: errors reported as done
Outcomes(i, force) ==
    CASE Kind[i] = "envio" /\ ~consent -> {<<"bloqueado", 0>>}
      [] Kind[i] = "envio" /\ consent /\ ~force /\ ~open -> {<<"agendado", 0>>}
      [] Kind[i] = "interno" -> {<<"feito", 1>>, <<"erro", 0>>}
      [] OTHER -> {<<"feito", 1>>, <<"erro", 0>>, <<"erro", 1>>}

\* Step i of w's copy had outcome o; a put-off message gets a timer, which the
\* web path holds until it commits.
Performed(w, i, o, next) ==
    LET k == job[w].key
        defer == o[1] = "agendado"
        hold == IF defer /\ job[w].web THEN {i} ELSE {}
    IN  /\ effects' = [effects EXCEPT ![k][i] = @ + o[2]]
        /\ Local(w, [job[w] EXCEPT !.steps = [job[w].steps EXCEPT ![i] = o[1]],
                                   !.at = next, !.held = job[w].held \cup hold])
        /\ timers' = IF defer /\ ~job[w].web
                     THEN [timers EXCEPT ![k][i] = @ + 1] ELSE timers

Perform(w, i, force, next) == \E o \in Outcomes(i, force) : Performed(w, i, o, next)

\* An update of the row, by a process that waits for the row lock.
WriteRow(k, st, s) ==
    /\ Unlocked(k)
    /\ status' = [status EXCEPT ![k] = st]
    /\ steps' = [steps EXCEPT ![k] = s]

(***************************************************************************)
(* execute(rule_id, refs, dedupe_key)                                      *)
(***************************************************************************)
ExecuteStart(w, k) ==
    /\ pc[w] = "idle" /\ deliveries[k] < MaxDeliveries
    /\ deliveries' = [deliveries EXCEPT ![k] = @ + 1]
    /\ IF enabled
       THEN Goto(w, "insert") /\ Local(w, JobFor(k))
       ELSE UNCHANGED <<pc, job>>
    /\ UNCHANGED <<enabled, row, age, consent, open, timers, notices, lock, hist>>

\* RuleRun.objects.create under uniq_rule_run_dedupe.
FreshAlways(k) == TRUE  \* mutant: no unique constraint
Fresh(k) == status[k] = "ausente"

ExecuteInsert(w) ==
    LET k == job[w].key
    IN  /\ pc[w] = "insert"
        /\ IF Fresh(k)
           THEN /\ status' = [status EXCEPT ![k] = "running"]
                /\ Goto(w, "check") /\ UNCHANGED job
           ELSE Done(w) /\ UNCHANGED status
        /\ UNCHANGED <<enabled, steps, env, timers, notices, lock, hist>>

RecentFinished ==  \* mutant: runs still going are not counted
    {k \in Keys : status[k] \notin {"ausente", "skipped", "running"} /\ age[k] = 0}
RecentRuns == {k \in Keys : status[k] \notin {"ausente", "skipped"} /\ age[k] = 0}
OverLimit == Cardinality(RecentRuns) > DailyLimit

ExecuteOverLimit(w) ==
    LET blocked == [i \in Idx |-> "bloqueado"]
    IN  /\ pc[w] = "check" /\ OverLimit
        /\ WriteRow(job[w].key, "failed", blocked)
        /\ Local(w, [job[w] EXCEPT !.steps = blocked])
        /\ Goto(w, "disable")
        /\ UNCHANGED <<enabled, env, timers, notices, lock, hist>>

ExecuteDisableRule(w) ==
    /\ pc[w] = "disable"
    /\ enabled' = FALSE
    /\ Goto(w, "notify")
    /\ UNCHANGED <<row, env, timers, notices, lock, job, hist>>

\* matches() is false for this event.
ExecuteSkip(w) ==
    /\ pc[w] = "check" /\ ~OverLimit
    /\ WriteRow(job[w].key, "skipped", steps[job[w].key])
    /\ Done(w)
    /\ UNCHANGED <<enabled, env, timers, notices, lock, hist>>

\* plan: what each step may be planned as.
Planned(i) ==
    CASE Kind[i] = "calculo" -> {"feito", "erro", "pulado"}
      [] Kind[i] = "envio" /\ ~consent -> {"bloqueado", "pulado"}
      [] OTHER -> {"planejado", "pulado", "bloqueado"}

ExecutePlan(w) ==
    /\ pc[w] = "check" /\ ~OverLimit
    /\ \E p \in Steps : /\ \A i \in Idx : p[i] \in Planned(i)
                        /\ Local(w, [job[w] EXCEPT !.steps = p])
    /\ Goto(w, "perform")
    /\ UNCHANGED <<enabled, row, env, timers, notices, lock, hist>>

\* One turn of the loop over the planned steps.
WaitsErpOnly(i) == Kind[i] = "erp"  \* mutant: forgets require_approval
Waits(i) == NeedsApproval(i)

ExecuteStep(w) ==
    LET i == job[w].at
        planned == job[w].steps[i] = "planejado"
    IN  /\ pc[w] = "perform" /\ i \in Idx
        /\ IF planned /\ ~Waits(i)
           THEN Perform(w, i, FALSE, i + 1)
           ELSE /\ LET st == IF planned THEN "aguardando" ELSE job[w].steps[i]
                   IN  Local(w, [job[w] EXCEPT !.steps = [job[w].steps EXCEPT ![i] = st],
                                               !.at = i + 1])
                /\ UNCHANGED <<effects, timers>>
        /\ UNCHANGED <<enabled, row, env, notices, lock, pc, approvals, crashes>>

ExecuteSave(w) ==
    /\ pc[w] = "perform" /\ job[w].at = N + 1
    /\ WriteRow(job[w].key, FinalStatus(job[w].steps), job[w].steps)
    /\ Goto(w, "notify")
    /\ UNCHANGED <<enabled, env, timers, notices, lock, job, hist>>

\* _notify_outcome, after execute and after resume_step.
Notices(k, st) ==
    IF st = "pending_approval" THEN {<<k, "regra-aprovar">>}
    ELSE IF st \in {"failed", "partial"} THEN {<<k, "regra-falha">>} ELSE {}

NotifyOutcome(w) ==
    /\ pc[w] = "notify"
    /\ notices' = notices \cup Notices(job[w].key, FinalStatus(job[w].steps))
    /\ Done(w)
    /\ UNCHANGED <<enabled, row, env, timers, lock, hist>>

(***************************************************************************)
(* approve and reject.  RunDecisionView calls them in a transaction: the   *)
(* row stays locked, and nothing is visible, until it commits.  The voice  *)
(* and watch path (voice.handle) calls them in autocommit.                 *)
(***************************************************************************)
DecideStart(w, k, web, approving) ==
    /\ pc[w] = "idle" /\ status[k] # "ausente"
    /\ web \/ status[k] = "pending_approval"
    /\ approving => age[k] < 2
    /\ Goto(w, IF approving THEN "claim" ELSE "claimReject")
    /\ Local(w, [JobFor(k) EXCEPT !.web = web])
    /\ UNCHANGED <<enabled, row, env, timers, notices, lock, hist>>

\* _claim: pending_approval -> running, or DecisionError.
ClaimableAlways(k) == status[k] # "ausente"  \* mutant: no compare-and-set
Claimable(k) == status[k] = "pending_approval"

Claim(w) ==
    LET k == job[w].key
    IN  /\ pc[w] \in {"claim", "claimReject"} /\ Unlocked(k)
        /\ IF Claimable(k)
           THEN /\ IF job[w].web
                   THEN lock' = [lock EXCEPT ![k] = w] /\ UNCHANGED status
                   ELSE status' = [status EXCEPT ![k] = "running"] /\ UNCHANGED lock
                /\ approvals' = IF pc[w] = "claim" THEN approvals \cup {k} ELSE approvals
                /\ Goto(w, IF pc[w] = "claim" THEN "refresh" ELSE "rejecting")
                /\ UNCHANGED job
           ELSE Done(w) /\ UNCHANGED <<status, lock, approvals>>
        /\ UNCHANGED <<enabled, steps, env, timers, notices, effects, crashes>>

\* run.refresh_from_db()
Refresh(w) ==
    /\ pc[w] = "refresh"
    /\ Local(w, [job[w] EXCEPT !.steps = steps[job[w].key]])
    /\ Goto(w, "approving")
    /\ UNCHANGED <<enabled, row, env, timers, notices, lock, hist>>

ApproveStep(w) ==
    LET i == job[w].at
    IN  /\ pc[w] = "approving" /\ i \in Idx
        /\ IF job[w].steps[i] = "aguardando"
           THEN Perform(w, i, FALSE, i + 1)
           ELSE Local(w, [job[w] EXCEPT !.at = i + 1]) /\ UNCHANGED <<effects, timers>>
        /\ UNCHANGED <<enabled, row, env, notices, lock, pc, approvals, crashes>>

\* The final save of a decision, which commits the transaction of the web path.
Decide(w, st, s) ==
    LET k == job[w].key
    IN  /\ lock[k] = (IF job[w].web THEN w ELSE NoWorker)
        /\ status' = [status EXCEPT ![k] = st]
        /\ steps' = [steps EXCEPT ![k] = s]
        /\ lock' = [lock EXCEPT ![k] = NoWorker]
        /\ timers' = [timers EXCEPT ![k] =
                        [i \in Idx |-> IF i \in job[w].held THEN @[i] + 1 ELSE @[i]]]
        /\ Done(w)
        /\ UNCHANGED <<enabled, env, notices, hist>>

ApproveSave(w) ==
    /\ pc[w] = "approving" /\ job[w].at = N + 1
    /\ Decide(w, FinalStatus(job[w].steps), job[w].steps)

Recast(s, to) == [i \in Idx |-> IF s[i] = "aguardando" THEN to ELSE s[i]]

\* reject re-reads the row before it recasts the waiting steps.
RejectRefresh(w) ==
    /\ pc[w] = "rejecting" /\ job[w].at = 1
    /\ Local(w, [job[w] EXCEPT !.steps = Recast(steps[job[w].key], "recusado"), !.at = N + 1])
    /\ UNCHANGED <<enabled, row, env, timers, notices, lock, pc, hist>>

RejectSave(w) ==
    /\ pc[w] = "rejecting" /\ job[w].at = N + 1
    /\ Decide(w, "rejected", job[w].steps)

(***************************************************************************)
(* resume_step(run_id, index), called by a one-off Schedule row once the   *)
(* office is open again.                                                   *)
(***************************************************************************)
DueAlways(k, i) == TRUE  \* mutant: runs whether or not a Schedule row is left
Due(k, i) == timers[k][i] > 0

ResumeStart(w, k, i) ==
    /\ pc[w] = "idle" /\ Due(k, i) /\ open
    /\ timers' = [timers EXCEPT ![k][i] = @ - 1]
    /\ IF (enabled \/ status[k] = "scheduled") /\ steps[k][i] = "agendado"
       THEN /\ Goto(w, "resume")
            /\ Local(w, [JobFor(k) EXCEPT !.steps = steps[k], !.at = i])
       ELSE UNCHANGED <<pc, job>>
    /\ UNCHANGED <<enabled, row, env, notices, lock, hist>>

ResumePerform(w) ==
    /\ pc[w] = "resume"
    /\ Perform(w, job[w].at, TRUE, job[w].at)
    /\ Goto(w, "resumed")
    /\ UNCHANGED <<enabled, row, env, notices, lock, approvals, crashes>>

ResumeSave(w) ==
    /\ pc[w] = "resumed"
    /\ WriteRow(job[w].key, FinalStatus(job[w].steps), job[w].steps)
    /\ Goto(w, "notify")
    /\ UNCHANGED <<enabled, env, timers, notices, lock, job, hist>>

(***************************************************************************)
(* The last part of tick: approvals older than APPROVAL_TTL_DAYS.          *)
(***************************************************************************)
OverdueInTime(k) == age[k] = 1  \* mutant: looks at one age instead of all the older ones
Overdue(k) == age[k] = 2

ExpireRead(w, k) ==
    /\ pc[w] = "idle" /\ status[k] = "pending_approval" /\ Overdue(k)
    /\ Local(w, [JobFor(k) EXCEPT !.steps = Recast(steps[k], "expirado")])
    /\ Goto(w, "expire")
    /\ UNCHANGED <<enabled, row, env, timers, notices, lock, hist>>

ExpireSave(w) ==
    /\ pc[w] = "expire"
    /\ WriteRow(job[w].key, "expired", job[w].steps)
    /\ Done(w)
    /\ UNCHANGED <<enabled, env, timers, notices, lock, hist>>

(***************************************************************************)
(* A process dies.  An open transaction is rolled back; in autocommit what *)
(* was written stays.  A timer task may or may not be delivered again.     *)
(***************************************************************************)
Crash(w) ==
    LET k == job[w].key
    IN  /\ pc[w] # "idle" /\ crashes < MaxCrashes
        /\ crashes' = crashes + 1
        /\ lock' = IF lock[k] = w THEN [lock EXCEPT ![k] = NoWorker] ELSE lock
        /\ \/ UNCHANGED timers
           \/ /\ pc[w] \in ResumeAt
              /\ timers' = [timers EXCEPT ![k][job[w].at] = @ + 1]
        /\ Done(w)
        /\ UNCHANGED <<enabled, row, env, notices, effects, approvals>>

(***************************************************************************)
(* The environment: the clock, the contact and whoever switches the rule.  *)
(***************************************************************************)
GrowOld(k) ==
    /\ status[k] # "ausente" /\ age[k] < 2
    /\ age' = [age EXCEPT ![k] = @ + 1]
    /\ UNCHANGED <<enabled, row, consent, open, deliveries, timers, notices, lock, pc, job, hist>>

OfficeHours ==
    /\ open' = ~open
    /\ UNCHANGED <<enabled, row, age, consent, deliveries, timers, notices, lock, pc, job, hist>>

ContactChoice ==
    /\ consent' = ~consent
    /\ UNCHANGED <<enabled, row, age, open, deliveries, timers, notices, lock, pc, job, hist>>

\* RuleEnableView
SwitchRule ==
    /\ enabled' = ~enabled
    /\ UNCHANGED <<row, env, timers, notices, lock, pc, job, hist>>

Execute(w) == \/ \E k \in Keys : ExecuteStart(w, k)
              \/ ExecuteInsert(w) \/ ExecuteOverLimit(w) \/ ExecuteDisableRule(w)
              \/ ExecuteSkip(w) \/ ExecutePlan(w) \/ ExecuteStep(w) \/ ExecuteSave(w)
Decision(w) == \/ \E k \in Keys, web, approving \in BOOLEAN : DecideStart(w, k, web, approving)
               \/ Claim(w) \/ Refresh(w) \/ ApproveStep(w) \/ ApproveSave(w)
               \/ RejectRefresh(w) \/ RejectSave(w)
Resume(w) == \/ \E k \in Keys, i \in Idx : ResumeStart(w, k, i)
             \/ ResumePerform(w) \/ ResumeSave(w)
Expire(w) == (\E k \in Keys : ExpireRead(w, k)) \/ ExpireSave(w)

Next ==
    \/ \E w \in Workers : Execute(w) \/ Decision(w) \/ Resume(w) \/ Expire(w)
                          \/ NotifyOutcome(w) \/ Crash(w)
    \/ \E k \in Keys : GrowOld(k)
    \/ OfficeHours \/ ContactChoice \/ SwitchRule

Spec == Init /\ [][Next]_vars

\* A process that has begun a handler goes on with it.
Continue(w) == pc[w] # "idle" /\ (Execute(w) \/ Decision(w) \/ Resume(w) \/ Expire(w)
                                  \/ NotifyOutcome(w))
\* The clock moves, and tick, which the scheduler queues every 15 minutes,
\* gets a worker sooner or later.
FairSpec ==
    /\ Spec
    /\ \A w \in Workers : WF_vars(Continue(w))
    /\ \A k \in Keys : WF_vars(GrowOld(k))
    /\ \A k \in Keys : SF_vars(\E w \in Workers : ExpireRead(w, k))
(***************************************************************************)
(* Properties.                                                             *)
(***************************************************************************)
\* Every variable keeps to its range.
TypeOK ==
    /\ enabled \in BOOLEAN
    /\ status \in [Keys -> RunStatus]
    /\ steps \in [Keys -> Steps]
    /\ age \in [Keys -> 0..2]
    /\ consent \in BOOLEAN
    /\ open \in BOOLEAN
    /\ timers \in [Keys -> [Idx -> Nat]]
    /\ deliveries \in [Keys -> Nat]
    /\ notices \subseteq Keys \X {"regra-aprovar", "regra-falha"}
    /\ lock \in [Keys -> Workers \cup {NoWorker}]
    /\ pc \in [Workers -> PcValues]
    /\ job \in [Workers -> Jobs]
    /\ effects \in [Keys -> [Idx -> Nat]]
    /\ approvals \subseteq Keys
    /\ crashes \in Nat

\* Nothing that needs a human leaves the office before one approved that very
\* run, whatever the handlers overwrite and wherever they die.
NothingLeavesUnapproved ==
    \A k \in Keys, i \in Idx :
        NeedsApproval(i) /\ effects[k][i] > 0 => k \in approvals

\* A step the row records as done really happened: no interleaving of the
\* whole-row writes invents a success.
DoneIsReal ==
    \A k \in Keys, i \in Idx :
        steps[k][i] = "feito" /\ Kind[i] # "calculo" => effects[k][i] > 0

\* However often an event is delivered, and whoever dies, an internal step (a
\* task, a notification, an event in Google) happens at most once for it.
InternalOnce ==
    \A k \in Keys, i \in Idx : Kind[i] \in Internal => effects[k][i] <= 1

\* While no process dies, no step of a run has its effect twice: two clicks on
\* approve, a resume and the tick included.
TwoClicksSendOnce ==
    crashes = 0 => \A k \in Keys, i \in Idx : effects[k][i] <= 1

\* Nothing happens twice that must not: InternalOnce and TwoClicksSendOnce.
NothingTwice == InternalOnce /\ TwoClicksSendOnce

\* However the inserts and the counts of the workers interleave, no more runs
\* of the last day act than the limit allows.
DailyLimitHolds ==
    Cardinality({k \in Keys : age[k] = 0 /\ \E i \in Idx : effects[k][i] > 0}) <= DailyLimit

\* Once a run was decided it is not put up for decision again.
Decided(k) == status[k] \in {"success", "partial", "failed", "rejected", "expired", "scheduled"}
NeverReopened == [][\A k \in Keys : Decided(k) => status'[k] \notin {"pending_approval", "running"}]_vars

\* A run does not stay "running" unless the process that ran it died.
RunsSettle == \A k \in Keys : (status[k] = "running") ~> (status[k] # "running" \/ crashes > 0)

\* A pending approval does not wait for ever: someone decides or tick expires it.
ApprovalsEnd == \A k \in Keys : (status[k] = "pending_approval") ~> (status[k] # "pending_approval")

\* Every run comes to its end: RunsSettle and ApprovalsEnd.
RunsEnd == RunsSettle /\ ApprovalsEnd
=============================================================================
