-------------------------- MODULE ExecutionPipeline --------------------------
(***************************************************************************)
(* Executions of workflows: src/workflows/tasks.py, their human review     *)
(* (src/aigov/views.py ReviewExecutionView) and the quota check in front   *)
(* of them (src/billing/decorators.py).                                    *)
(*                                                                         *)
(* A webhook or an analysed e-mail creates an ExecutionLog and queues its  *)
(* processing.  A queue worker reads the log, passes the gates, takes one  *)
(* credit, calls the outside system up to MaxAttempts times, and records   *)
(* the result.  An execution whose data an AI extracted waits for a person *)
(* first: approving it queues it again, rejecting it discards its data.    *)
(* The worker never locks the log; a reviewer does while approving, since  *)
(* the approval and its queueing are one transaction.                      *)
(***************************************************************************)
EXTENDS Integers, FiniteSets

CONSTANTS
    Logs,            \* ExecutionLog rows
    Workers,         \* queue workers
    Reviewers,       \* managers deciding reviews
    NoOne,           \* the row is not locked
    AiOrigin,        \* logs whose payload an AI extracted
    ReviewRequired,  \* policy.requires_execution_review()
    Credits,         \* credits the office has left
    MaxAttempts,     \* _WORKFLOW_EXTERNAL_MAX_ATTEMPTS
    MaxQueued,       \* bound: messages of one log waiting at once
    MaxCrashes       \* bound: how many times a process dies

ASSUME LogsAssumption == Logs # {} /\ AiOrigin \subseteq Logs /\ ReviewRequired \in BOOLEAN
ASSUME ProcessesAssumption == NoOne \notin Reviewers
ASSUME NumbersAssumption == Credits \in Nat /\ MaxAttempts \in Nat \ {0}
ASSUME BoundsAssumption == MaxQueued \in Nat \ {0} /\ MaxCrashes \in Nat

Statuses == {"ausente", "PENDING", "SUCCESS", "FAILED", "PENDING_REVIEW", "QUOTA_EXCEEDED"}
Decisions == {"", "approved", "rejected"}
WorkerPc == {"idle", "hold", "charge", "dispatch", "succeed", "count", "audit",
             "auditError", "fail"}
ReviewerPc == {"idle", "approve", "reject", "enqueue", "commit"}

VARIABLES
    status, decision, payload,  \* the rows: payload is FALSE once discarded
    lock,      \* the reviewer whose transaction has written the row
    creating,  \* logs created and not yet queued by their creator
    queue,     \* messages waiting, by log
    credits,   \* credits left
    active,    \* workflow.is_active and organization.is_active
    pc, doing, tries,  \* workers: where, on which log, the attempt
    rpc, seen,         \* reviewers: where, on which log
    sent,      \* history: times the action took effect outside
    charged,   \* history: credits taken, by log
    audited,   \* history: audit events of outside calls, by log
    decided,   \* history: decisions a reviewer was told were accepted
    afterReject,  \* history: the action took effect after such a rejection
    crashes

rows == <<status, decision, payload>>
worker == <<pc, doing, tries>>
reviewer == <<rpc, seen>>
hist == <<sent, charged, audited, decided, afterReject, crashes>>
vars == <<rows, lock, creating, queue, credits, active, worker, reviewer, hist>>

SomeLog == CHOOSE l \in Logs : TRUE

Init ==
    /\ status = [l \in Logs |-> "ausente"]
    /\ decision = [l \in Logs |-> ""]
    /\ payload = [l \in Logs |-> TRUE]
    /\ lock = [l \in Logs |-> NoOne]
    /\ creating = {}
    /\ queue = [l \in Logs |-> 0]
    /\ credits = Credits
    /\ active = TRUE
    /\ pc = [w \in Workers |-> "idle"]
    /\ doing = [w \in Workers |-> SomeLog]
    /\ tries = [w \in Workers |-> 1]
    /\ rpc = [v \in Reviewers |-> "idle"]
    /\ seen = [v \in Reviewers |-> SomeLog]
    /\ sent = [l \in Logs |-> 0]
    /\ charged = [l \in Logs |-> 0]
    /\ audited = [l \in Logs |-> 0]
    /\ decided = {}
    /\ afterReject = FALSE
    /\ crashes = 0

Unlocked(l) == lock[l] = NoOne
SetStatus(l, st) == Unlocked(l) /\ status' = [status EXCEPT ![l] = st]
Goto(w, p) == pc' = [pc EXCEPT ![w] = p]

(***************************************************************************)
(* execute_workflow_pipeline, under @check_quota_limit.                    *)
(***************************************************************************)
CreateLog(l) ==
    /\ status[l] = "ausente"
    /\ IF credits > 0
       THEN SetStatus(l, "PENDING") /\ creating' = creating \cup {l}
       ELSE SetStatus(l, "QUOTA_EXCEEDED") /\ UNCHANGED creating
    /\ UNCHANGED <<decision, payload, lock, queue, credits, active, worker, reviewer, hist>>

EnqueueLog(l) ==
    /\ l \in creating
    /\ creating' = creating \ {l}
    /\ queue' = [queue EXCEPT ![l] = @ + 1]
    /\ UNCHANGED <<rows, lock, credits, active, worker, reviewer, hist>>

\* QueueUnavailable: the caller is answered 503.
StatusWhenQueueDownKept(l) == status[l]  \* mutant: the log is left as it was
StatusWhenQueueDown(l) == "FAILED"

QueueUnavailable(l) ==
    /\ l \in creating
    /\ creating' = creating \ {l}
    /\ SetStatus(l, StatusWhenQueueDown(l))
    /\ UNCHANGED <<decision, payload, lock, queue, credits, active, worker, reviewer, hist>>

(***************************************************************************)
(* process_workflow_execution.                                             *)
(***************************************************************************)
HeldNever(l) == FALSE  \* mutant: no human review
HeldForReview(l) == l \in AiOrigin /\ decision[l] # "approved" /\ ReviewRequired

\* The log is read once and the gates decide on what was read.
Take(w) ==
    /\ pc[w] = "idle"
    /\ \E l \in Logs :
           /\ queue[l] > 0
           /\ queue' = [queue EXCEPT ![l] = @ - 1]
           /\ doing' = [doing EXCEPT ![w] = l]
           /\ Goto(w, IF ~active THEN "fail" ELSE IF HeldForReview(l) THEN "hold" ELSE "charge")
    /\ tries' = [tries EXCEPT ![w] = 1]
    /\ UNCHANGED <<rows, lock, creating, credits, active, reviewer, hist>>

Hold(w) ==
    /\ pc[w] = "hold"
    /\ SetStatus(doing[w], "PENDING_REVIEW")
    /\ Goto(w, "idle")
    /\ UNCHANGED <<decision, payload, lock, creating, queue, credits, active, doing, tries, reviewer, hist>>

\* check_and_update_quota: see Credits for what it does to the balances.
AfterChargeIgnored == "dispatch"  \* mutant: the refusal is not looked at
AfterCharge == IF credits > 0 THEN "dispatch" ELSE "fail"

Charge(w) ==
    LET l == doing[w]
        n == IF credits > 0 THEN 1 ELSE 0
    IN  /\ pc[w] = "charge"
        /\ credits' = credits - n
        /\ charged' = [charged EXCEPT ![l] = @ + n]
        /\ Goto(w, AfterCharge)
        /\ UNCHANGED <<rows, lock, creating, queue, active, doing, tries, reviewer,
                       sent, audited, decided, afterReject, crashes>>

\* The outcomes of _dispatch_action_execution, with whether the action took
\* effect: done; an HTTP error, which is tried again; any other error (no
\* action, foreign connection, unresolved template, refused recipient, SMTP).
AfterDispatchOnceMore(w, outcome) ==  \* mutant: one attempt too many
    CASE outcome = "done" -> "succeed"
      [] outcome = "http" /\ tries[w] <= MaxAttempts -> "dispatch"
      [] outcome = "http" /\ tries[w] > MaxAttempts -> "auditError"
      [] outcome = "error" -> "fail"
AfterDispatchSwallowed(w, outcome) ==  \* mutant: the last HTTP error falls through
    CASE outcome = "http" /\ tries[w] < MaxAttempts -> "dispatch"
      [] outcome = "error" -> "fail"
      [] OTHER -> "succeed"
AfterDispatch(w, outcome) ==
    CASE outcome = "done" -> "succeed"
      [] outcome = "http" /\ tries[w] < MaxAttempts -> "dispatch"
      [] outcome = "http" /\ tries[w] >= MaxAttempts -> "auditError"
      [] outcome = "error" -> "fail"

Dispatch(w) ==
    /\ pc[w] = "dispatch"
    /\ \E outcome \in {"done", "http", "error"}, effect \in 0..1 :
           /\ outcome = "done" => effect = 1
           /\ sent' = [sent EXCEPT ![doing[w]] = @ + effect]
           /\ afterReject' = (afterReject \/ (effect = 1 /\ <<doing[w], "reject">> \in decided))
           /\ Goto(w, AfterDispatch(w, outcome))
           /\ tries' = [tries EXCEPT ![w] =
                            IF AfterDispatch(w, outcome) = "dispatch" THEN @ + 1 ELSE @]
    /\ UNCHANGED <<rows, lock, creating, queue, credits, active, doing, reviewer,
                   charged, audited, decided, crashes>>

Succeed(w) ==
    /\ pc[w] = "succeed"
    /\ SetStatus(doing[w], "SUCCESS")
    /\ Goto(w, "count")
    /\ UNCHANGED <<decision, payload, lock, creating, queue, credits, active, doing, tries, reviewer, hist>>

\* record_automation_run and record_outbound_message_send; an exception here
\* is caught below and turns the execution into a failed one.
Count(w) ==
    /\ pc[w] = "count"
    /\ \E next \in {"audit", "fail"} : Goto(w, next)
    /\ UNCHANGED <<rows, lock, creating, queue, credits, active, doing, tries, reviewer, hist>>

\* _audit_outbound, and the notifications, which swallow their errors.
AuditOutbound(w) ==
    /\ pc[w] \in {"audit", "auditError"}
    /\ audited' = [audited EXCEPT ![doing[w]] = @ + 1]
    /\ Goto(w, IF pc[w] = "audit" THEN "idle" ELSE "fail")
    /\ UNCHANGED <<rows, lock, creating, queue, credits, active, doing, tries, reviewer,
                   sent, charged, decided, afterReject, crashes>>

Fail(w) ==
    /\ pc[w] = "fail"
    /\ SetStatus(doing[w], "FAILED")
    /\ Goto(w, "idle")
    /\ UNCHANGED <<decision, payload, lock, creating, queue, credits, active, doing, tries, reviewer, hist>>

(***************************************************************************)
(* ReviewExecutionView.post                                                *)
(***************************************************************************)
MayReview(l) == status[l] = "PENDING_REVIEW"

ReviewRead(v) ==
    /\ rpc[v] = "idle"
    /\ \E l \in Logs, p \in {"approve", "reject"} :
           /\ MayReview(l)
           /\ seen' = [seen EXCEPT ![v] = l]
           /\ rpc' = [rpc EXCEPT ![v] = p]
    /\ UNCHANGED <<rows, lock, creating, queue, credits, active, worker, hist>>

\* The save is in a transaction: it locks the row, and nobody else sees it
\* before the commit.
ApproveSave(v) ==
    /\ rpc[v] = "approve" /\ Unlocked(seen[v])
    /\ lock' = [lock EXCEPT ![seen[v]] = v]
    /\ rpc' = [rpc EXCEPT ![v] = "enqueue"]
    /\ UNCHANGED <<rows, creating, queue, credits, active, worker, seen, hist>>

ApproveEnqueue(v) ==
    /\ rpc[v] = "enqueue"
    /\ \/ /\ queue[seen[v]] < MaxQueued
          /\ queue' = [queue EXCEPT ![seen[v]] = @ + 1]
          /\ rpc' = [rpc EXCEPT ![v] = "commit"]
          /\ UNCHANGED lock
       \/ /\ lock' = [lock EXCEPT ![seen[v]] = NoOne]  \* broker down: rolled back
          /\ rpc' = [rpc EXCEPT ![v] = "idle"]
          /\ UNCHANGED queue
    /\ UNCHANGED <<rows, creating, credits, active, worker, seen, hist>>

ApproveCommit(v) ==
    LET l == seen[v]
    IN  /\ rpc[v] = "commit"
        /\ status' = [status EXCEPT ![l] = "PENDING"]
        /\ decision' = [decision EXCEPT ![l] = "approved"]
        /\ lock' = [lock EXCEPT ![l] = NoOne]
        /\ decided' = decided \cup {<<l, "approve">>}
        /\ rpc' = [rpc EXCEPT ![v] = "idle"]
        /\ UNCHANGED <<payload, creating, queue, credits, active, worker, seen,
                       sent, charged, audited, afterReject, crashes>>

RejectSave(v) ==
    LET l == seen[v]
    IN  /\ rpc[v] = "reject"
        /\ SetStatus(l, "FAILED")
        /\ decision' = [decision EXCEPT ![l] = "rejected"]
        /\ payload' = [payload EXCEPT ![l] = FALSE]
        /\ decided' = decided \cup {<<l, "reject">>}
        /\ rpc' = [rpc EXCEPT ![v] = "idle"]
        /\ UNCHANGED <<lock, creating, queue, credits, active, worker, seen,
                       sent, charged, audited, afterReject, crashes>>

(***************************************************************************)
(* The workflow is switched off and on again; a worker dies or runs        *)
(* out of Q_CLUSTER['timeout'], and its message may or may not come back.  *)
(***************************************************************************)
SetActive == active' = ~active
             /\ UNCHANGED <<rows, lock, creating, queue, credits, worker, reviewer, hist>>

Crash(w) ==
    /\ pc[w] # "idle" /\ crashes < MaxCrashes
    /\ crashes' = crashes + 1
    /\ Goto(w, "idle")
    /\ \E back \in 0..1 : queue' = [queue EXCEPT ![doing[w]] = @ + back]
    /\ UNCHANGED <<rows, lock, creating, credits, active, doing, tries, reviewer,
                   sent, charged, audited, decided, afterReject>>

\* The open transaction of a reviewer is rolled back; its message is not.
ReviewerCrash(v) ==
    /\ rpc[v] # "idle" /\ crashes < MaxCrashes
    /\ crashes' = crashes + 1
    /\ rpc' = [rpc EXCEPT ![v] = "idle"]
    /\ lock' = [l \in Logs |-> IF lock[l] = v THEN NoOne ELSE lock[l]]
    /\ UNCHANGED <<rows, creating, queue, credits, active, worker, seen,
                   sent, charged, audited, decided, afterReject>>

CreatorCrash(l) ==
    /\ l \in creating /\ crashes < MaxCrashes
    /\ creating' = creating \ {l}
    /\ crashes' = crashes + 1
    /\ UNCHANGED <<rows, lock, queue, credits, active, worker, reviewer,
                   sent, charged, audited, decided, afterReject>>

WorkerStep(w) ==
    \/ Take(w) \/ Hold(w) \/ Charge(w) \/ Dispatch(w) \/ Succeed(w) \/ Count(w)
    \/ AuditOutbound(w) \/ Fail(w)
ReviewerStep(v) ==
    \/ ApproveSave(v) \/ ApproveEnqueue(v) \/ ApproveCommit(v) \/ RejectSave(v)
CreatorStep(l) == EnqueueLog(l) \/ QueueUnavailable(l)

Next ==
    \/ \E l \in Logs : CreateLog(l) \/ CreatorStep(l) \/ CreatorCrash(l)
    \/ \E w \in Workers : WorkerStep(w) \/ Crash(w)
    \/ \E v \in Reviewers : ReviewRead(v) \/ ReviewerStep(v) \/ ReviewerCrash(v)
    \/ SetActive

Spec == Init /\ [][Next]_vars

\* Requests and workers that are running go on; nobody has to start a review.
Fairness ==
    /\ \A w \in Workers : WF_vars(WorkerStep(w))
    /\ \A v \in Reviewers : WF_vars(ReviewerStep(v))
    /\ \A l \in Logs : WF_vars(CreatorStep(l))
FairSpec == Spec /\ Fairness

-----------------------------------------------------------------------------
TypeOK ==
    /\ status \in [Logs -> Statuses] /\ decision \in [Logs -> Decisions]
    /\ payload \in [Logs -> BOOLEAN]
    /\ lock \in [Logs -> Reviewers \cup {NoOne}]
    /\ creating \subseteq Logs /\ queue \in [Logs -> Nat]
    /\ credits \in Nat /\ active \in BOOLEAN
    /\ pc \in [Workers -> WorkerPc] /\ doing \in [Workers -> Logs]
    /\ tries \in [Workers -> 1..MaxAttempts]
    /\ rpc \in [Reviewers -> ReviewerPc] /\ seen \in [Reviewers -> Logs]
    /\ sent \in [Logs -> Nat] /\ charged \in [Logs -> Nat] /\ audited \in [Logs -> Nat]
    /\ decided \subseteq Logs \X {"approve", "reject"}
    /\ afterReject \in BOOLEAN /\ crashes \in Nat

\* Under a policy that asks for it, what an AI extracted leaves the office
\* only if a reviewer approved that execution, through redeliveries, overlap
\* and the review itself (tasks.py:378).
ReviewedBeforeSent ==
    \A l \in AiOrigin : ReviewRequired /\ sent[l] > 0 => <<l, "approve">> \in decided

\* An execution is only called successful if its action took effect, whichever
\* of its runs, retries and reviews wrote the status last.
SuccessIsReal == \A l \in Logs : status[l] = "SUCCESS" => sent[l] > 0

\* Each credit taken pays for at most MaxAttempts calls: what leaves the office
\* is bounded by what was charged, redelivered and repeated runs included.
PaidFor == \A l \in Logs : sent[l] <= MaxAttempts * charged[l]

\* While no process dies, an execution that is called successful when no worker
\* is on it has left the audit record of its call (RNE-011, tasks.py:513).
SuccessIsAudited ==
    \A l \in Logs :
        /\ status[l] = "SUCCESS" /\ crashes = 0
        /\ \A w \in Workers : pc[w] # "idle" => doing[w] # l
        => audited[l] > 0

\* The books of what left: PaidFor and SuccessIsAudited.
EffectsAccounted == PaidFor /\ SuccessIsAudited

\* A rejected execution does not happen: its content was discarded for that
\* reason (aigov/views.py:154).
RejectedIsNotSent == ~afterReject

\* No execution stays PENDING, a broker that is down included, unless a process
\* that had it in hand died: it is processed, held, failed or refused.
PendingEnds ==
    \A l \in Logs : status[l] = "PENDING" ~> (status[l] # "PENDING" \/ crashes > 0)
=============================================================================
