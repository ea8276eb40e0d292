----------------------- MODULE ExecutionPipelineProofs -----------------------
(***************************************************************************)
(* Proofs about ExecutionPipeline, for any number of executions, workers,  *)
(* reviewers, crashes and redeliveries: the types, that nothing an AI      *)
(* extracted leaves unreviewed, that a successful execution took effect,   *)
(* and that what leaves is paid for and audited.                           *)
(***************************************************************************)
EXTENDS ExecutionPipeline, FiniteSetTheorems, TLAPS

\* A move of a worker: its program counter is the only one that changes.
LEMMA Moves ==
    ASSUME pc \in [Workers -> WorkerPc], NEW w \in Workers, NEW p \in WorkerPc, Goto(w, p)
    PROVE  /\ pc' \in [Workers -> WorkerPc]
           /\ pc'[w] = p
           /\ \A u \in Workers : u # w => pc'[u] = pc[u]
  BY DEF Goto

\* Where an attempt leads.
LEMMA AfterDispatchType ==
    ASSUME NEW w \in Workers, tries \in [Workers -> 1..MaxAttempts],
           NEW outcome \in {"done", "http", "error"}
    PROVE  /\ AfterDispatch(w, outcome) \in {"succeed", "dispatch", "auditError", "fail"}
           /\ AfterDispatch(w, outcome) = "succeed" => outcome = "done"
           /\ AfterDispatch(w, outcome) = "dispatch" => tries[w] < MaxAttempts
  BY NumbersAssumption DEF AfterDispatch

LEMMA TypeInit == Init => TypeOK
<1> SUFFICES ASSUME Init PROVE TypeOK
  OBVIOUS
<1>1. SomeLog \in Logs
  BY LogsAssumption DEF SomeLog
<1>2. 1 \in 1..MaxAttempts
  BY NumbersAssumption
<1>3. tries \in [Workers -> 1..MaxAttempts]
  BY <1>2 DEF Init
<1>4. /\ seen \in [Reviewers -> Logs] /\ doing \in [Workers -> Logs]
      /\ lock \in [Logs -> Reviewers \cup {NoOne}]
  BY <1>1 DEF Init
<1>5. /\ status \in [Logs -> Statuses] /\ decision \in [Logs -> Decisions]
      /\ pc \in [Workers -> WorkerPc] /\ rpc \in [Reviewers -> ReviewerPc]
  BY DEF Init, Statuses, Decisions, WorkerPc, ReviewerPc
<1> QED
  BY <1>3, <1>4, <1>5, NumbersAssumption DEF Init, TypeOK

\* The steps of a worker have the right types.
LEMMA WorkerType ==
    ASSUME TypeOK, NEW w \in Workers, WorkerStep(w)
    PROVE  TypeOK'
<1> USE DEF TypeOK, SetStatus, Statuses
<1>1. CASE Take(w)
  <2>1. PICK l \in Logs, p \in {"fail", "hold", "charge"} :
            /\ queue[l] > 0 /\ queue' = [queue EXCEPT ![l] = queue[l] - 1]
            /\ doing' = [doing EXCEPT ![w] = l] /\ Goto(w, p)
    <3>1. PICK l \in Logs :
            /\ queue[l] > 0 /\ queue' = [queue EXCEPT ![l] = queue[l] - 1]
            /\ doing' = [doing EXCEPT ![w] = l]
            /\ Goto(w, IF ~active THEN "fail" ELSE IF HeldForReview(l) THEN "hold" ELSE "charge")
      BY <1>1 DEF Take
    <3>2. \E p \in {"fail", "hold", "charge"} : Goto(w, p)
      BY <3>1
    <3> QED
      BY <3>1, <3>2
  <2>2. queue' \in [Logs -> Nat] /\ doing' \in [Workers -> Logs]
    BY <2>1
  <2>3. pc' \in [Workers -> WorkerPc]
    BY <2>1, Moves DEF WorkerPc
  <2> QED
    BY <1>1, <2>2, <2>3, NumbersAssumption DEF Take, rows, reviewer, hist
<1>2. CASE Hold(w)
  BY <1>2, Moves DEF Hold, WorkerPc, reviewer, hist
<1>3. CASE Charge(w)
  <2>1. credits' \in Nat /\ charged' \in [Logs -> Nat]
    BY <1>3 DEF Charge
  <2>2. pc' \in [Workers -> WorkerPc]
    BY <1>3, Moves DEF Charge, AfterCharge, WorkerPc
  <2> QED
    BY <1>3, <2>1, <2>2 DEF Charge, rows, reviewer
<1>4. CASE Dispatch(w)
  <2>1. PICK outcome \in {"done", "http", "error"}, effect \in 0..1 :
            /\ sent' = [sent EXCEPT ![doing[w]] = sent[doing[w]] + effect]
            /\ Goto(w, AfterDispatch(w, outcome))
            /\ tries' = [tries EXCEPT ![w] =
                             IF AfterDispatch(w, outcome) = "dispatch" THEN tries[w] + 1 ELSE tries[w]]
    BY <1>4 DEF Dispatch
  <2>2. tries' \in [Workers -> 1..MaxAttempts] /\ sent' \in [Logs -> Nat]
    BY <2>1, AfterDispatchType, NumbersAssumption
  <2>3. pc' \in [Workers -> WorkerPc]
    BY <2>1, AfterDispatchType, Moves DEF WorkerPc
  <2>4. afterReject' \in BOOLEAN
    BY <1>4 DEF Dispatch
  <2> QED
    BY <1>4, <2>2, <2>3, <2>4 DEF Dispatch, rows, reviewer
<1>5. CASE Succeed(w)
  BY <1>5, Moves DEF Succeed, WorkerPc, reviewer, hist
<1>6. CASE Count(w)
  BY <1>6, Moves DEF Count, WorkerPc, rows, reviewer, hist
<1>7. CASE AuditOutbound(w)
  <2>1. audited' \in [Logs -> Nat]
    BY <1>7 DEF AuditOutbound
  <2>2. pc' \in [Workers -> WorkerPc]
    BY <1>7, Moves DEF AuditOutbound, WorkerPc
  <2> QED
    BY <1>7, <2>1, <2>2 DEF AuditOutbound, rows, reviewer
<1>8. CASE Fail(w)
  BY <1>8, Moves DEF Fail, WorkerPc, reviewer, hist
<1> QED
  BY <1>1, <1>2, <1>3, <1>4, <1>5, <1>6, <1>7, <1>8 DEF WorkerStep

LEMMA TypeStep == TypeOK /\ [Next]_vars => TypeOK'
<1> SUFFICES ASSUME TypeOK, [Next]_vars PROVE TypeOK'
  OBVIOUS
<1> USE DEF TypeOK, SetStatus, Statuses
<1>1. ASSUME UNCHANGED vars PROVE TypeOK'
  BY <1>1 DEF vars, rows, worker, reviewer, hist
<1>2. ASSUME NEW l \in Logs, CreateLog(l) PROVE TypeOK'
  BY <1>2 DEF CreateLog, worker, reviewer, hist
<1>3. ASSUME NEW l \in Logs, CreatorStep(l) PROVE TypeOK'
  <2>1. CASE EnqueueLog(l)
    BY <2>1 DEF EnqueueLog, rows, worker, reviewer, hist
  <2>2. CASE QueueUnavailable(l)
    BY <2>2 DEF QueueUnavailable, StatusWhenQueueDown, worker, reviewer, hist
  <2> QED
    BY <1>3, <2>1, <2>2 DEF CreatorStep
<1>4. ASSUME NEW l \in Logs, CreatorCrash(l) PROVE TypeOK'
  BY <1>4 DEF CreatorCrash, rows, worker, reviewer
<1>5. ASSUME NEW w \in Workers, WorkerStep(w) PROVE TypeOK'
  BY <1>5, WorkerType
<1>6. ASSUME NEW w \in Workers, Crash(w) PROVE TypeOK'
  <2>1. queue' \in [Logs -> Nat] /\ crashes' \in Nat
    BY <1>6 DEF Crash
  <2> QED
    BY <1>6, <2>1, Moves DEF Crash, WorkerPc, rows, reviewer
<1>7. ASSUME NEW v \in Reviewers, ReviewRead(v) PROVE TypeOK'
  BY <1>7 DEF ReviewRead, ReviewerPc, rows, worker, hist
<1>8. ASSUME NEW v \in Reviewers, ReviewerStep(v) PROVE TypeOK'
  <2>1. CASE ApproveSave(v)
    BY <2>1 DEF ApproveSave, ReviewerPc, rows, worker, hist
  <2>2. CASE ApproveEnqueue(v)
    BY <2>2 DEF ApproveEnqueue, ReviewerPc, rows, worker, hist
  <2> DEFINE choice == {"approve", "reject"}
  <2>0. /\ <<seen[v], "approve">> \in Logs \X choice
        /\ <<seen[v], "reject">> \in Logs \X choice
    OBVIOUS
  <2>3. CASE ApproveCommit(v)
    <3>1. decided' \subseteq Logs \X choice
      BY <2>0, <2>3 DEF ApproveCommit
    <3>2. status' \in [Logs -> Statuses] /\ decision' \in [Logs -> Decisions]
      BY <2>3 DEF ApproveCommit, Decisions
    <3>3. rpc' \in [Reviewers -> ReviewerPc] /\ lock' \in [Logs -> Reviewers \cup {NoOne}]
      BY <2>3 DEF ApproveCommit, ReviewerPc
    <3> QED
      BY <2>3, <3>1, <3>2, <3>3 DEF ApproveCommit, worker
  <2>4. CASE RejectSave(v)
    <3>1. decided' \subseteq Logs \X choice
      BY <2>0, <2>4 DEF RejectSave
    <3>2. /\ status' \in [Logs -> Statuses] /\ decision' \in [Logs -> Decisions]
          /\ payload' \in [Logs -> BOOLEAN]
      BY <2>4 DEF RejectSave, Decisions
    <3>3. rpc' \in [Reviewers -> ReviewerPc]
      BY <2>4 DEF RejectSave, ReviewerPc
    <3> QED
      BY <2>4, <3>1, <3>2, <3>3 DEF RejectSave, worker
  <2> QED
    BY <1>8, <2>1, <2>2, <2>3, <2>4 DEF ReviewerStep
<1>9. ASSUME NEW v \in Reviewers, ReviewerCrash(v) PROVE TypeOK'
  BY <1>9 DEF ReviewerCrash, ReviewerPc, rows, worker
<1>10. ASSUME SetActive PROVE TypeOK'
  BY <1>10 DEF SetActive, rows, worker, reviewer, hist
<1> QED
  BY <1>1, <1>2, <1>3, <1>4, <1>5, <1>6, <1>7, <1>8, <1>9, <1>10 DEF Next

\* The state of the pipeline has the types TypeOK gives it; among them, no
\* execution is ever attempted more than MaxAttempts times in one run.
THEOREM TypeCorrect == Spec => []TypeOK
  BY TypeInit, TypeStep, PTL DEF Spec

-----------------------------------------------------------------------------
\* Past the gate: the worker's next steps may send or record what was sent.
Past == {"charge", "dispatch", "succeed", "count", "audit", "auditError"}

\* Why what an AI extracted does not leave unreviewed: an approval on a row was
\* accepted from a reviewer, whoever is past the gate read such an approval,
\* and only someone past the gate sends.  Rejecting a row afterwards changes
\* its decision, so the last two speak of what was accepted.
GateInv ==
    /\ \A l \in Logs : decision[l] = "approved" => <<l, "approve">> \in decided
    /\ \A w \in Workers :
           pc[w] \in Past /\ doing[w] \in AiOrigin /\ ReviewRequired
               => <<doing[w], "approve">> \in decided
    /\ \A l \in AiOrigin : ReviewRequired /\ sent[l] > 0 => <<l, "approve">> \in decided

LEMMA GateInit == Init => GateInv
<1> SUFFICES ASSUME Init PROVE GateInv
  OBVIOUS
<1>1. \A l \in Logs : decision[l] # "approved" /\ sent[l] = 0
  BY DEF Init
<1>2. \A w \in Workers : pc[w] \notin Past
  BY DEF Init, Past
<1>3. \A l \in AiOrigin : ~(sent[l] > 0)
  BY <1>1, LogsAssumption
<1> QED
  BY <1>1, <1>2, <1>3 DEF GateInv

\* Accepted decisions are never forgotten.
LEMMA DecidedGrows == [Next]_vars => decided \subseteq decided'
  BY DEF Next, vars, CreateLog, CreatorStep, EnqueueLog, QueueUnavailable, CreatorCrash,
         WorkerStep, Take, Hold, Charge, Dispatch, Succeed, Count, AuditOutbound, Fail, Crash,
         ReviewRead, ReviewerStep, ApproveSave, ApproveEnqueue, ApproveCommit, RejectSave,
         ReviewerCrash, SetActive, hist

LEMMA GateStep == TypeOK /\ GateInv /\ [Next]_vars => GateInv'
<1> SUFFICES ASSUME TypeOK, GateInv, [Next]_vars PROVE GateInv'
  OBVIOUS
<1>0. decided \subseteq decided'
  BY DecidedGrows
<1>a. ASSUME UNCHANGED <<decision, sent, worker>> PROVE GateInv'
  BY <1>0, <1>a DEF GateInv, worker
<1>1. CASE UNCHANGED vars
  BY <1>a, <1>1 DEF vars, rows, hist
<1>2. ASSUME NEW l \in Logs, CreateLog(l) \/ CreatorStep(l) \/ CreatorCrash(l) PROVE GateInv'
  BY <1>a, <1>2
  DEF CreateLog, CreatorStep, EnqueueLog, QueueUnavailable, CreatorCrash, rows, hist
<1>3. ASSUME NEW w \in Workers, WorkerStep(w) PROVE GateInv'
  <2>0. UNCHANGED decision
    BY <1>3 DEF WorkerStep, Take, Hold, Charge, Dispatch, Succeed, Count, AuditOutbound, Fail, rows
  <2>1. CASE Take(w)
    <3>1. PICK l \in Logs :
            /\ doing' = [doing EXCEPT ![w] = l]
            /\ Goto(w, IF ~active THEN "fail" ELSE IF HeldForReview(l) THEN "hold" ELSE "charge")
      BY <2>1 DEF Take
    <3>2. pc'[w] \in Past /\ l \in AiOrigin /\ ReviewRequired => decision[l] = "approved"
      BY <3>1 DEF Goto, Past, HeldForReview, TypeOK
    <3>3. doing'[w] = l
      BY <3>1 DEF TypeOK
    <3>4. \A u \in Workers : u # w => pc'[u] = pc[u] /\ doing'[u] = doing[u]
      BY <3>1 DEF Goto, TypeOK
    <3>5. UNCHANGED sent
      BY <2>1 DEF Take, hist
    <3> QED
      BY <1>0, <2>0, <3>1, <3>2, <3>3, <3>4, <3>5 DEF GateInv
  <2>2. CASE Dispatch(w)
    <3>1. pc[w] = "dispatch" /\ UNCHANGED doing
      BY <2>2 DEF Dispatch
    <3>2. \A u \in Workers : u # w => pc'[u] = pc[u]
      BY <2>2 DEF Dispatch, Goto, TypeOK
    <3>3. \A l \in Logs : l # doing[w] => sent'[l] = sent[l]
      BY <2>2 DEF Dispatch, TypeOK
    <3>4. doing[w] \in AiOrigin /\ ReviewRequired => <<doing[w], "approve">> \in decided
      BY <3>1 DEF GateInv, Past
    <3> QED
      BY <1>0, <2>0, <3>1, <3>2, <3>3, <3>4, LogsAssumption DEF GateInv
  <2>3. CASE Hold(w) \/ Charge(w) \/ Succeed(w) \/ Count(w) \/ AuditOutbound(w) \/ Fail(w)
    <3>1. UNCHANGED <<sent, doing>>
      BY <2>3 DEF Hold, Charge, Succeed, Count, AuditOutbound, Fail, hist
    <3>2. pc'[w] \in Past => pc[w] \in Past
      BY <2>3 DEF Hold, Charge, Succeed, Count, AuditOutbound, Fail, Goto, Past, TypeOK
    <3>3. \A u \in Workers : u # w => pc'[u] = pc[u]
      BY <2>3 DEF Hold, Charge, Succeed, Count, AuditOutbound, Fail, Goto, TypeOK
    <3> QED
      BY <1>0, <2>0, <3>1, <3>2, <3>3 DEF GateInv
  <2> QED
    BY <1>3, <2>1, <2>2, <2>3 DEF WorkerStep
<1>4. ASSUME NEW w \in Workers, Crash(w) PROVE GateInv'
  <2>1. \A u \in Workers : pc'[u] \in Past => pc'[u] = pc[u]
    BY <1>4 DEF Crash, Goto, Past, TypeOK
  <2>2. UNCHANGED <<decision, sent, doing, decided>>
    BY <1>4 DEF Crash, rows
  <2> QED
    BY <2>1, <2>2 DEF GateInv
<1>5. ASSUME NEW v \in Reviewers, ApproveCommit(v) PROVE GateInv'
  <2>1. /\ decision' = [decision EXCEPT ![seen[v]] = "approved"]
        /\ <<seen[v], "approve">> \in decided'
        /\ UNCHANGED <<pc, doing, sent>>
    BY <1>5 DEF ApproveCommit, worker
  <2> QED
    BY <1>0, <2>1 DEF GateInv, TypeOK
<1>6. ASSUME NEW v \in Reviewers, RejectSave(v) PROVE GateInv'
  <2>1. /\ decision' = [decision EXCEPT ![seen[v]] = "rejected"]
        /\ UNCHANGED <<pc, doing, sent>>
    BY <1>6 DEF RejectSave, worker
  <2> QED
    BY <1>0, <2>1 DEF GateInv, TypeOK
<1>7. ASSUME NEW v \in Reviewers,
             ReviewRead(v) \/ ApproveSave(v) \/ ApproveEnqueue(v) \/ ReviewerCrash(v)
      PROVE GateInv'
  BY <1>a, <1>7 DEF ReviewRead, ApproveSave, ApproveEnqueue, ReviewerCrash, rows, hist
<1>8. CASE SetActive
  BY <1>a, <1>8 DEF SetActive, rows, hist
<1> QED
  BY <1>1, <1>2, <1>3, <1>4, <1>5, <1>6, <1>7, <1>8 DEF Next, ReviewerStep

\* Under a policy that asks for review, what an AI extracted leaves the office
\* only after a reviewer approved that execution (tasks.py:378), whatever the
\* redeliveries, crashes and overlapping decisions.
THEOREM NothingLeavesUnreviewed == Spec => []ReviewedBeforeSent
<1>1. GateInv => ReviewedBeforeSent
  BY DEF GateInv, ReviewedBeforeSent
<1> QED
  BY <1>1, TypeInit, TypeStep, GateInit, GateStep, PTL DEF Spec

-----------------------------------------------------------------------------
\* Why a successful execution took effect: the worker about to record success
\* has just seen its action succeed.
EffectInv ==
    /\ \A l \in Logs : status[l] = "SUCCESS" => sent[l] > 0
    /\ \A w \in Workers : pc[w] = "succeed" => sent[doing[w]] > 0

LEMMA EffectInit == Init => EffectInv
  BY DEF Init, EffectInv

LEMMA EffectStep == TypeOK /\ EffectInv /\ [Next]_vars => EffectInv'
<1> SUFFICES ASSUME TypeOK, EffectInv, [Next]_vars PROVE EffectInv'
  OBVIOUS
<1>a. ASSUME \A l \in Logs : status'[l] = "SUCCESS" => status[l] = "SUCCESS",
             UNCHANGED <<sent, worker>>
      PROVE EffectInv'
  BY <1>a DEF EffectInv, worker
<1>1. CASE UNCHANGED vars
  BY <1>a, <1>1 DEF vars, rows, hist
<1>2. ASSUME NEW l \in Logs, CreateLog(l) \/ CreatorStep(l) \/ CreatorCrash(l) PROVE EffectInv'
  <2>1. \A k \in Logs : status'[k] = "SUCCESS" => status[k] = "SUCCESS"
    BY <1>2 DEF CreateLog, CreatorStep, EnqueueLog, QueueUnavailable, StatusWhenQueueDown,
                CreatorCrash, SetStatus, rows, TypeOK
  <2> QED
    BY <1>a, <1>2, <2>1 DEF CreateLog, CreatorStep, EnqueueLog, QueueUnavailable, CreatorCrash, hist
<1>3. ASSUME NEW w \in Workers, WorkerStep(w) PROVE EffectInv'
  <2>1. CASE Dispatch(w)
    <3>1. PICK outcome \in {"done", "http", "error"}, effect \in 0..1 :
            /\ outcome = "done" => effect = 1
            /\ sent' = [sent EXCEPT ![doing[w]] = sent[doing[w]] + effect]
            /\ Goto(w, AfterDispatch(w, outcome))
      BY <2>1 DEF Dispatch
    <3>2. \A l \in Logs : sent[l] > 0 => sent'[l] > 0
      BY <3>1 DEF TypeOK
    <3>3. pc'[w] = "succeed" => sent'[doing[w]] > 0
      BY <3>1, AfterDispatchType DEF Goto, TypeOK
    <3>4. \A u \in Workers : u # w => pc'[u] = pc[u]
      BY <3>1 DEF Goto, TypeOK
    <3>5. UNCHANGED <<status, doing>>
      BY <2>1 DEF Dispatch, rows
    <3> QED
      BY <3>2, <3>3, <3>4, <3>5 DEF EffectInv, TypeOK
  <2>2. CASE Succeed(w)
    <3>1. /\ pc[w] = "succeed" /\ status' = [status EXCEPT ![doing[w]] = "SUCCESS"]
          /\ UNCHANGED <<sent, doing>> /\ Goto(w, "count")
      BY <2>2 DEF Succeed, SetStatus, hist
    <3>2. \A u \in Workers : pc'[u] = "succeed" => pc[u] = "succeed"
      BY <3>1 DEF Goto, TypeOK
    <3> QED
      BY <3>1, <3>2 DEF EffectInv, TypeOK
  <2>3. CASE Take(w) \/ Hold(w) \/ Charge(w) \/ Count(w) \/ AuditOutbound(w) \/ Fail(w)
    <3>1. \A l \in Logs : status'[l] = "SUCCESS" => status[l] = "SUCCESS"
      BY <2>3 DEF Take, Hold, Charge, Count, AuditOutbound, Fail, SetStatus, rows, TypeOK
    <3>2. UNCHANGED sent
      BY <2>3 DEF Take, Hold, Charge, Count, AuditOutbound, Fail, hist
    <3>3. \A u \in Workers : pc'[u] = "succeed" => u # w
      BY <2>3 DEF Take, Hold, Charge, AfterCharge, Count, AuditOutbound, Fail, Goto, TypeOK
    <3>4. \A u \in Workers : u # w => pc'[u] = pc[u] /\ doing'[u] = doing[u]
      BY <2>3 DEF Take, Hold, Charge, Count, AuditOutbound, Fail, Goto, TypeOK
    <3> QED
      BY <3>1, <3>2, <3>3, <3>4 DEF EffectInv
  <2> QED
    BY <1>3, <2>1, <2>2, <2>3 DEF WorkerStep
<1>4. ASSUME NEW w \in Workers, Crash(w) PROVE EffectInv'
  <2>1. \A u \in Workers : pc'[u] = "succeed" => pc[u] = "succeed"
    BY <1>4 DEF Crash, Goto, TypeOK
  <2> QED
    BY <1>4, <2>1 DEF Crash, rows, EffectInv
<1>5. ASSUME NEW v \in Reviewers, ReviewRead(v) \/ ReviewerStep(v) \/ ReviewerCrash(v)
      PROVE EffectInv'
  <2>1. \A l \in Logs : status'[l] = "SUCCESS" => status[l] = "SUCCESS"
    BY <1>5 DEF ReviewRead, ReviewerStep, ApproveSave, ApproveEnqueue, ApproveCommit,
                RejectSave, ReviewerCrash, SetStatus, rows, TypeOK
  <2> QED
    BY <1>a, <1>5, <2>1
    DEF ReviewRead, ReviewerStep, ApproveSave, ApproveEnqueue, ApproveCommit, RejectSave,
        ReviewerCrash, hist
<1>6. CASE SetActive
  BY <1>a, <1>6 DEF SetActive, rows, hist
<1> QED
  BY <1>1, <1>2, <1>3, <1>4, <1>5, <1>6 DEF Next

\* An execution is only called successful if its action took effect outside
\* (tasks.py:449), whichever run, retry or review wrote the row last.
THEOREM SuccessTookEffect == Spec => []SuccessIsReal
<1>1. EffectInv => SuccessIsReal
  BY DEF EffectInv, SuccessIsReal
<1> QED
  BY <1>1, TypeInit, TypeStep, EffectInit, EffectStep, PTL DEF Spec

-----------------------------------------------------------------------------
\* The calls a worker that was let through may still make, one element for each: what was sent and what may still
\* be sent is paid for.
Budget(l) == {a \in Workers \X (1 .. MaxAttempts) : pc[a[1]] = "dispatch" /\ doing[a[1]] = l /\ tries[a[1]] <= a[2]}
PaidInv ==
    \A l \in Logs :
        IsFiniteSet(Budget(l)) /\ sent[l] + Cardinality(Budget(l)) <= MaxAttempts * charged[l]

LEMMA PaidInit == Init => PaidInv
<1> SUFFICES ASSUME Init, NEW l \in Logs
             PROVE  IsFiniteSet(Budget(l)) /\ sent[l] + Cardinality(Budget(l)) <= MaxAttempts * charged[l]
  BY DEF PaidInv
<1>1. Budget(l) = {}
  BY DEF Init, Budget
<1>2. sent[l] = 0 /\ charged[l] = 0
  BY DEF Init
<1> QED
  BY <1>1, <1>2, FS_EmptySet, NumbersAssumption

\* One credit lets a worker make MaxAttempts calls.
LEMMA Attempts ==
    ASSUME NEW w
    PROVE  LET A == {w} \X (1 .. MaxAttempts) IN IsFiniteSet(A) /\ Cardinality(A) = MaxAttempts
<1> DEFINE I == 1 .. MaxAttempts
           A == {w} \X I
           f == [i \in I |-> <<w, i>>]
<1>1. IsFiniteSet(I) /\ Cardinality(I) = MaxAttempts
  BY FS_Interval, NumbersAssumption
<1>2. f \in [I -> A] /\ \A i, j \in I : f[i] = f[j] => i = j
  OBVIOUS
<1>3. \A a \in A : \E i \in I : f[i] = a
  OBVIOUS
<1> HIDE DEF f, I, A
<1>4. ExistsBijection(I, A)
  BY <1>2, <1>3 DEF ExistsBijection, Bijection, Injection, Surjection, IsInjective
<1>5. IsFiniteSet(A) /\ Cardinality(A) = MaxAttempts
  BY <1>1, <1>4, FS_Bijection
<1> QED
  BY <1>5 DEF A, I

LEMMA OneMore ==
    ASSUME NEW c \in Nat
    PROVE  MaxAttempts * (c + 1) = MaxAttempts * c + MaxAttempts
  BY NumbersAssumption

\* Whoever leaves the calls takes its budget away, and nobody else's changes.
LEMMA Spent ==
    ASSUME TypeOK, PaidInv, \A l \in Logs : Budget(l)' \subseteq Budget(l), UNCHANGED <<sent, charged>>
    PROVE  PaidInv'
<1> SUFFICES ASSUME NEW l \in Logs
             PROVE  IsFiniteSet(Budget(l)') /\ sent'[l] + Cardinality(Budget(l)') <= MaxAttempts * charged'[l]
  BY DEF PaidInv
<1>1. IsFiniteSet(Budget(l)) /\ sent[l] + Cardinality(Budget(l)) <= MaxAttempts * charged[l]
  BY DEF PaidInv
<1>2. IsFiniteSet(Budget(l)') /\ Cardinality(Budget(l)') <= Cardinality(Budget(l))
  BY <1>1, FS_Subset
<1>3. Cardinality(Budget(l)) \in Nat /\ Cardinality(Budget(l)') \in Nat
  BY <1>1, <1>2, FS_CardinalityType
<1>4. sent[l] \in Nat /\ MaxAttempts * charged[l] \in Nat
  BY NumbersAssumption DEF TypeOK
<1>5. sent[l] + Cardinality(Budget(l)') <= MaxAttempts * charged[l]
  BY <1>1, <1>2, <1>3, <1>4
<1> QED
  BY <1>2, <1>5

LEMMA PaidStep == TypeOK /\ PaidInv /\ [Next]_vars => PaidInv'
<1> SUFFICES ASSUME TypeOK, PaidInv, [Next]_vars PROVE PaidInv'
  OBVIOUS
<1>a. ASSUME UNCHANGED <<worker, sent, charged>> PROVE PaidInv'
  <2>1. \A l \in Logs : Budget(l)' \subseteq Budget(l)
    BY <1>a DEF Budget, worker
  <2> QED
    BY <1>a, <2>1, Spent
<1>1. CASE UNCHANGED vars
  BY <1>a, <1>1 DEF vars, hist
<1>2. ASSUME NEW l \in Logs, CreateLog(l) \/ CreatorStep(l) \/ CreatorCrash(l) PROVE PaidInv'
  BY <1>a, <1>2 DEF CreateLog, CreatorStep, EnqueueLog, QueueUnavailable, CreatorCrash, hist
<1>3. ASSUME NEW v \in Reviewers, ReviewRead(v) \/ ReviewerStep(v) \/ ReviewerCrash(v) PROVE PaidInv'
  BY <1>a, <1>3
  DEF ReviewRead, ReviewerStep, ApproveSave, ApproveEnqueue, ApproveCommit, RejectSave, ReviewerCrash, hist
<1>4. CASE SetActive
  BY <1>a, <1>4 DEF SetActive, hist
<1>5. ASSUME NEW w \in Workers, Take(w) \/ Hold(w) \/ Succeed(w) \/ Count(w) \/ AuditOutbound(w) \/ Fail(w) \/ Crash(w)
      PROVE PaidInv'
  <2>1. pc'[w] # "dispatch" /\ \A u \in Workers : u # w => pc'[u] = pc[u] /\ doing'[u] = doing[u] /\ tries'[u] = tries[u]
    BY <1>5 DEF Take, Hold, Succeed, Count, AuditOutbound, Fail, Crash, Goto, TypeOK
  <2>2. \A l \in Logs : Budget(l)' \subseteq Budget(l)
    BY <2>1 DEF Budget
  <2>3. UNCHANGED <<sent, charged>>
    BY <1>5 DEF Take, Hold, Succeed, Count, AuditOutbound, Fail, Crash, hist
  <2> QED
    BY <2>2, <2>3, Spent
<1>6. ASSUME NEW w \in Workers, Charge(w) PROVE PaidInv'
  <2>0. pc[w] = "charge" /\ pc'[w] = AfterCharge /\ UNCHANGED <<doing, tries, sent>>
        /\ \A u \in Workers : u # w => pc'[u] = pc[u]
    BY <1>6 DEF Charge, Goto, TypeOK
  <2>1. CASE ~(credits > 0)
    <3>1. charged' = charged /\ pc'[w] # "dispatch"
      BY <1>6, <2>0, <2>1 DEF Charge, AfterCharge, TypeOK
    <3>2. \A l \in Logs : Budget(l)' \subseteq Budget(l)
      BY <2>0, <3>1 DEF Budget
    <3> QED
      BY <2>0, <3>1, <3>2, Spent
  <2>2. CASE credits > 0
    <3> DEFINE A == {w} \X (1 .. MaxAttempts)
    <3>1. charged' = [charged EXCEPT ![doing[w]] = charged[doing[w]] + 1]
      BY <1>6, <2>2 DEF Charge
    <3> SUFFICES ASSUME NEW l \in Logs
                 PROVE  IsFiniteSet(Budget(l)') /\ sent'[l] + Cardinality(Budget(l)') <= MaxAttempts * charged'[l]
      BY DEF PaidInv
    <3>2. IsFiniteSet(Budget(l)) /\ sent[l] + Cardinality(Budget(l)) <= MaxAttempts * charged[l]
      BY DEF PaidInv
    <3>3. CASE l # doing[w]
      <4>1. Budget(l)' = Budget(l)
        BY <2>0, <3>3 DEF Budget
      <4>2. charged'[l] = charged[l]
        BY <3>1, <3>3 DEF TypeOK
      <4> QED
        BY <2>0, <3>2, <4>1, <4>2
    <3>4. CASE l = doing[w]
      <4>1. Budget(l)' \subseteq Budget(l) \cup A
        BY <2>0 DEF Budget
      <4>2. IsFiniteSet(A) /\ Cardinality(A) = MaxAttempts
        BY Attempts
      <4> HIDE DEF A
      <4>3. /\ IsFiniteSet(Budget(l) \cup A)
            /\ Cardinality(Budget(l) \cup A) = Cardinality(Budget(l)) + Cardinality(A) - Cardinality(Budget(l) \cap A)
        BY <3>2, <4>2, FS_Union
      <4>4. IsFiniteSet(Budget(l) \cap A)
        BY <3>2, FS_Subset
      <4>5. IsFiniteSet(Budget(l)') /\ Cardinality(Budget(l)') <= Cardinality(Budget(l) \cup A)
        BY <4>1, <4>3, FS_Subset
      <4>6. /\ Cardinality(Budget(l)) \in Nat /\ Cardinality(Budget(l)') \in Nat
            /\ Cardinality(Budget(l) \cap A) \in Nat /\ Cardinality(Budget(l) \cup A) \in Nat
        BY <3>2, <4>3, <4>4, <4>5, FS_CardinalityType
      <4>7. charged'[l] = charged[l] + 1 /\ charged[l] \in Nat /\ sent[l] \in Nat
        BY <3>1, <3>4 DEF TypeOK
      <4>8. MaxAttempts * charged'[l] = MaxAttempts * charged[l] + MaxAttempts
        BY <4>7, OneMore
      <4>9. MaxAttempts * charged[l] \in Nat /\ MaxAttempts \in Nat
        BY <4>7, NumbersAssumption
      <4>10. sent'[l] + Cardinality(Budget(l)') <= MaxAttempts * charged'[l]
        BY <2>0, <3>2, <4>2, <4>3, <4>5, <4>6, <4>7, <4>8, <4>9
      <4> QED
        BY <4>5, <4>10
    <3> QED
      BY <3>3, <3>4
  <2> QED
    BY <2>1, <2>2
<1>7. ASSUME NEW w \in Workers, Dispatch(w) PROVE PaidInv'
  <2>1. PICK outcome \in {"done", "http", "error"}, effect \in 0 .. 1 :
          /\ sent' = [sent EXCEPT ![doing[w]] = sent[doing[w]] + effect]
          /\ Goto(w, AfterDispatch(w, outcome))
          /\ tries' = [tries EXCEPT ![w] = IF AfterDispatch(w, outcome) = "dispatch" THEN tries[w] + 1 ELSE tries[w]]
    BY <1>7 DEF Dispatch
  <2>2. pc[w] = "dispatch" /\ UNCHANGED <<doing, charged>>
        /\ \A u \in Workers : u # w => pc'[u] = pc[u] /\ tries'[u] = tries[u]
    BY <1>7, <2>1 DEF Dispatch, Goto, TypeOK
  <2>3. pc'[w] = "dispatch" => tries'[w] = tries[w] + 1
    BY <2>1 DEF Goto, TypeOK
  <2> SUFFICES ASSUME NEW l \in Logs
               PROVE  IsFiniteSet(Budget(l)') /\ sent'[l] + Cardinality(Budget(l)') <= MaxAttempts * charged'[l]
    BY DEF PaidInv
  <2>4. IsFiniteSet(Budget(l)) /\ sent[l] + Cardinality(Budget(l)) <= MaxAttempts * charged[l]
    BY DEF PaidInv
  <2>5. tries[w] \in 1 .. MaxAttempts /\ sent[l] \in Nat /\ MaxAttempts * charged[l] \in Nat
    BY NumbersAssumption DEF TypeOK
  <2>6. CASE l # doing[w]
    <3>1. Budget(l)' = Budget(l)
      BY <2>2, <2>6 DEF Budget
    <3>2. sent'[l] = sent[l]
      BY <2>1, <2>6 DEF TypeOK
    <3> QED
      BY <2>2, <2>4, <3>1, <3>2
  <2>7. CASE l = doing[w]
    <3> DEFINE a == <<w, tries[w]>>
    <3>1. a \in Budget(l)
      BY <2>2, <2>5, <2>7 DEF Budget
    <3>2. Budget(l)' \subseteq Budget(l) \ {a}
      BY <2>2, <2>3, <2>5 DEF Budget
    <3> HIDE DEF a
    <3>3. IsFiniteSet(Budget(l) \ {a}) /\ Cardinality(Budget(l) \ {a}) = Cardinality(Budget(l)) - 1
      BY <2>4, <3>1, FS_RemoveElement
    <3>4. IsFiniteSet(Budget(l)') /\ Cardinality(Budget(l)') <= Cardinality(Budget(l) \ {a})
      BY <3>2, <3>3, FS_Subset
    <3>5. Cardinality(Budget(l)) \in Nat /\ Cardinality(Budget(l)') \in Nat
      BY <2>4, <3>4, FS_CardinalityType
    <3>6. sent'[l] <= sent[l] + 1 /\ sent'[l] \in Nat
      BY <2>1, <2>5, <2>7 DEF TypeOK
    <3>7. sent'[l] + Cardinality(Budget(l)') <= MaxAttempts * charged[l]
      BY <2>4, <2>5, <3>3, <3>4, <3>5, <3>6
    <3> QED
      BY <2>2, <3>4, <3>7
  <2> QED
    BY <2>6, <2>7
<1> QED
  BY <1>1, <1>2, <1>3, <1>4, <1>5, <1>6, <1>7 DEF Next, WorkerStep

-----------------------------------------------------------------------------
\* Why a successful execution is audited: while nobody dies, who wrote SUCCESS goes on to the audit, or records a
\* failure instead.
After == {"count", "audit", "fail"}
AuditInv ==
    crashes = 0 => \A l \in Logs : status[l] = "SUCCESS" =>
        audited[l] > 0 \/ \E w \in Workers : doing[w] = l /\ pc[w] \in After

LEMMA AuditStep == TypeOK /\ AuditInv /\ [Next]_vars => AuditInv'
<1> SUFFICES ASSUME TypeOK, AuditInv, [Next]_vars, crashes' = 0,
                    NEW l \in Logs, status'[l] = "SUCCESS"
             PROVE  audited'[l] > 0 \/ \E w \in Workers : doing'[w] = l /\ pc'[w] \in After
  BY DEF AuditInv
<1>a. ASSUME status[l] = "SUCCESS", crashes = 0, UNCHANGED <<audited, worker>>
      PROVE  audited'[l] > 0 \/ \E w \in Workers : doing'[w] = l /\ pc'[w] \in After
  BY <1>a DEF AuditInv, worker
<1>1. CASE UNCHANGED vars
  BY <1>a, <1>1 DEF vars, rows, hist
<1>2. ASSUME NEW k \in Logs, CreateLog(k) \/ CreatorStep(k)
      PROVE  audited'[l] > 0 \/ \E w \in Workers : doing'[w] = l /\ pc'[w] \in After
  <2>1. status[l] = "SUCCESS"
    BY <1>2 DEF CreateLog, CreatorStep, EnqueueLog, QueueUnavailable, StatusWhenQueueDown, SetStatus, rows, TypeOK
  <2> QED
    BY <1>a, <1>2, <2>1 DEF CreateLog, CreatorStep, EnqueueLog, QueueUnavailable, hist
<1>3. ASSUME NEW v \in Reviewers, ReviewRead(v) \/ ReviewerStep(v)
      PROVE  audited'[l] > 0 \/ \E w \in Workers : doing'[w] = l /\ pc'[w] \in After
  <2>1. status[l] = "SUCCESS"
    BY <1>3 DEF ReviewRead, ReviewerStep, ApproveSave, ApproveEnqueue, ApproveCommit, RejectSave, SetStatus, rows, TypeOK
  <2> QED
    BY <1>a, <1>3, <2>1 DEF ReviewRead, ReviewerStep, ApproveSave, ApproveEnqueue, ApproveCommit, RejectSave, hist
<1>4. CASE SetActive
  BY <1>a, <1>4 DEF SetActive, rows, hist
<1>5. CASE \/ \E k \in Logs : CreatorCrash(k)
           \/ \E w \in Workers : Crash(w)
           \/ \E v \in Reviewers : ReviewerCrash(v)
  <2>1. crashes' = crashes + 1 /\ crashes \in Nat
    BY <1>5 DEF CreatorCrash, Crash, ReviewerCrash, TypeOK
  <2> QED
    BY <2>1
<1>6. ASSUME NEW w \in Workers, WorkerStep(w)
      PROVE  audited'[l] > 0 \/ \E u \in Workers : doing'[u] = l /\ pc'[u] \in After
  <2>0. crashes = 0 /\ \A u \in Workers : u # w => pc'[u] = pc[u] /\ doing'[u] = doing[u]
    BY <1>6 DEF WorkerStep, Take, Hold, Charge, Dispatch, Succeed, Count, AuditOutbound, Fail, Goto, hist, TypeOK
  <2>1. CASE Succeed(w) /\ doing[w] = l
    BY <2>1 DEF Succeed, Goto, TypeOK, After
  <2>2. CASE ~Succeed(w) \/ doing[w] # l
    <3>1. status[l] = "SUCCESS"
      BY <1>6, <2>2 DEF WorkerStep, Take, Hold, Charge, Dispatch, Succeed, Count, AuditOutbound, Fail, SetStatus, rows, TypeOK
    <3>2. audited[l] > 0 => audited'[l] > 0
      BY <1>6 DEF WorkerStep, Take, Hold, Charge, Dispatch, Succeed, Count, AuditOutbound, Fail, hist, TypeOK
    <3>3. ASSUME doing[w] = l, pc[w] \in After
          PROVE  audited'[l] > 0 \/ (doing'[w] = l /\ pc'[w] \in After)
      <4>1. CASE Count(w)
        BY <3>3, <4>1 DEF Count, Goto, TypeOK, After
      <4>2. CASE AuditOutbound(w)
        BY <3>3, <4>2 DEF AuditOutbound, TypeOK
      <4>3. CASE Fail(w)
        BY <3>3, <4>3 DEF Fail, SetStatus, TypeOK
      <4> QED
        BY <1>6, <3>3, <4>1, <4>2, <4>3 DEF WorkerStep, Take, Hold, Charge, Dispatch, Succeed, After
    <3> QED
      BY <2>0, <3>1, <3>2, <3>3 DEF AuditInv
  <2> QED
    BY <2>1, <2>2
<1> QED
  BY <1>1, <1>2, <1>3, <1>4, <1>5, <1>6 DEF Next

\* What leaves is covered by what was charged, at most MaxAttempts calls for a credit, and while nobody dies a
\* successful execution has left its audit record (tasks.py:453, :513), however runs of it overlap.
THEOREM EffectsAreAccounted == Spec => []EffectsAccounted
<1>1. Init => TypeOK /\ PaidInv /\ AuditInv
  BY TypeInit, PaidInit DEF Init, AuditInv
<1>2. TypeOK /\ PaidInv /\ AuditInv => EffectsAccounted
  <2> SUFFICES ASSUME TypeOK, PaidInv, AuditInv PROVE EffectsAccounted
    OBVIOUS
  <2>1. ASSUME NEW l \in Logs PROVE sent[l] <= MaxAttempts * charged[l]
    <3>1. IsFiniteSet(Budget(l)) /\ sent[l] + Cardinality(Budget(l)) <= MaxAttempts * charged[l]
      BY DEF PaidInv
    <3>2. Cardinality(Budget(l)) \in Nat
      BY <3>1, FS_CardinalityType
    <3>3. sent[l] \in Nat /\ MaxAttempts * charged[l] \in Nat
      BY NumbersAssumption DEF TypeOK
    <3> QED
      BY <3>1, <3>2, <3>3
  <2>2. SuccessIsAudited
    BY DEF AuditInv, SuccessIsAudited, After, TypeOK
  <2> QED
    BY <2>1, <2>2 DEF EffectsAccounted, PaidFor
<1> QED
  BY <1>1, <1>2, TypeStep, PaidStep, AuditStep, PTL DEF Spec
=============================================================================
