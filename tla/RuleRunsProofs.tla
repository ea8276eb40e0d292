--------------------------- MODULE RuleRunsProofs ---------------------------
(***************************************************************************)
(* Theorems about RuleRuns, for any rule, any number of processes, of      *)
(* events and of crashes.                                                  *)
(***************************************************************************)
EXTENDS RuleRuns, FiniteSetTheorems, TLAPS

\* What a step's outcome is: a status of StepStatus and an effect of 0 or 1,
\* and a step that is done took effect.
LEMMA OutcomesType ==
    ASSUME NEW i \in Idx, NEW force \in BOOLEAN, NEW o \in Outcomes(i, force)
    PROVE  /\ o[1] \in {"bloqueado", "agendado", "feito", "erro"}
           /\ o[2] \in {0, 1}
           /\ o[1] = "feito" => o[2] = 1
           /\ o[1] = "agendado" => Kind[i] = "envio" /\ o[2] = 0 /\ ~force
BY DEF Outcomes

\* final_status yields a status of a row.
LEMMA FinalStatusType == ASSUME NEW s PROVE FinalStatus(s) \in RunStatus
BY DEF FinalStatus, RunStatus

LEMMA JobForType == \A k \in Keys : JobFor(k) \in Jobs
<1>1. Keys # {} /\ N \in Nat \ {0}
  BY KeysAssumption, StepsAssumption
<1>2. Blank \in Jobs
  BY <1>1 DEF Blank, Jobs, NoSteps, Steps, StepStatus, Idx
<1> QED
  BY <1>2 DEF JobFor, Jobs

\* The initial state is well typed.
LEMMA TypeInit == Init => TypeOK
<1> SUFFICES ASSUME Init PROVE TypeOK
  OBVIOUS
<1>1. Keys # {}
  BY KeysAssumption
<1>2. Blank \in Jobs
  BY <1>1, JobForType DEF JobFor, Jobs, Blank
<1>3. NoSteps \in Steps
  BY DEF NoSteps, Steps, StepStatus
<1> QED
  BY <1>2, <1>3 DEF Init, TypeOK, RunStatus, PcValues
\* A process that changes its local variables leaves those of the others alone.
LEMMA LocalStep ==
    ASSUME job \in [Workers -> Jobs], NEW w \in Workers, NEW j \in Jobs, Local(w, j)
    PROVE  /\ job' \in [Workers -> Jobs]
           /\ job'[w] = j
           /\ \A u \in Workers \ {w} : job'[u] = job[u]
BY DEF Local

LEMMA GotoStep ==
    ASSUME pc \in [Workers -> PcValues], NEW w \in Workers, NEW l \in PcValues, Goto(w, l)
    PROVE  /\ pc' \in [Workers -> PcValues]
           /\ pc'[w] = l
           /\ \A u \in Workers \ {w} : pc'[u] = pc[u]
BY DEF Goto

LEMMA BlankType == Blank \in Jobs
BY JobForType, KeysAssumption DEF JobFor, Jobs, Blank

LEMMA DoneStep ==
    ASSUME TypeOK, NEW w \in Workers, Done(w)
    PROVE  /\ pc' \in [Workers -> PcValues] /\ job' \in [Workers -> Jobs]
           /\ pc'[w] = "idle" /\ job'[w] = Blank
           /\ \A u \in Workers \ {w} : pc'[u] = pc[u] /\ job'[u] = job[u]
BY BlankType, LocalStep, GotoStep DEF Done, TypeOK, PcValues

\* What performing one step does to the variables it changes.
LEMMA PerformedStep ==
    ASSUME TypeOK, NEW w \in Workers, NEW i \in Idx, NEW force \in BOOLEAN,
           NEW next \in 1..(N + 1), NEW o \in Outcomes(i, force), Performed(w, i, o, next)
    PROVE  /\ effects' \in [Keys -> [Idx -> Nat]]
           /\ timers' \in [Keys -> [Idx -> Nat]]
           /\ job' \in [Workers -> Jobs]
           /\ effects' = [effects EXCEPT ![job[w].key][i] = effects[job[w].key][i] + o[2]]
           /\ job'[w].key = job[w].key
           /\ job'[w].at = next
           /\ job'[w].steps = [job[w].steps EXCEPT ![i] = o[1]]
           /\ \A u \in Workers \ {w} : job'[u] = job[u]
<1> DEFINE k == job[w].key
           hold == IF o[1] = "agendado" /\ job[w].web THEN {i} ELSE {}
           held == job[w].held \cup hold
           s == [job[w].steps EXCEPT ![i] = o[1]]
           j == [job[w] EXCEPT !.steps = s, !.at = next, !.held = held]
<1>1. job[w] \in Jobs /\ k \in Keys /\ job[w].steps \in Steps
  BY DEF TypeOK, Jobs
<1>2. o[1] \in StepStatus /\ o[2] \in Nat
  BY OutcomesType DEF StepStatus
<1>3. held \in SUBSET Idx
  BY <1>1 DEF Jobs
<1>4. s \in Steps
  BY <1>1, <1>2 DEF Steps
<1>6. j \in Jobs /\ j.key = k /\ j.at = next /\ j.steps = s
  <2> HIDE DEF s, held
  <2> QED
    BY <1>1, <1>3, <1>4 DEF Jobs
<1>7. Local(w, j)
  BY DEF Performed
<1>8. job' \in [Workers -> Jobs] /\ job'[w] = j /\ \A u \in Workers \ {w} : job'[u] = job[u]
  BY <1>6, <1>7, LocalStep DEF TypeOK
<1>9. effects' = [effects EXCEPT ![k][i] = effects[k][i] + o[2]]
  BY DEF Performed
<1>10. effects' \in [Keys -> [Idx -> Nat]]
  BY <1>1, <1>2, <1>9 DEF TypeOK
<1>11. timers' = timers \/ timers' = [timers EXCEPT ![k][i] = timers[k][i] + 1]
  BY DEF Performed
<1>12. timers' \in [Keys -> [Idx -> Nat]]
  <2>1. timers \in [Keys -> [Idx -> Nat]] /\ timers[k][i] + 1 \in Nat
    BY <1>1 DEF TypeOK
  <2> QED
    BY <1>1, <1>11, <2>1
<1> QED
  BY <1>6, <1>8, <1>9, <1>10, <1>12

LEMMA WriteRowType ==
    ASSUME TypeOK, NEW k \in Keys, NEW st \in RunStatus, NEW s \in Steps, WriteRow(k, st, s)
    PROVE  status' \in [Keys -> RunStatus] /\ steps' \in [Keys -> Steps]
BY DEF TypeOK, WriteRow

LEMMA RecastType == ASSUME NEW s \in Steps, NEW to \in {"recusado", "expirado"}
                    PROVE  Recast(s, to) \in Steps
BY DEF Recast, Steps, StepStatus

\* The fields of a process's local variables may be replaced on their own.
LEMMA NewSteps ==
    ASSUME NEW j \in Jobs, NEW s \in Steps
    PROVE  /\ [j EXCEPT !.steps = s] \in Jobs
           /\ [j EXCEPT !.steps = s].key = j.key
           /\ [j EXCEPT !.steps = s].steps = s
           /\ [j EXCEPT !.steps = s].at = j.at
BY DEF Jobs

LEMMA NewAt ==
    ASSUME NEW j \in Jobs, NEW a \in 1..(N + 1)
    PROVE  /\ [j EXCEPT !.at = a] \in Jobs
           /\ [j EXCEPT !.at = a].key = j.key
           /\ [j EXCEPT !.at = a].steps = j.steps
           /\ [j EXCEPT !.at = a].at = a
BY DEF Jobs

LEMMA NewWeb ==
    ASSUME NEW j \in Jobs, NEW web \in BOOLEAN
    PROVE  /\ [j EXCEPT !.web = web] \in Jobs
           /\ [j EXCEPT !.web = web].key = j.key
           /\ [j EXCEPT !.web = web].steps = j.steps
           /\ [j EXCEPT !.web = web].at = j.at
BY DEF Jobs

LEMMA NewStepsAt ==
    ASSUME NEW j \in Jobs, NEW s \in Steps, NEW a \in 1..(N + 1)
    PROVE  /\ [j EXCEPT !.steps = s, !.at = a] \in Jobs
           /\ [j EXCEPT !.steps = s, !.at = a].key = j.key
           /\ [j EXCEPT !.steps = s, !.at = a].steps = s
           /\ [j EXCEPT !.steps = s, !.at = a].at = a
BY DEF Jobs

LEMMA JobForFields ==
    ASSUME NEW k \in Keys
    PROVE  JobFor(k) \in Jobs /\ JobFor(k).key = k /\ JobFor(k).steps = NoSteps /\ JobFor(k).at = 1
BY JobForType, BlankType DEF JobFor, Blank, Jobs

LEMMA Indices == /\ 1 \in 1..(N + 1) /\ N + 1 \in 1..(N + 1)
                 /\ \A i \in Idx : i \in 1..(N + 1) /\ i + 1 \in 1..(N + 1)
BY StepsAssumption DEF Idx

\* A resumed step is one of the rule's.
ResumePoint == \A w \in Workers : pc[w] = "resume" => job[w].at \in Idx

\* Every step of the specification keeps the types, action by action.
LEMMA TypeStep == TypeOK /\ ResumePoint /\ [Next]_vars => TypeOK'
<1> SUFFICES ASSUME TypeOK, ResumePoint, [Next]_vars PROVE TypeOK'
  OBVIOUS
<1> USE DEF env, row, hist
<1>1. ASSUME NEW w \in Workers, Execute(w) PROVE TypeOK'
  <2>0. job[w] \in Jobs /\ job[w].key \in Keys /\ job[w].steps \in Steps
    BY DEF TypeOK, Jobs
  <2>1. ASSUME NEW k \in Keys, ExecuteStart(w, k) PROVE TypeOK'
    <3>1. job' \in [Workers -> Jobs] /\ pc' \in [Workers -> PcValues]
      BY <2>1, JobForType, LocalStep, GotoStep DEF ExecuteStart, TypeOK, PcValues, ExecuteAt
    <3> QED
      BY <2>1, <3>1 DEF TypeOK, ExecuteStart
  <2>2. CASE ExecuteInsert(w)
    <3>1. job' \in [Workers -> Jobs] /\ pc' \in [Workers -> PcValues]
      BY <2>2, DoneStep, GotoStep DEF ExecuteInsert, TypeOK, PcValues, ExecuteAt
    <3> QED
      BY <2>0, <2>2, <3>1 DEF TypeOK, ExecuteInsert, RunStatus
  <2>3. CASE ExecuteOverLimit(w)
    <3>1. [i \in Idx |-> "bloqueado"] \in Steps
      BY DEF Steps, StepStatus
    <3>2. [job[w] EXCEPT !.steps = [i \in Idx |-> "bloqueado"]] \in Jobs
      BY <2>0, <3>1 DEF Jobs
    <3>3. job' \in [Workers -> Jobs] /\ pc' \in [Workers -> PcValues]
      BY <2>3, <3>2, LocalStep, GotoStep DEF ExecuteOverLimit, TypeOK, PcValues, ExecuteAt
    <3>4. "failed" \in RunStatus
      BY DEF RunStatus
    <3>5. status' \in [Keys -> RunStatus] /\ steps' \in [Keys -> Steps]
      BY <2>0, <2>3, <3>1, <3>4, WriteRowType DEF ExecuteOverLimit
    <3> QED
      BY <2>3, <3>3, <3>5 DEF TypeOK, ExecuteOverLimit
  <2>4. CASE ExecuteDisableRule(w)
    BY <2>4, GotoStep DEF TypeOK, ExecuteDisableRule, PcValues
  <2>5. CASE ExecuteSkip(w)
    <3>1. "skipped" \in RunStatus /\ steps[job[w].key] \in Steps
      BY <2>0 DEF RunStatus, TypeOK
    <3>2. status' \in [Keys -> RunStatus] /\ steps' \in [Keys -> Steps]
      BY <2>0, <2>5, <3>1, WriteRowType DEF ExecuteSkip
    <3> QED
      BY <2>5, <3>2, DoneStep DEF TypeOK, ExecuteSkip
  <2>6. CASE ExecutePlan(w)
    <3>1. PICK p \in Steps : Local(w, [job[w] EXCEPT !.steps = p])
      BY <2>6 DEF ExecutePlan
    <3>2. [job[w] EXCEPT !.steps = p] \in Jobs
      BY <2>0 DEF Jobs
    <3> QED
      BY <2>6, <3>1, <3>2, LocalStep, GotoStep DEF TypeOK, ExecutePlan, PcValues, ExecuteAt
  <2>7. CASE ExecuteStep(w)
    <3> DEFINE i == job[w].at
    <3>1. i \in Idx /\ i + 1 \in 1..(N + 1)
      BY <2>7, Indices DEF ExecuteStep
    <3>2. ASSUME Perform(w, i, FALSE, i + 1) PROVE TypeOK'
      BY <2>7, <3>1, <3>2, PerformedStep DEF Perform, TypeOK, ExecuteStep
    <3>3. ASSUME NEW st \in StepStatus, UNCHANGED <<effects, timers>>,
                 Local(w, [job[w] EXCEPT !.steps = [job[w].steps EXCEPT ![i] = st], !.at = i + 1])
          PROVE  TypeOK'
      <4>1. [job[w].steps EXCEPT ![i] = st] \in Steps
        BY <2>0, <3>1 DEF Steps
      <4>2. [job[w] EXCEPT !.steps = [job[w].steps EXCEPT ![i] = st], !.at = i + 1] \in Jobs
        BY <2>0, <3>1, <4>1 DEF Jobs
      <4> QED
        BY <2>7, <3>3, <4>2, LocalStep DEF TypeOK, ExecuteStep
    <3>4. job[w].steps[i] \in StepStatus /\ "aguardando" \in StepStatus
      BY <2>0, <3>1 DEF Steps, StepStatus
    <3> QED
      BY <2>7, <3>2, <3>3, <3>4 DEF ExecuteStep
  <2>8. CASE ExecuteSave(w)
    BY <2>0, <2>8, FinalStatusType, WriteRowType, GotoStep DEF TypeOK, ExecuteSave, PcValues
  <2> QED
    BY <1>1, <2>1, <2>2, <2>3, <2>4, <2>5, <2>6, <2>7, <2>8 DEF Execute
<1>2. ASSUME NEW w \in Workers, Decision(w) PROVE TypeOK'
  <2>0. job[w] \in Jobs /\ job[w].key \in Keys /\ job[w].steps \in Steps
    BY DEF TypeOK, Jobs
  <2>1. ASSUME NEW k \in Keys, NEW web \in BOOLEAN, NEW approving \in BOOLEAN,
               DecideStart(w, k, web, approving) PROVE TypeOK'
    <3>1. [JobFor(k) EXCEPT !.web = web] \in Jobs
      BY JobForType DEF Jobs
    <3> QED
      BY <2>1, <3>1, LocalStep, GotoStep DEF TypeOK, DecideStart, PcValues, DecideAt
  <2>2. CASE Claim(w)
    <3>1. job' \in [Workers -> Jobs] /\ pc' \in [Workers -> PcValues]
      BY <2>2, DoneStep, GotoStep DEF Claim, TypeOK, PcValues, DecideAt
    <3>2. status' = status \/ status' = [status EXCEPT ![job[w].key] = "running"]
      BY <2>2 DEF Claim
    <3>3. lock' = lock \/ lock' = [lock EXCEPT ![job[w].key] = w]
      BY <2>2 DEF Claim
    <3>4. approvals' = approvals \/ approvals' = approvals \cup {job[w].key}
      BY <2>2 DEF Claim
    <3> QED
      BY ZenonT(60), <2>0, <2>2, <3>1, <3>2, <3>3, <3>4 DEF TypeOK, Claim, RunStatus
  <2>3. CASE Refresh(w)
    <3>1. [job[w] EXCEPT !.steps = steps[job[w].key]] \in Jobs
      BY <2>0 DEF Jobs, TypeOK
    <3> QED
      BY <2>3, <3>1, LocalStep, GotoStep DEF TypeOK, Refresh, PcValues, DecideAt
  <2>4. CASE ApproveStep(w)
    <3> DEFINE i == job[w].at
    <3>1. i \in Idx /\ i + 1 \in 1..(N + 1)
      BY <2>4, Indices DEF ApproveStep
    <3>2. ASSUME Perform(w, i, FALSE, i + 1) PROVE TypeOK'
      BY <2>4, <3>1, <3>2, PerformedStep DEF Perform, TypeOK, ApproveStep
    <3>3. ASSUME UNCHANGED <<effects, timers>>, Local(w, [job[w] EXCEPT !.at = i + 1])
          PROVE TypeOK'
      <4>1. [job[w] EXCEPT !.at = i + 1] \in Jobs
        BY <2>0, <3>1 DEF Jobs
      <4> QED
        BY <2>4, <3>3, <4>1, LocalStep DEF TypeOK, ApproveStep
    <3> QED
      BY <2>4, <3>2, <3>3 DEF ApproveStep
  <2>5. ASSUME NEW st \in RunStatus, NEW s \in Steps, Decide(w, st, s) PROVE TypeOK'
    <3>1. timers' \in [Keys -> [Idx -> Nat]]
      BY <2>0, <2>5 DEF TypeOK, Decide
    <3> QED
      BY <2>0, <2>5, <3>1, DoneStep DEF TypeOK, Decide
  <2>6. CASE ApproveSave(w)
    BY <2>0, <2>5, <2>6, FinalStatusType DEF ApproveSave
  <2>7. CASE RejectRefresh(w)
    <3>1. Recast(steps[job[w].key], "recusado") \in Steps
      BY <2>0, RecastType DEF TypeOK
    <3>2. [job[w] EXCEPT !.steps = Recast(steps[job[w].key], "recusado"), !.at = N + 1] \in Jobs
      BY <2>0, <3>1, Indices DEF Jobs
    <3> QED
      BY <2>7, <3>2, LocalStep DEF TypeOK, RejectRefresh
  <2>8. CASE RejectSave(w)
    <3>1. "rejected" \in RunStatus
      BY DEF RunStatus
    <3> QED
      BY <2>0, <2>5, <2>8, <3>1 DEF RejectSave
  <2> QED
    BY <1>2, <2>1, <2>2, <2>3, <2>4, <2>6, <2>7, <2>8 DEF Decision
<1>3. ASSUME NEW w \in Workers, Resume(w) PROVE TypeOK'
  <2>0. job[w] \in Jobs /\ job[w].key \in Keys /\ job[w].steps \in Steps
    BY DEF TypeOK, Jobs
  <2>1. ASSUME NEW k \in Keys, NEW i \in Idx, ResumeStart(w, k, i) PROVE TypeOK'
    <3>1. [JobFor(k) EXCEPT !.steps = steps[k], !.at = i] \in Jobs
      <4>1. steps[k] \in Steps /\ i \in 1..(N + 1) /\ JobFor(k) \in Jobs
        BY JobForType, Indices DEF TypeOK
      <4> QED
        BY <4>1 DEF Jobs
    <3>2. job' \in [Workers -> Jobs] /\ pc' \in [Workers -> PcValues]
      BY <2>1, <3>1, LocalStep, GotoStep DEF TypeOK, ResumeStart, PcValues, ResumeAt
    <3>3. timers' \in [Keys -> [Idx -> Nat]]
      <4>1. timers' = [timers EXCEPT ![k][i] = timers[k][i] - 1] /\ timers[k][i] > 0
        BY <2>1 DEF ResumeStart, Due
      <4>2. timers \in [Keys -> [Idx -> Nat]] /\ timers[k][i] - 1 \in Nat
        BY <4>1 DEF TypeOK
      <4> QED
        BY <4>1, <4>2
    <3> QED
      BY <2>1, <3>2, <3>3 DEF TypeOK, ResumeStart
  <2>2. CASE ResumePerform(w)
    <3>1. job[w].at \in Idx /\ job[w].at \in 1..(N + 1)
      BY <2>2, Indices DEF ResumePoint, ResumePerform
    <3> QED
      BY <2>2, <3>1, PerformedStep, GotoStep DEF Perform, TypeOK, ResumePerform, PcValues, ResumeAt
  <2>3. CASE ResumeSave(w)
    BY <2>0, <2>3, FinalStatusType, WriteRowType, GotoStep DEF TypeOK, ResumeSave, PcValues
  <2> QED
    BY <1>3, <2>1, <2>2, <2>3 DEF Resume
<1>4. ASSUME NEW w \in Workers, Expire(w) PROVE TypeOK'
  <2>0. job[w] \in Jobs /\ job[w].key \in Keys /\ job[w].steps \in Steps
    BY DEF TypeOK, Jobs
  <2>1. ASSUME NEW k \in Keys, ExpireRead(w, k) PROVE TypeOK'
    <3>1. Recast(steps[k], "expirado") \in Steps
      BY RecastType DEF TypeOK
    <3>2. [JobFor(k) EXCEPT !.steps = Recast(steps[k], "expirado")] \in Jobs
      BY <3>1, JobForType DEF Jobs
    <3> QED
      BY <2>1, <3>2, LocalStep, GotoStep DEF TypeOK, ExpireRead, PcValues
  <2>2. CASE ExpireSave(w)
    <3>1. "expired" \in RunStatus
      BY DEF RunStatus
    <3> QED
      BY <2>0, <2>2, <3>1, WriteRowType, DoneStep DEF TypeOK, ExpireSave
  <2> QED
    BY <1>4, <2>1, <2>2 DEF Expire
<1>5. ASSUME NEW w \in Workers, NotifyOutcome(w) PROVE TypeOK'
  <2>0. job[w].key \in Keys
    BY DEF TypeOK, Jobs
  <2> QED
    BY <1>5, <2>0, DoneStep DEF TypeOK, NotifyOutcome, Notices
<1>6. ASSUME NEW w \in Workers, Crash(w) PROVE TypeOK'
  <2>0. job[w].key \in Keys
    BY DEF TypeOK, Jobs
  <2>1. timers' \in [Keys -> [Idx -> Nat]]
    <3>1. \/ timers' = timers
          \/ timers' = [timers EXCEPT ![job[w].key][job[w].at] = timers[job[w].key][job[w].at] + 1]
      BY <1>6 DEF Crash
    <3>2. timers \in [Keys -> [Idx -> Nat]]
      BY DEF TypeOK
    <3> QED
      BY <2>0, <3>1, <3>2
  <2> QED
    BY <1>6, <2>0, <2>1, DoneStep DEF TypeOK, Crash
<1>7. ASSUME NEW k \in Keys, GrowOld(k) PROVE TypeOK'
  <2>1. age \in [Keys -> 0..2] /\ age[k] < 2 /\ age' = [age EXCEPT ![k] = age[k] + 1]
    BY <1>7 DEF TypeOK, GrowOld
  <2>2. age' \in [Keys -> 0..2]
    BY <2>1
  <2> QED
    BY <1>7, <2>2 DEF TypeOK, GrowOld
<1>8. CASE OfficeHours \/ ContactChoice \/ SwitchRule
  BY <1>8 DEF TypeOK, OfficeHours, ContactChoice, SwitchRule
<1>9. CASE UNCHANGED vars
  BY <1>9 DEF TypeOK, vars
<1> QED
  BY <1>1, <1>2, <1>3, <1>4, <1>5, <1>6, <1>7, <1>8, <1>9 DEF Next

LEMMA ResumePointStep == TypeOK /\ ResumePoint /\ [Next]_vars => ResumePoint'
<1> SUFFICES ASSUME TypeOK, ResumePoint, [Next]_vars PROVE ResumePoint'
  OBVIOUS
<1> USE DEF env, row, hist, ResumePoint
<1>0. \A w \in Workers : job[w] \in Jobs /\ job[w].key \in Keys
  BY DEF TypeOK, Jobs
<1>1. ASSUME NEW w \in Workers, \A u \in Workers \ {w} : pc'[u] = pc[u] /\ job'[u] = job[u],
             pc'[w] # "resume"
      PROVE  ResumePoint'
  BY <1>1
<1>2. ASSUME NEW w \in Workers, NEW l \in PcValues \ {"resume"}, Goto(w, l), UNCHANGED job
      PROVE  ResumePoint'
  BY <1>1, <1>2, GotoStep DEF TypeOK
<1>3. ASSUME NEW w \in Workers, NEW l \in PcValues \ {"resume"}, Goto(w, l),
             NEW j \in Jobs, Local(w, j)
      PROVE  ResumePoint'
  BY <1>1, <1>3, GotoStep, LocalStep DEF TypeOK
<1>4. ASSUME NEW w \in Workers, Done(w) PROVE ResumePoint'
  BY <1>1, <1>4, DoneStep
<1>5. ASSUME NEW w \in Workers, Execute(w) PROVE ResumePoint'
  <2> USE <1>5 DEF PcValues, ExecuteAt
  <2>1. ASSUME NEW k \in Keys, ExecuteStart(w, k) PROVE ResumePoint'
    BY <1>3, <2>1, JobForFields DEF ExecuteStart
  <2>2. CASE ExecuteInsert(w)
    BY <1>2, <1>4, <2>2 DEF ExecuteInsert
  <2>3. CASE ExecuteOverLimit(w)
    BY <1>0, <1>3, <2>3, NewSteps DEF ExecuteOverLimit, Steps, StepStatus
  <2>4. CASE ExecuteDisableRule(w)
    BY <1>2, <2>4 DEF ExecuteDisableRule
  <2>5. CASE ExecuteSkip(w)
    BY <1>4, <2>5 DEF ExecuteSkip
  <2>6. CASE ExecutePlan(w)
    BY <1>0, <1>3, <2>6, NewSteps DEF ExecutePlan
  <2>7. CASE ExecuteStep(w)
    BY <1>1, <2>7 DEF ExecuteStep, Perform, Performed, Local, TypeOK
  <2>8. CASE ExecuteSave(w)
    BY <1>2, <2>8 DEF ExecuteSave
  <2> QED
    BY <2>1, <2>2, <2>3, <2>4, <2>5, <2>6, <2>7, <2>8 DEF Execute
<1>6. ASSUME NEW w \in Workers, Decision(w) PROVE ResumePoint'
  <2> USE <1>6 DEF PcValues, DecideAt
  <2>1. ASSUME NEW k \in Keys, NEW web \in BOOLEAN, NEW approving \in BOOLEAN,
               DecideStart(w, k, web, approving) PROVE ResumePoint'
    BY <1>3, <2>1, JobForFields, NewWeb DEF DecideStart
  <2>2. CASE Claim(w)
    BY <1>2, <1>4, <2>2 DEF Claim
  <2>3. CASE Refresh(w)
    BY <1>0, <1>3, <2>3, NewSteps DEF Refresh, TypeOK
  <2>4. CASE ApproveStep(w)
    BY <1>1, <2>4 DEF ApproveStep, Perform, Performed, Local, TypeOK
  <2>5. CASE ApproveSave(w)
    BY <1>4, <2>5 DEF ApproveSave, Decide
  <2>6. CASE RejectRefresh(w)
    BY <1>1, <2>6 DEF RejectRefresh, Local, TypeOK
  <2>7. CASE RejectSave(w)
    BY <1>4, <2>7 DEF RejectSave, Decide
  <2> QED
    BY <2>1, <2>2, <2>3, <2>4, <2>5, <2>6, <2>7 DEF Decision
<1>7. ASSUME NEW w \in Workers, Resume(w) PROVE ResumePoint'
  <2> USE <1>7 DEF PcValues, ResumeAt
  <2>1. ASSUME NEW k \in Keys, NEW i \in Idx, ResumeStart(w, k, i) PROVE ResumePoint'
    <3> HIDE DEF env, row, hist, PcValues, ResumeAt
    <3> DEFINE j == [JobFor(k) EXCEPT !.steps = steps[k], !.at = i]
    <3>1. steps[k] \in Steps /\ i \in 1..(N + 1) /\ JobFor(k) \in Jobs
      BY JobForFields, Indices DEF TypeOK
    <3>2. j \in Jobs /\ j.at = i
      BY <3>1 DEF Jobs
    <3>3. ASSUME UNCHANGED <<pc, job>> PROVE ResumePoint'
      BY <3>3
    <3>4. ASSUME Goto(w, "resume"), Local(w, j) PROVE ResumePoint'
      <4>1. job'[w] = j /\ \A u \in Workers \ {w} : pc'[u] = pc[u] /\ job'[u] = job[u]
        BY <3>2, <3>4, LocalStep, GotoStep DEF TypeOK, PcValues, ResumeAt
      <4> QED
        BY <3>2, <4>1
    <3> QED
      BY <2>1, <3>3, <3>4 DEF ResumeStart
  <2>2. CASE ResumePerform(w)
    <3>1. job[w].at \in Idx /\ job[w].at \in 1..(N + 1)
      BY <2>2, Indices DEF ResumePerform
    <3>2. \A u \in Workers \ {w} : job'[u] = job[u]
      BY <2>2, <3>1, PerformedStep DEF Perform, ResumePerform
    <3> QED
      BY <1>1, <2>2, <3>2, GotoStep DEF ResumePerform, TypeOK
  <2>3. CASE ResumeSave(w)
    BY <1>2, <2>3 DEF ResumeSave
  <2> QED
    BY <2>1, <2>2, <2>3 DEF Resume
<1>8. ASSUME NEW w \in Workers, Expire(w) PROVE ResumePoint'
  <2>1. ASSUME NEW k \in Keys, ExpireRead(w, k) PROVE ResumePoint'
    BY <1>3, <2>1, JobForFields, NewSteps, RecastType DEF ExpireRead, TypeOK, PcValues
  <2>2. CASE ExpireSave(w)
    BY <1>4, <2>2 DEF ExpireSave
  <2> QED
    BY <1>8, <2>1, <2>2 DEF Expire
<1>9. ASSUME NEW w \in Workers, NotifyOutcome(w) \/ Crash(w) PROVE ResumePoint'
  BY <1>4, <1>9 DEF NotifyOutcome, Crash
<1>10. ASSUME UNCHANGED <<pc, job>> PROVE ResumePoint'
  BY <1>10
<1> QED
  BY <1>5, <1>6, <1>7, <1>8, <1>9, <1>10
     DEF Next, vars, GrowOld, OfficeHours, ContactChoice, SwitchRule

\* Every variable keeps to its range, in every reachable state.
THEOREM TypeCorrect == Spec => []TypeOK
<1>1. Init => TypeOK /\ ResumePoint
  BY TypeInit DEF Init, ResumePoint
<1> QED
  BY <1>1, TypeStep, ResumePointStep, PTL DEF Spec

(***************************************************************************)
(* Approval and truthfulness of the row.  NothingLeavesUnapproved and      *)
(* DoneIsReal are not inductive: a put-off step is performed later without *)
(* another look at the approval, and a process writes back what it read.   *)
(* So the copies of all the processes are held to the same two conditions  *)
(* as the rows.                                                            *)
(***************************************************************************)
\* What steps s may say of run k: a put-off step that needed a human was
\* approved, a step that is done took effect.
Sound(k, s) ==
    \A n \in Idx : /\ NeedsApproval(n) /\ s[n] = "agendado" => k \in approvals
                   /\ s[n] = "feito" /\ Kind[n] # "calculo" => effects[k][n] > 0

Ready(w) ==
    /\ Sound(job[w].key, job[w].steps)
    /\ pc[w] \in {"refresh", "approving"} => job[w].key \in approvals
    /\ pc[w] = "resume" => job[w].at \in Idx /\ job[w].steps[job[w].at] = "agendado"

RecordInv ==
    /\ NothingLeavesUnapproved
    /\ \A k \in Keys : Sound(k, steps[k])
    /\ \A w \in Workers : Ready(w)

\* Blank steps say nothing.
LEMMA NoStepsSound == \A k : Sound(k, NoSteps)
BY DEF Sound, NoSteps

LEMMA RecastSound ==
    ASSUME NEW k, NEW s, Sound(k, s), NEW to \in {"recusado", "expirado"}
    PROVE  Sound(k, Recast(s, to))
BY DEF Sound, Recast

\* A step of process w that performs nothing and takes no approval back.
LEMMA QuietStep ==
    ASSUME TypeOK, RecordInv, NEW w \in Workers,
           UNCHANGED effects, approvals \subseteq approvals',
           \A u \in Workers \ {w} : pc'[u] = pc[u] /\ job'[u] = job[u],
           \A k \in Keys : Sound(k, steps'[k]),
           Sound(job'[w].key, job'[w].steps),
           pc'[w] \in {"refresh", "approving"} => job'[w].key \in approvals',
           pc'[w] = "resume" =>
              job'[w].at \in Idx /\ job'[w].steps[job'[w].at] = "agendado"
    PROVE  RecordInv'
<1>1. NothingLeavesUnapproved'
  BY DEF RecordInv, NothingLeavesUnapproved
<1>2. \A k \in Keys : Sound(k, steps[k])'
  BY DEF Sound
<1>3. ASSUME NEW u \in Workers PROVE Ready(u)'
  <2>1. CASE u = w
    BY <2>1 DEF Ready, Sound
  <2>2. CASE u # w
    BY <2>2 DEF Ready, Sound, RecordInv
  <2> QED
    BY <2>1, <2>2
<1> QED
  BY <1>1, <1>2, <1>3 DEF RecordInv

\* Performing a step that is allowed to be performed.
LEMMA PerformedSound ==
    ASSUME TypeOK, RecordInv, NEW w \in Workers, NEW i \in Idx, NEW force \in BOOLEAN,
           NEW next \in 1..(N + 1), NEW o \in Outcomes(i, force), Performed(w, i, o, next),
           NeedsApproval(i) => job[w].key \in approvals,
           UNCHANGED <<approvals, steps>>,
           \A u \in Workers \ {w} : pc'[u] = pc[u],
           pc'[w] = pc[w] \/ pc'[w] = "resumed", pc'[w] # "resume"
    PROVE  RecordInv'
<1> DEFINE k == job[w].key
<1>1. k \in Keys /\ job[w].steps \in Steps
  BY DEF TypeOK, Jobs
<1>2. /\ effects' = [effects EXCEPT ![k][i] = effects[k][i] + o[2]]
      /\ job'[w].key = k
      /\ job'[w].steps = [job[w].steps EXCEPT ![i] = o[1]]
      /\ \A u \in Workers \ {w} : job'[u] = job[u]
  BY PerformedStep
<1>3. o[2] \in {0, 1} /\ (o[1] = "feito" => o[2] = 1) /\ o[1] # "ausente"
  BY OutcomesType
<1>4. \A h \in Keys, x \in Idx : /\ effects[h][x] \in Nat /\ effects'[h][x] \in Nat
                                 /\ effects'[h][x] >= effects[h][x]
  BY <1>1, <1>2, <1>3 DEF TypeOK
<1>5. \A h \in Keys, x \in Idx : h # k \/ x # i => effects'[h][x] = effects[h][x]
  BY <1>1, <1>2 DEF TypeOK
<1>6. NothingLeavesUnapproved'
  BY <1>4, <1>5 DEF RecordInv, NothingLeavesUnapproved
<1>7. ASSUME NEW h \in Keys, NEW s \in Steps, Sound(h, s)
      PROVE  \A x \in Idx : /\ NeedsApproval(x) /\ s[x] = "agendado" => h \in approvals'
                            /\ s[x] = "feito" /\ Kind[x] # "calculo" => effects'[h][x] > 0
  <2>1. ASSUME NEW x \in Idx, effects[h][x] > 0 PROVE effects'[h][x] > 0
    BY <1>4, <2>1
  <2> QED
    BY <1>7, <2>1 DEF Sound
<1>8. \A h \in Keys : Sound(h, steps[h])'
  BY <1>7 DEF Sound, RecordInv, TypeOK
<1>9. ASSUME NEW u \in Workers, u # w PROVE Ready(u)'
  <2>1. job[u].key \in Keys /\ job[u].steps \in Steps
    BY DEF TypeOK, Jobs
  <2> QED
    BY <1>2, <1>7, <1>9, <2>1 DEF Ready, Sound, RecordInv
<1>10. Ready(w)'
  <2>1. effects'[k][i] = effects[k][i] + o[2]
    BY <1>1, <1>2 DEF TypeOK
  <2>2. o[1] = "feito" => effects'[k][i] > 0
    <3>1. effects[k][i] \in Nat
      BY <1>1, <1>4
    <3> QED
      BY <1>3, <2>1, <3>1
  <2>3. ASSUME NEW x \in Idx
        PROVE  /\ NeedsApproval(x) /\ job'[w].steps[x] = "agendado" => k \in approvals'
               /\ job'[w].steps[x] = "feito" /\ Kind[x] # "calculo" => effects'[k][x] > 0
    <3>1. CASE x = i
      BY <1>1, <1>2, <2>2, <3>1 DEF Steps
    <3>2. CASE x # i
      <4>1. job'[w].steps[x] = job[w].steps[x]
        BY <1>1, <1>2, <3>2 DEF Steps
      <4>2. Sound(k, job[w].steps)
        BY DEF RecordInv, Ready
      <4> QED
        BY <1>1, <1>7, <4>1, <4>2
    <3> QED
      BY <3>1, <3>2
  <2>4. Sound(job[w].key, job[w].steps)'
    BY <1>2, <2>3 DEF Sound
  <2>5. pc'[w] \in {"refresh", "approving"} => k \in approvals'
    BY DEF RecordInv, Ready
  <2> QED
    BY <1>2, <2>4, <2>5 DEF Ready
<1> QED
  BY <1>6, <1>8, <1>9, <1>10 DEF RecordInv

\* A row that is written with sound steps leaves every row sound.
LEMMA WriteRowSound ==
    ASSUME TypeOK, RecordInv, NEW k \in Keys, NEW st, NEW s, WriteRow(k, st, s), Sound(k, s)
    PROVE  \A h \in Keys : Sound(h, steps'[h])
BY DEF WriteRow, TypeOK, RecordInv

\* A process that finishes its handler, once the rows are sound.
LEMMA DoneSound ==
    ASSUME TypeOK, RecordInv, NEW w \in Workers, Done(w), UNCHANGED <<effects, approvals>>,
           \A k \in Keys : Sound(k, steps'[k])
    PROVE  RecordInv'
<1>1. /\ pc'[w] = "idle" /\ job'[w] = Blank
      /\ \A u \in Workers \ {w} : pc'[u] = pc[u] /\ job'[u] = job[u]
  BY DoneStep
<1>2. Blank.steps = NoSteps
  BY DEF Blank
<1> QED
  BY <1>1, <1>2, NoStepsSound, QuietStep

LEMMA RecordStep == TypeOK /\ RecordInv /\ [Next]_vars => RecordInv'
<1> SUFFICES ASSUME TypeOK, RecordInv, [Next]_vars PROVE RecordInv'
  OBVIOUS
<1>0. /\ \A w \in Workers : /\ job[w] \in Jobs /\ job[w].key \in Keys /\ job[w].steps \in Steps
                            /\ Sound(job[w].key, job[w].steps)
      /\ \A k \in Keys : Sound(k, steps[k]) /\ steps[k] \in Steps
      /\ pc \in [Workers -> PcValues] /\ job \in [Workers -> Jobs]
  BY DEF TypeOK, Jobs, RecordInv, Ready
\* The process moves on, with the same copy or with another sound one.
<1>1. ASSUME NEW w \in Workers, NEW l \in PcValues \ {"resume", "refresh", "approving"},
             Goto(w, l), UNCHANGED <<effects, approvals, job>>,
             \A k \in Keys : Sound(k, steps'[k])
      PROVE  RecordInv'
  BY <1>0, <1>1, GotoStep, QuietStep
<1>2. ASSUME NEW w \in Workers, NEW l \in PcValues \ {"resume", "refresh", "approving"},
             Goto(w, l), NEW j \in Jobs, Local(w, j), UNCHANGED <<effects, approvals>>,
             Sound(j.key, j.steps), \A k \in Keys : Sound(k, steps'[k])
      PROVE  RecordInv'
  <2>1. pc'[w] = l /\ job'[w] = j
        /\ \A u \in Workers \ {w} : pc'[u] = pc[u] /\ job'[u] = job[u]
    BY <1>0, <1>2, GotoStep, LocalStep
  <2> QED
    BY <1>2, <2>1, QuietStep
\* Nothing the invariant speaks of changes.
<1>3. ASSUME UNCHANGED <<effects, approvals, steps, pc, job>> PROVE RecordInv'
  BY <1>3 DEF RecordInv, Ready, Sound, NothingLeavesUnapproved
<1>4. ASSUME NEW w \in Workers, Execute(w) PROVE RecordInv'
  <2> USE DEF row, env, hist
  <2>1. ASSUME NEW k \in Keys, ExecuteStart(w, k) PROVE RecordInv'
    <3>1. Sound(JobFor(k).key, JobFor(k).steps) /\ JobFor(k) \in Jobs
      BY JobForFields, NoStepsSound
    <3>2. "insert" \in PcValues \ {"resume", "refresh", "approving"}
      BY DEF PcValues, ExecuteAt
    <3> QED
      BY <1>0, <1>2, <1>3, <2>1, <3>1, <3>2 DEF ExecuteStart
  <2>2. CASE ExecuteInsert(w)
    BY <1>0, <1>1, <2>2, DoneSound DEF ExecuteInsert, PcValues, ExecuteAt
  <2>3. CASE ExecuteOverLimit(w)
    <3> DEFINE s == [i \in Idx |-> "bloqueado"]
    <3>1. s \in Steps /\ Sound(job[w].key, s)
      BY DEF Steps, StepStatus, Sound
    <3>2. /\ [job[w] EXCEPT !.steps = s] \in Jobs /\ [job[w] EXCEPT !.steps = s].key = job[w].key
          /\ [job[w] EXCEPT !.steps = s].steps = s
      BY <1>0, <3>1, NewSteps
    <3>3. "disable" \in PcValues \ {"resume", "refresh", "approving"}
      BY DEF PcValues, ExecuteAt
    <3>4. \A h \in Keys : Sound(h, steps'[h])
      BY <1>0, <2>3, <3>1, WriteRowSound DEF ExecuteOverLimit
    <3> QED
      BY <1>2, <2>3, <3>1, <3>2, <3>3, <3>4 DEF ExecuteOverLimit
  <2>4. CASE ExecuteDisableRule(w)
    BY <1>0, <1>1, <2>4 DEF ExecuteDisableRule, PcValues
  <2>5. CASE ExecuteSkip(w)
    BY <1>0, <2>5, DoneSound, WriteRowSound DEF ExecuteSkip
  <2>6. CASE ExecutePlan(w)
    <3>1. PICK p \in Steps : /\ \A i \in Idx : p[i] \in Planned(i)
                             /\ Local(w, [job[w] EXCEPT !.steps = p])
      BY <2>6 DEF ExecutePlan
    <3>2. \A i \in Idx : p[i] # "agendado" /\ (p[i] = "feito" => Kind[i] = "calculo")
      BY <3>1 DEF Planned
    <3>3. Sound(job[w].key, p)
      BY <3>2 DEF Sound
    <3>4. /\ [job[w] EXCEPT !.steps = p] \in Jobs /\ [job[w] EXCEPT !.steps = p].key = job[w].key
          /\ [job[w] EXCEPT !.steps = p].steps = p
      BY <1>0, NewSteps
    <3>5. "perform" \in PcValues \ {"resume", "refresh", "approving"}
      BY DEF PcValues, ExecuteAt
    <3> QED
      BY <1>0, <1>2, <2>6, <3>1, <3>3, <3>4, <3>5 DEF ExecutePlan
  <2>7. CASE ExecuteStep(w)
    <3> DEFINE i == job[w].at
    <3>1. i \in Idx /\ i + 1 \in 1..(N + 1) /\ pc[w] = "perform" /\ UNCHANGED <<pc, steps, approvals>>
      BY <2>7, Indices DEF ExecuteStep
    <3>2. ASSUME ~NeedsApproval(i), Perform(w, i, FALSE, i + 1) PROVE RecordInv'
      BY <3>1, <3>2, PerformedSound DEF Perform
    <3>3. ASSUME NEW st \in StepStatus, UNCHANGED effects,
                 st = "aguardando" \/ st = job[w].steps[i],
                 Local(w, [job[w] EXCEPT !.steps = [job[w].steps EXCEPT ![i] = st], !.at = i + 1])
          PROVE  RecordInv'
      <4> DEFINE s == [job[w].steps EXCEPT ![i] = st]
                 j == [job[w] EXCEPT !.steps = s, !.at = i + 1]
      <4>1. s \in Steps
        BY <1>0, <3>1 DEF Steps
      <4>2. Sound(job[w].key, s)
        BY <1>0, <3>1, <3>3 DEF Sound, Steps
      <4>3. j \in Jobs /\ j.key = job[w].key /\ j.steps = s
        <5> HIDE DEF s
        <5> QED
          BY <1>0, <3>1, <4>1 DEF Jobs
      <4>4. job'[w] = j /\ \A u \in Workers \ {w} : job'[u] = job[u]
        BY <1>0, <3>3, <4>3, LocalStep
      <4>5. pc'[w] = "perform" /\ \A u \in Workers \ {w} : pc'[u] = pc[u]
        BY <3>1
      <4>6. \A k \in Keys : Sound(k, steps'[k])
        BY <1>0, <3>1
      <4> HIDE DEF j, s
      <4> QED
        BY <3>1, <3>3, <4>2, <4>3, <4>4, <4>5, <4>6, QuietStep
    <3>4. job[w].steps[i] \in StepStatus /\ "aguardando" \in StepStatus
      BY <1>0, <3>1 DEF Steps, StepStatus
    <3> QED
      BY <2>7, <3>2, <3>3, <3>4 DEF ExecuteStep, Waits
  <2>8. CASE ExecuteSave(w)
    BY <1>0, <1>1, <2>8, WriteRowSound DEF ExecuteSave, PcValues
  <2> QED
    BY <1>4, <2>1, <2>2, <2>3, <2>4, <2>5, <2>6, <2>7, <2>8 DEF Execute
<1>5. ASSUME NEW w \in Workers, Decision(w) PROVE RecordInv'
  <2> USE DEF row, env, hist
  <2>1. ASSUME NEW k \in Keys, NEW web \in BOOLEAN, NEW approving \in BOOLEAN,
               DecideStart(w, k, web, approving) PROVE RecordInv'
    <3> DEFINE j == [JobFor(k) EXCEPT !.web = web]
    <3>1. j \in Jobs /\ j.key = k /\ j.steps = NoSteps
      BY JobForFields, NewWeb
    <3>2. {"claim", "claimReject"} \subseteq PcValues \ {"resume", "refresh", "approving"}
      BY DEF PcValues, DecideAt
    <3> QED
      BY <1>0, <1>2, <2>1, <3>1, <3>2, NoStepsSound DEF DecideStart
  <2>2. CASE Claim(w)
    <3>1. UNCHANGED <<effects, steps>> /\ approvals \subseteq approvals'
      BY <2>2 DEF Claim
    <3>2. ASSUME pc[w] = "claim", Goto(w, "refresh"), UNCHANGED job,
                 approvals' = approvals \cup {job[w].key}
          PROVE  RecordInv'
      <4>1. pc'[w] = "refresh" /\ \A u \in Workers \ {w} : pc'[u] = pc[u]
        BY <1>0, <3>2, GotoStep DEF PcValues, DecideAt
      <4> QED
        BY <1>0, <3>1, <3>2, <4>1, QuietStep
    <3>3. ASSUME pc[w] = "claimReject", Goto(w, "rejecting"), UNCHANGED <<job, approvals>>
          PROVE  RecordInv'
      BY <1>0, <1>1, <3>1, <3>3 DEF PcValues, DecideAt
    <3>4. ASSUME Done(w), UNCHANGED approvals PROVE RecordInv'
      BY <1>0, <3>1, <3>4, DoneSound
    <3> QED
      BY <2>2, <3>2, <3>3, <3>4 DEF Claim
  <2>3. CASE Refresh(w)
    <3> DEFINE j == [job[w] EXCEPT !.steps = steps[job[w].key]]
    <3>1. j \in Jobs /\ j.key = job[w].key /\ j.steps = steps[job[w].key]
      BY <1>0, NewSteps
    <3>2. job[w].key \in approvals
      BY <2>3 DEF Refresh, RecordInv, Ready
    <3>3. /\ pc'[w] = "approving" /\ job'[w] = j
          /\ \A u \in Workers \ {w} : pc'[u] = pc[u] /\ job'[u] = job[u]
      BY <1>0, <2>3, <3>1, GotoStep, LocalStep DEF Refresh, PcValues, DecideAt
    <3>4. UNCHANGED <<effects, approvals, steps>>
      BY <2>3 DEF Refresh
    <3> HIDE DEF j
    <3> QED
      BY <1>0, <3>1, <3>2, <3>3, <3>4, QuietStep
  <2>4. CASE ApproveStep(w)
    <3> DEFINE i == job[w].at
    <3>1. /\ i \in Idx /\ i + 1 \in 1..(N + 1) /\ pc[w] = "approving"
          /\ UNCHANGED <<pc, steps, approvals>> /\ job[w].key \in approvals
      BY <2>4, Indices DEF ApproveStep, RecordInv, Ready
    <3>2. ASSUME Perform(w, i, FALSE, i + 1) PROVE RecordInv'
      BY <3>1, <3>2, PerformedSound DEF Perform
    <3>3. ASSUME UNCHANGED effects, Local(w, [job[w] EXCEPT !.at = i + 1]) PROVE RecordInv'
      <4> DEFINE j == [job[w] EXCEPT !.at = i + 1]
      <4>1. j \in Jobs /\ j.key = job[w].key /\ j.steps = job[w].steps
        BY <1>0, <3>1, NewAt
      <4>2. job'[w] = j /\ \A u \in Workers \ {w} : pc'[u] = pc[u] /\ job'[u] = job[u]
        BY <1>0, <3>1, <3>3, <4>1, LocalStep
      <4> HIDE DEF j
      <4> QED
        BY <1>0, <3>1, <3>3, <4>1, <4>2, QuietStep
    <3> QED
      BY <2>4, <3>2, <3>3 DEF ApproveStep
  <2>5. ASSUME NEW st, NEW s, Sound(job[w].key, s), Decide(w, st, s) PROVE RecordInv'
    <3>1. \A k \in Keys : Sound(k, steps'[k])
      BY <1>0, <2>5 DEF Decide, TypeOK
    <3> QED
      BY <2>5, <3>1, DoneSound DEF Decide
  <2>6. CASE ApproveSave(w)
    BY <1>0, <2>5, <2>6 DEF ApproveSave
  <2>7. CASE RejectRefresh(w)
    <3> DEFINE s == Recast(steps[job[w].key], "recusado")
               j == [job[w] EXCEPT !.steps = s, !.at = N + 1]
    <3>1. s \in Steps /\ Sound(job[w].key, s)
      BY <1>0, RecastType, RecastSound
    <3>2. j \in Jobs /\ j.key = job[w].key /\ j.steps = s
      <4> HIDE DEF s
      <4> QED
        BY <1>0, <3>1, Indices DEF Jobs
    <3>3. Local(w, j) /\ pc[w] = "rejecting" /\ UNCHANGED <<pc, effects, approvals, steps>>
      BY <2>7 DEF RejectRefresh
    <3>4. job'[w] = j /\ \A u \in Workers \ {w} : job'[u] = job[u]
      BY <1>0, <3>2, <3>3, LocalStep
    <3> HIDE DEF s, j
    <3> QED
      BY <1>0, <3>1, <3>2, <3>3, <3>4, QuietStep
  <2>8. CASE RejectSave(w)
    BY <1>0, <2>5, <2>8 DEF RejectSave
  <2> QED
    BY <1>5, <2>1, <2>2, <2>3, <2>4, <2>6, <2>7, <2>8 DEF Decision
<1>6. ASSUME NEW w \in Workers, Resume(w) PROVE RecordInv'
  <2> USE DEF row, env, hist
  <2>1. ASSUME NEW k \in Keys, NEW i \in Idx, ResumeStart(w, k, i) PROVE RecordInv'
    <3> DEFINE j == [JobFor(k) EXCEPT !.steps = steps[k], !.at = i]
    <3>1. steps[k] \in Steps /\ i \in 1..(N + 1) /\ JobFor(k) \in Jobs /\ JobFor(k).key = k
      BY <1>0, JobForFields, Indices
    <3>2. j \in Jobs /\ j.key = k /\ j.steps = steps[k] /\ j.at = i
      BY <3>1 DEF Jobs
    <3>3. UNCHANGED <<effects, approvals, steps>>
      BY <2>1 DEF ResumeStart
    <3>4. ASSUME UNCHANGED <<pc, job>> PROVE RecordInv'
      BY <1>3, <3>3, <3>4
    <3>5. ASSUME Goto(w, "resume"), Local(w, j), steps[k][i] = "agendado" PROVE RecordInv'
      <4>1. /\ pc'[w] = "resume" /\ job'[w] = j
            /\ \A u \in Workers \ {w} : pc'[u] = pc[u] /\ job'[u] = job[u]
        BY <1>0, <3>2, <3>5, LocalStep, GotoStep DEF PcValues, ResumeAt
      <4> HIDE DEF j
      <4> QED
        BY <1>0, <3>2, <3>3, <3>5, <4>1, QuietStep
    <3> QED
      BY <2>1, <3>4, <3>5 DEF ResumeStart
  <2>2. CASE ResumePerform(w)
    <3> DEFINE i == job[w].at
    <3>1. i \in Idx /\ i \in 1..(N + 1) /\ job[w].steps[i] = "agendado"
      BY <2>2, Indices DEF ResumePerform, RecordInv, Ready
    <3>2. NeedsApproval(i) => job[w].key \in approvals
      BY <1>0, <3>1 DEF Sound
    <3>3. pc'[w] = "resumed" /\ \A u \in Workers \ {w} : pc'[u] = pc[u]
      BY <1>0, <2>2, GotoStep DEF ResumePerform, PcValues, ResumeAt
    <3> QED
      BY <2>2, <3>1, <3>2, <3>3, PerformedSound DEF ResumePerform, Perform
  <2>3. CASE ResumeSave(w)
    BY <1>0, <1>1, <2>3, WriteRowSound DEF ResumeSave, PcValues
  <2> QED
    BY <1>6, <2>1, <2>2, <2>3 DEF Resume
<1>7. ASSUME NEW w \in Workers, Expire(w) PROVE RecordInv'
  <2> USE DEF row, env, hist
  <2>1. ASSUME NEW k \in Keys, ExpireRead(w, k) PROVE RecordInv'
    <3> DEFINE s == Recast(steps[k], "expirado")
               j == [JobFor(k) EXCEPT !.steps = s]
    <3>1. s \in Steps /\ Sound(k, s)
      BY <1>0, RecastType, RecastSound
    <3>2. j \in Jobs /\ j.key = k /\ j.steps = s
      <4> HIDE DEF s
      <4> QED
        BY <3>1, JobForFields, NewSteps
    <3>3. "expire" \in PcValues \ {"resume", "refresh", "approving"}
      BY DEF PcValues
    <3>4. Goto(w, "expire") /\ Local(w, j) /\ UNCHANGED <<effects, approvals, steps>>
      BY <2>1 DEF ExpireRead
    <3> HIDE DEF s, j
    <3> QED
      BY <1>0, <1>2, <3>1, <3>2, <3>3, <3>4
  <2>2. CASE ExpireSave(w)
    BY <1>0, <2>2, WriteRowSound, DoneSound DEF ExpireSave
  <2> QED
    BY <1>7, <2>1, <2>2 DEF Expire
<1>8. ASSUME NEW w \in Workers, NotifyOutcome(w) \/ Crash(w) PROVE RecordInv'
  BY <1>0, <1>8, DoneSound DEF NotifyOutcome, Crash, row, env, hist
<1>9. CASE OfficeHours \/ ContactChoice \/ SwitchRule \/ UNCHANGED vars
            \/ \E k \in Keys : GrowOld(k)
  BY <1>3, <1>9 DEF OfficeHours, ContactChoice, SwitchRule, vars, GrowOld, row, env, hist
<1> QED
  BY <1>4, <1>5, <1>6, <1>7, <1>8, <1>9 DEF Next

LEMMA RecordInit == Init => RecordInv
BY NoStepsSound DEF Init, RecordInv, Ready, NothingLeavesUnapproved, Blank

\* No reachable state has the effect of a step that needs a human on a run
\* nobody approved: the guarantee of require_approval.
THEOREM ApprovalRequired == Spec => []NothingLeavesUnapproved
<1>1. Init => TypeOK /\ ResumePoint /\ RecordInv
  BY TypeInit, RecordInit DEF Init, ResumePoint
<1>2. RecordInv => NothingLeavesUnapproved
  BY DEF RecordInv
<1> QED
  BY <1>1, <1>2, TypeStep, ResumePointStep, RecordStep, PTL DEF Spec

\* A step a run records as done took effect, in every reachable state.
THEOREM RecordIsTruthful == Spec => []DoneIsReal
<1>1. Init => TypeOK /\ ResumePoint /\ RecordInv
  BY TypeInit, RecordInit DEF Init, ResumePoint
<1>2. RecordInv => DoneIsReal
  BY DEF RecordInv, Sound, DoneIsReal
<1> QED
  BY <1>1, <1>2, TypeStep, ResumePointStep, RecordStep, PTL DEF Spec

(***************************************************************************)
(* Turns of the processes at one row, for any rule.  Whoever inserted a    *)
(* row is alone at it until it is saved; what waits in it waits for a      *)
(* reason; and a step still to come was not performed.                     *)
(***************************************************************************)
Unused(k, i) == effects[k][i] = 0 /\ timers[k][i] = 0

\* Nobody else is past the doors of a run that is being executed.
OneExecutor ==
    \A w \in Workers : pc[w] \in {"check", "perform"} =>
        /\ status[job[w].key] = "running" /\ steps[job[w].key] = NoSteps
        /\ \A u \in Workers \ {w} :
            job[u].key = job[w].key => pc[u] \in {"idle", "insert", "claim", "claimReject"}

\* A run that has no row has no past.
NotBegun ==
    \A k \in Keys : status[k] = "ausente" =>
        /\ steps[k] = NoSteps /\ \A i \in Idx : Unused(k, i)
        /\ \A w \in Workers : job[w].key = k => pc[w] \in {"idle", "insert"}

\* What the executor has before it, or has left to a human, was not performed.
StillToCome ==
    \A w \in Workers :
        /\ pc[w] \in {"insert", "check"} => job[w].at = 1
        /\ pc[w] \in {"check", "perform"} =>
            \A i \in Idx : i >= job[w].at \/ job[w].steps[i] = "aguardando" => Unused(job[w].key, i)

PendingWaits ==
    \A k \in Keys : status[k] = "pending_approval" => \E i \in Idx : steps[k][i] = "aguardando"

\* Only what needs a human waits for one, and only messages are put off.
OfItsKind(s) ==
    \A i \in Idx : (s[i] = "aguardando" => NeedsApproval(i)) /\ (s[i] = "agendado" => Kind[i] = "envio")
TheseWait == (\A k \in Keys : OfItsKind(steps[k])) /\ \A w \in Workers : OfItsKind(job[w].steps)

TurnInv == OneExecutor /\ NotBegun /\ StillToCome /\ PendingWaits /\ TheseWait /\ InternalOnce

\* What a step of one process at one row leaves alone.
Others(w) == \A u \in Workers \ {w} : pc'[u] = pc[u] /\ job'[u] = job[u]
OnlyRow(k) ==
    \A h \in Keys \ {k} :
        status'[h] = status[h] /\ steps'[h] = steps[h] /\ effects'[h] = effects[h] /\ timers'[h] = timers[h]

\* A step of a process that is at a row past the insert, and alone there but for those at the doors.
LEMMA TurnAtRow ==
    ASSUME TypeOK, TurnInv, NEW w \in Workers, NEW k \in Keys, Others(w), OnlyRow(k),
           pc'[w] \notin {"insert", "check", "perform"}, pc'[w] = "idle" \/ job'[w].key = k,
           \A u \in Workers \ {w} : job[u].key = k => pc[u] \notin {"check", "perform"},
           status'[k] # "ausente",
           status'[k] = "pending_approval" => \E i \in Idx : steps'[k][i] = "aguardando",
           OfItsKind(steps'[k]), OfItsKind(job'[w].steps),
           \A i \in Idx : Kind[i] \in Internal => effects'[k][i] <= 1
    PROVE  TurnInv'
<1>0. \A u \in Workers : job[u].key \in Keys
  BY DEF TypeOK, Jobs
<1>1. OneExecutor'
  BY <1>0 DEF TurnInv, OneExecutor, Others, OnlyRow
<1>2. NotBegun'
  BY <1>0 DEF TurnInv, NotBegun, Others, OnlyRow, Unused
<1>3. StillToCome'
  BY <1>0 DEF TurnInv, StillToCome, Others, OnlyRow, Unused
<1>4. PendingWaits'
  BY DEF TurnInv, PendingWaits, OnlyRow
<1>5. TheseWait'
  BY DEF TurnInv, TheseWait, Others, OnlyRow, OfItsKind
<1>6. InternalOnce'
  BY DEF TurnInv, InternalOnce, OnlyRow
<1> QED
  BY <1>1, <1>2, <1>3, <1>4, <1>5, <1>6 DEF TurnInv

\* A step of a process that touches no row and stays outside the doors; a timer may be taken.
LEMMA TurnOutside ==
    ASSUME TypeOK, TurnInv, NEW w \in Workers, Others(w), UNCHANGED <<status, steps, effects>>,
           \A k \in Keys, i \in Idx : timers'[k][i] \in Nat /\ timers'[k][i] <= timers[k][i],
           \/ pc'[w] = "idle" 
           \/ pc'[w] = "insert" /\ job'[w].at = 1
           \/ pc'[w] \in {"claim", "claimReject"} /\ status[job'[w].key] # "ausente"
           \/ pc'[w] = "notify" /\ pc[w] = "disable" /\ job'[w].key = job[w].key,
           OfItsKind(job'[w].steps)
    PROVE  TurnInv'
<1>0. \A u \in Workers : job[u].key \in Keys
  BY DEF TypeOK, Jobs
<1>1. OneExecutor'
  BY <1>0 DEF TurnInv, OneExecutor, Others
<1>a. \A k \in Keys, i \in Idx : Unused(k, i) => Unused(k, i)'
  BY DEF TypeOK, Unused
<1>2. NotBegun'
  BY <1>0, <1>a DEF TurnInv, NotBegun, Others
<1>3. StillToCome'
  BY <1>0, <1>a DEF TurnInv, StillToCome, Others
<1>4. PendingWaits'
  BY DEF TurnInv, PendingWaits
<1>5. TheseWait'
  BY DEF TurnInv, TheseWait, Others, OfItsKind
<1>6. InternalOnce'
  BY DEF TurnInv, InternalOnce
<1> QED
  BY <1>1, <1>2, <1>3, <1>4, <1>5, <1>6 DEF TurnInv

LEMMA MovedTo ==
    ASSUME TypeOK, NEW w \in Workers, NEW l \in PcValues, Goto(w, l), NEW j \in Jobs, Local(w, j)
    PROVE  Others(w) /\ pc'[w] = l /\ job'[w] = j
BY GotoStep, LocalStep DEF TypeOK, Others

LEMMA WentTo ==
    ASSUME TypeOK, NEW w \in Workers, NEW l \in PcValues, Goto(w, l), UNCHANGED job
    PROVE  Others(w) /\ pc'[w] = l /\ job'[w] = job[w]
BY GotoStep DEF TypeOK, Others

LEMMA GoneFrom ==
    ASSUME TypeOK, NEW w \in Workers, Done(w)
    PROVE  Others(w) /\ pc'[w] = "idle" /\ job'[w] = Blank /\ Blank.steps = NoSteps /\ Blank.held = {}
BY DoneStep DEF Others, Blank

LEMMA Written ==
    ASSUME TypeOK, NEW k \in Keys, NEW st, NEW s, WriteRow(k, st, s), UNCHANGED <<effects, timers>>
    PROVE  OnlyRow(k) /\ status'[k] = st /\ steps'[k] = s
BY DEF TypeOK, WriteRow, OnlyRow

LEMMA FinalStatusFacts ==
    ASSUME NEW s
    PROVE  /\ FinalStatus(s) \notin {"ausente", "running", "skipped"}
           /\ FinalStatus(s) = "pending_approval" <=> \E i \in Idx : s[i] = "aguardando"
<1>1. "aguardando" \in {s[i] : i \in {j \in Idx : s[j] # "pulado"}} <=> \E i \in Idx : s[i] = "aguardando"
  OBVIOUS
<1> QED
  BY <1>1 DEF FinalStatus

\* Performing step i of w's copy, variable by variable.
LEMMA PerformedFacts ==
    ASSUME TypeOK, NEW w \in Workers, NEW i \in Idx, NEW force \in BOOLEAN,
           NEW next \in 1..(N + 1), NEW o \in Outcomes(i, force), Performed(w, i, o, next)
    PROVE  /\ effects'[job[w].key][i] = effects[job[w].key][i] + o[2]
           /\ timers'[job[w].key][i] = timers[job[w].key][i] + (IF o[1] = "agendado" /\ ~job[w].web THEN 1 ELSE 0)
           /\ \A x \in Idx \ {i} : /\ effects'[job[w].key][x] = effects[job[w].key][x]
                                   /\ timers'[job[w].key][x] = timers[job[w].key][x]
           /\ \A h \in Keys \ {job[w].key} : effects'[h] = effects[h] /\ timers'[h] = timers[h]
           /\ job'[w].key = job[w].key /\ job'[w].at = next /\ job'[w].web = job[w].web
           /\ job'[w].held = job[w].held \cup (IF o[1] = "agendado" /\ job[w].web THEN {i} ELSE {})
           /\ job'[w].steps[i] = o[1]
           /\ \A x \in Idx \ {i} : job'[w].steps[x] = job[w].steps[x]
           /\ \A u \in Workers \ {w} : job'[u] = job[u]
<1> DEFINE k == job[w].key
<1>1. job[w] \in Jobs /\ k \in Keys /\ job[w].steps \in Steps /\ job[w].held \subseteq Idx /\ job[w].web \in BOOLEAN
  BY DEF TypeOK, Jobs
<1>2. /\ job'[w].key = k /\ job'[w].at = next /\ \A u \in Workers \ {w} : job'[u] = job[u]
      /\ job'[w].steps = [job[w].steps EXCEPT ![i] = o[1]]
      /\ effects' = [effects EXCEPT ![k][i] = effects[k][i] + o[2]]
  BY PerformedStep
<1>3. /\ effects'[k][i] = effects[k][i] + o[2] /\ \A x \in Idx \ {i} : effects'[k][x] = effects[k][x]
      /\ \A h \in Keys \ {k} : effects'[h] = effects[h]
  BY <1>1, <1>2 DEF TypeOK
<1>4. job'[w].steps[i] = o[1] /\ \A x \in Idx \ {i} : job'[w].steps[x] = job[w].steps[x]
  BY <1>1, <1>2 DEF Steps
<1>7. /\ timers'[k][i] = timers[k][i] + (IF o[1] = "agendado" /\ ~job[w].web THEN 1 ELSE 0)
      /\ \A x \in Idx \ {i} : timers'[k][x] = timers[k][x]
      /\ \A h \in Keys \ {k} : timers'[h] = timers[h]
  <2>1. CASE o[1] = "agendado" /\ ~job[w].web
    <3>1. timers' = [timers EXCEPT ![k][i] = timers[k][i] + 1]
      BY <2>1 DEF Performed
    <3> QED
      BY <1>1, <2>1, <3>1 DEF TypeOK
  <2>2. CASE ~(o[1] = "agendado" /\ ~job[w].web)
    <3>1. timers' = timers /\ timers[k][i] \in Nat
      BY <1>1, <2>2 DEF Performed, TypeOK
    <3> QED
      BY <2>2, <3>1
  <2> QED
    BY <2>1, <2>2
<1>8. job'[w].web = job[w].web /\ job'[w].held = job[w].held \cup (IF o[1] = "agendado" /\ job[w].web THEN {i} ELSE {})
  <2> DEFINE s == [job[w].steps EXCEPT ![i] = o[1]]
             held == job[w].held \cup (IF o[1] = "agendado" /\ job[w].web THEN {i} ELSE {})
             j == [job[w] EXCEPT !.steps = s, !.at = next, !.held = held]
  <2>1. job' = [job EXCEPT ![w] = j]
    BY DEF Performed, Local
  <2>2. j.web = job[w].web /\ j.held = held
    <3> HIDE DEF s, held
    <3> QED
      BY <1>1 DEF Jobs
  <2> HIDE DEF j
  <2> QED
    BY <2>1, <2>2 DEF TypeOK
<1> QED
  BY <1>2, <1>3, <1>4, <1>7, <1>8

\* Performing a step of w's run is at that run only.
LEMMA PerformedOnly ==
    ASSUME TypeOK, NEW w \in Workers, NEW i \in Idx, NEW force \in BOOLEAN, NEW next \in 1..(N + 1),
           Perform(w, i, force, next), UNCHANGED <<status, steps>>
    PROVE  OnlyRow(job[w].key) /\ job'[w].key = job[w].key /\ \A u \in Workers \ {w} : job'[u] = job[u]
<1>1. PICK o \in Outcomes(i, force) : Performed(w, i, o, next)
  BY DEF Perform
<1> QED
  BY <1>1, PerformedFacts DEF OnlyRow

\* The local variables of a process are of the rule, and those of a run just looked at are blank.
LEMMA JobFacts ==
    ASSUME TypeOK
    PROVE  /\ \A u \in Workers : /\ job[u] \in Jobs /\ job[u].key \in Keys /\ job[u].steps \in Steps
                                 /\ job[u].held \subseteq Idx /\ job[u].web \in BOOLEAN /\ job[u].at \in 1..(N + 1)
           /\ \A k \in Keys : /\ steps[k] \in Steps /\ status[k] \in RunStatus
                              /\ \A i \in Idx : effects[k][i] \in Nat /\ timers[k][i] \in Nat
BY DEF TypeOK, Jobs

LEMMA BlankFacts ==
    /\ OfItsKind(NoSteps) /\ Blank.held = {} /\ Blank.steps = NoSteps
    /\ \A k \in Keys : JobFor(k).held = {} /\ JobFor(k).web = FALSE
BY BlankType DEF OfItsKind, NoSteps, Blank, JobFor, Jobs

LEMMA RecastKind ==
    ASSUME NEW s \in Steps, OfItsKind(s), NEW to \in {"recusado", "expirado"}
    PROVE  /\ OfItsKind(Recast(s, to))
           /\ \A i \in Idx : /\ Recast(s, to)[i] # "aguardando"
                             /\ Recast(s, to)[i] = "agendado" => s[i] = "agendado"
BY DEF OfItsKind, Recast

LEMMA TurnExecute ==
    ASSUME TypeOK, TurnInv, NEW w \in Workers, Execute(w)
    PROVE  TurnInv'
<1> USE DEF env, row, hist
<1>0. /\ \A u \in Workers : /\ job[u] \in Jobs /\ job[u].key \in Keys /\ job[u].steps \in Steps
                            /\ job[u].at \in 1..(N + 1) /\ OfItsKind(job[u].steps)
      /\ \A k \in Keys : /\ steps[k] \in Steps /\ OfItsKind(steps[k])
                         /\ \A i \in Idx : effects[k][i] \in Nat /\ timers[k][i] \in Nat
      /\ N \in Nat
  BY JobFacts, StepsAssumption DEF TurnInv, TheseWait
\* While w executes a run it is alone at it.
<1>a. ASSUME pc[w] \in {"check", "perform"}
      PROVE  /\ status[job[w].key] = "running" /\ steps[job[w].key] = NoSteps
             /\ \A u \in Workers \ {w} : job[u].key = job[w].key => pc[u] \notin {"check", "perform"}
             /\ \A i \in Idx : Kind[i] \in Internal => effects[job[w].key][i] <= 1
  BY <1>0, <1>a DEF TurnInv, OneExecutor, InternalOnce
<1>1. ASSUME NEW k \in Keys, ExecuteStart(w, k) PROVE TurnInv'
  <2>1. CASE enabled
    <3>1. Others(w) /\ pc'[w] = "insert" /\ job'[w] = JobFor(k)
      BY <1>1, <2>1, JobForFields, MovedTo DEF ExecuteStart, PcValues, ExecuteAt
    <3> QED
      BY <1>0, <1>1, <3>1, JobForFields, BlankFacts, TurnOutside DEF ExecuteStart
  <2>2. CASE ~enabled
    <3>1. Others(w) /\ pc'[w] = "idle" /\ job'[w] = job[w]
      BY <1>1, <2>2 DEF ExecuteStart, Others
    <3> QED
      BY <1>0, <1>1, <3>1, TurnOutside DEF ExecuteStart
  <2> QED
    BY <2>1, <2>2
<1>2. CASE ExecuteInsert(w)
  <2> DEFINE k == job[w].key
  <2>1. CASE Fresh(k)
    <3>1. Others(w) /\ pc'[w] = "check" /\ job'[w] = job[w]
      BY <1>2, <2>1, WentTo DEF ExecuteInsert, PcValues, ExecuteAt
    <3>2. /\ status'[k] = "running" /\ \A h \in Keys \ {k} : status'[h] = status[h]
          /\ UNCHANGED <<steps, effects, timers>> /\ pc[w] = "insert" /\ status[k] = "ausente"
      BY <1>0, <1>2, <2>1 DEF ExecuteInsert, TypeOK, Fresh
    <3>3. /\ steps[k] = NoSteps /\ \A i \in Idx : Unused(k, i)
          /\ \A u \in Workers : job[u].key = k => pc[u] \in {"idle", "insert"}
      BY <1>0, <3>2 DEF TurnInv, NotBegun
    <3>4. OneExecutor'
      BY <1>0, <3>1, <3>2, <3>3 DEF TurnInv, OneExecutor, Others
    <3>5. NotBegun'
      BY <1>0, <3>1, <3>2, <3>3 DEF TurnInv, NotBegun, Others, Unused
    <3>6. StillToCome'
      BY <1>0, <3>1, <3>2, <3>3 DEF TurnInv, StillToCome, Others, Unused
    <3>7. PendingWaits' /\ TheseWait' /\ InternalOnce'
      BY <1>0, <3>1, <3>2, <3>3 DEF TurnInv, PendingWaits, TheseWait, InternalOnce, Others, OfItsKind
    <3> QED
      BY <3>4, <3>5, <3>6, <3>7 DEF TurnInv
  <2>2. CASE ~Fresh(k)
    <3>1. Others(w) /\ pc'[w] = "idle" /\ job'[w] = Blank
      BY <1>2, <2>2, GoneFrom DEF ExecuteInsert
    <3> QED
      BY <1>0, <1>2, <2>2, <3>1, BlankFacts, TurnOutside DEF ExecuteInsert
  <2> QED
    BY <2>1, <2>2
<1>3. CASE ExecuteOverLimit(w)
  <2> DEFINE s == [i \in Idx |-> "bloqueado"]
             j == [job[w] EXCEPT !.steps = s]
  <2>1. s \in Steps /\ OfItsKind(s)
    BY DEF Steps, StepStatus, OfItsKind
  <2>2. j \in Jobs /\ j.key = job[w].key /\ j.steps = s
    BY <1>0, <2>1, NewSteps
  <2> HIDE DEF j
  <2>3. Others(w) /\ pc'[w] = "disable" /\ job'[w] = j
    BY <1>3, <2>2, MovedTo DEF ExecuteOverLimit, j, PcValues, ExecuteAt
  <2>4. OnlyRow(job[w].key) /\ status'[job[w].key] = "failed" /\ steps'[job[w].key] = s /\ UNCHANGED effects
    BY <1>0, <1>3, Written DEF ExecuteOverLimit
  <2> QED
    BY <1>0, <1>3, <1>a, <2>1, <2>2, <2>3, <2>4, TurnAtRow DEF ExecuteOverLimit
<1>4. CASE ExecuteDisableRule(w)
  <2>1. Others(w) /\ pc'[w] = "notify" /\ job'[w] = job[w]
    BY <1>4, WentTo DEF ExecuteDisableRule, PcValues
  <2> QED
    BY <1>0, <1>4, <2>1, TurnOutside DEF ExecuteDisableRule
<1>5. CASE ExecuteSkip(w)
  <2>1. Others(w) /\ pc'[w] = "idle" /\ job'[w] = Blank
    BY <1>5, GoneFrom DEF ExecuteSkip
  <2>2. /\ OnlyRow(job[w].key) /\ status'[job[w].key] = "skipped" /\ steps'[job[w].key] = steps[job[w].key]
        /\ UNCHANGED effects
    BY <1>0, <1>5, Written DEF ExecuteSkip
  <2> QED
    BY <1>0, <1>5, <1>a, <2>1, <2>2, BlankFacts, TurnAtRow DEF ExecuteSkip
<1>6. CASE ExecutePlan(w)
  <2>1. PICK p \in Steps : /\ \A i \in Idx : p[i] \in Planned(i)
                           /\ Local(w, [job[w] EXCEPT !.steps = p])
    BY <1>6 DEF ExecutePlan
  <2>2. \A i \in Idx : p[i] # "agendado" /\ p[i] # "aguardando"
    BY <2>1 DEF Planned
  <2> DEFINE j == [job[w] EXCEPT !.steps = p]
  <2>3. j \in Jobs /\ j.key = job[w].key /\ j.steps = p /\ j.at = job[w].at
    BY <1>0, NewSteps
  <2>4. Others(w) /\ pc'[w] = "perform" /\ job'[w] = j
    BY <1>6, <2>1, <2>3, MovedTo DEF ExecutePlan, PcValues, ExecuteAt
  <2>5. pc[w] = "check" /\ UNCHANGED <<status, steps, effects, timers>>
    BY <1>6 DEF ExecutePlan
  <2> HIDE DEF j
  <2>6. OneExecutor'
    BY <1>0, <2>3, <2>4, <2>5 DEF TurnInv, OneExecutor, Others
  <2>7. NotBegun'
    BY <1>0, <1>a, <2>3, <2>4, <2>5 DEF TurnInv, NotBegun, Others, Unused
  <2>8. StillToCome'
    BY <1>0, <2>2, <2>3, <2>4, <2>5 DEF TurnInv, StillToCome, Others, Unused
  <2>9. PendingWaits' /\ TheseWait' /\ InternalOnce'
    BY <1>0, <2>2, <2>3, <2>4, <2>5 DEF TurnInv, PendingWaits, TheseWait, InternalOnce, Others, OfItsKind
  <2> QED
    BY <2>6, <2>7, <2>8, <2>9 DEF TurnInv
<1>7. CASE ExecuteStep(w)
  <2>0. PICK i \in Idx, k \in Keys : i = job[w].at /\ k = job[w].key
    BY <1>0, <1>7 DEF ExecuteStep
  <2>1. i + 1 \in 1..(N + 1) /\ pc[w] = "perform" /\ UNCHANGED <<pc, status, steps>> /\ i \in Nat
    BY <1>0, <1>7, Indices DEF ExecuteStep, Idx
  <2>2. Unused(k, i) /\ \A x \in Idx : x >= i + 1 \/ job[w].steps[x] = "aguardando" => Unused(k, x)
    <3>1. \A x \in Idx : x \in Nat
      BY DEF Idx
    <3> QED
      BY <1>0, <2>0, <2>1, <3>1 DEF TurnInv, StillToCome
  \* Only step i of the copy, and what happens of it, is new.
  <2>3. ASSUME Others(w), job'[w].key = k, job'[w].at = i + 1, \A h \in Keys \ {k} : effects'[h] = effects[h] /\ timers'[h] = timers[h],
               \A x \in Idx \ {i} : /\ job'[w].steps[x] = job[w].steps[x]
                                    /\ effects'[k][x] = effects[k][x] /\ timers'[k][x] = timers[k][x],
               effects'[k][i] <= 1,
               job'[w].steps[i] = "aguardando" => NeedsApproval(i) /\ Unused(k, i)',
               job'[w].steps[i] = "agendado" => Kind[i] = "envio"
        PROVE  TurnInv'
    <3>1. OneExecutor'
      BY <1>0, <2>0, <2>1, <2>3 DEF TurnInv, OneExecutor, Others
    <3>2. NotBegun'
      BY <1>0, <1>a, <2>0, <2>1, <2>3 DEF TurnInv, NotBegun, Others, Unused
    <3>3. ASSUME NEW u \in Workers
          PROVE  (/\ pc[u] \in {"insert", "check"} => job[u].at = 1
                  /\ pc[u] \in {"check", "perform"} =>
                       \A x \in Idx : x >= job[u].at \/ job[u].steps[x] = "aguardando" => Unused(job[u].key, x))'
      <4>1. CASE u = w
        <5>1. ASSUME NEW x \in Idx, x >= i + 1 \/ job'[w].steps[x] = "aguardando" PROVE Unused(k, x)'
          <6>1. CASE x = i
            BY <2>0, <2>1, <2>3, <5>1, <6>1
          <6>2. CASE x # i
            BY <2>0, <2>2, <2>3, <5>1, <6>2 DEF Unused
          <6> QED
            BY <6>1, <6>2
        <5> QED
          BY <2>0, <2>1, <2>3, <4>1, <5>1 DEF Unused
      <4>2. CASE u # w
        <5>1. pc'[u] \in {"check", "perform"} => job[u].key # k
          BY <1>a, <2>0, <2>1, <4>2
        <5> QED
          BY <1>0, <2>0, <2>1, <2>3, <4>2, <5>1 DEF TurnInv, StillToCome, Others, Unused
      <4> QED
        BY <4>1, <4>2
    <3>4. StillToCome'
      BY <3>3 DEF StillToCome
    <3>5. PendingWaits'
      BY <2>0, <2>1 DEF TurnInv, PendingWaits
    <3>6. TheseWait'
      BY <1>0, <2>0, <2>1, <2>3 DEF TurnInv, TheseWait, Others, OfItsKind
    <3>7. InternalOnce'
      BY <1>0, <2>0, <2>1, <2>3 DEF TurnInv, InternalOnce
    <3> QED
      BY <3>1, <3>2, <3>4, <3>5, <3>6, <3>7 DEF TurnInv
  <2>4. ASSUME NEW force \in BOOLEAN, Perform(w, i, force, i + 1) PROVE TurnInv'
    <3>1. PICK o \in Outcomes(i, force) : Performed(w, i, o, i + 1)
      BY <2>0, <2>4 DEF Perform
    <3>2. o[1] # "aguardando" /\ o[2] \in {0, 1} /\ (o[1] = "agendado" => Kind[i] = "envio")
      BY <2>0, <2>1, <3>1, OutcomesType
    <3>3. effects[k][i] = 0
      BY <2>0, <2>2 DEF Unused
    <3>4. /\ effects'[k][i] = effects[k][i] + o[2] /\ job'[w].key = k /\ job'[w].at = i + 1 /\ job'[w].steps[i] = o[1]
          /\ \A x \in Idx \ {i} : /\ job'[w].steps[x] = job[w].steps[x]
                                 /\ effects'[k][x] = effects[k][x] /\ timers'[k][x] = timers[k][x]
          /\ \A h \in Keys \ {k} : effects'[h] = effects[h] /\ timers'[h] = timers[h]
          /\ \A u \in Workers \ {w} : job'[u] = job[u]
      BY <2>0, <2>1, <3>1, PerformedFacts
    <3>5. effects'[k][i] <= 1 /\ Others(w)
      BY <2>1, <3>2, <3>3, <3>4 DEF Others
    <3> QED
      BY <2>3, <3>2, <3>4, <3>5
  <2>5. ASSUME NEW st \in StepStatus, UNCHANGED <<effects, timers>>,
               Local(w, [job[w] EXCEPT !.steps = [job[w].steps EXCEPT ![i] = st], !.at = i + 1]),
               st = job[w].steps[i] \/ (st = "aguardando" /\ NeedsApproval(i))
        PROVE  TurnInv'
    <3> DEFINE s == [job[w].steps EXCEPT ![i] = st]
               j == [job[w] EXCEPT !.steps = s, !.at = i + 1]
    <3>1. s \in Steps /\ s[i] = st /\ \A x \in Idx \ {i} : s[x] = job[w].steps[x]
      BY <1>0, <2>0, <2>1 DEF Steps
    <3>2. j \in Jobs /\ j.key = k /\ j.steps = s /\ j.at = i + 1
      <4> HIDE DEF s
      <4> QED
        BY <1>0, <2>0, <2>1, <3>1 DEF Jobs
    <3> HIDE DEF s
    <3>3. job'[w] = j /\ Others(w)
      BY <2>0, <2>1, <2>5, <3>2, LocalStep DEF TypeOK, Others, s
    <3> HIDE DEF j
    <3>4. st = "aguardando" => NeedsApproval(i)
      BY <1>0, <2>0, <2>1, <2>5 DEF OfItsKind
    <3>5. st = "agendado" => Kind[i] = "envio"
      BY <1>0, <2>0, <2>1, <2>5 DEF OfItsKind
    <3>6. effects[k][i] = 0 /\ Unused(k, i)'
      BY <2>0, <2>2, <2>5 DEF Unused
    <3> QED
      BY <2>0, <2>3, <2>5, <3>1, <3>2, <3>3, <3>4, <3>5, <3>6
  <2>6. job[w].steps[i] \in StepStatus /\ "aguardando" \in StepStatus
    BY <1>0, <2>0, <2>1 DEF Steps, StepStatus
  <2> QED
    BY <1>7, <2>0, <2>4, <2>5, <2>6 DEF ExecuteStep, Waits
<1>8. CASE ExecuteSave(w)
  <2>1. Others(w) /\ pc'[w] = "notify" /\ job'[w] = job[w]
    BY <1>8, WentTo DEF ExecuteSave, PcValues
  <2>2. /\ OnlyRow(job[w].key) /\ status'[job[w].key] = FinalStatus(job[w].steps)
        /\ steps'[job[w].key] = job[w].steps /\ UNCHANGED effects
    BY <1>0, <1>8, Written DEF ExecuteSave
  <2> QED
    BY <1>0, <1>8, <1>a, <2>1, <2>2, FinalStatusFacts, TurnAtRow DEF ExecuteSave
<1> QED
  BY <1>1, <1>2, <1>3, <1>4, <1>5, <1>6, <1>7, <1>8 DEF Execute

\* Nobody executes a run at which another is past the doors, or whose row says something.
LEMMA NobodyExecutes ==
    ASSUME TypeOK, TurnInv, NEW k \in Keys,
           \/ status[k] = "pending_approval" 
           \/ \E i \in Idx : steps[k][i] = "agendado"
           \/ \E w \in Workers : job[w].key = k /\ pc[w] \notin {"idle", "insert", "claim", "claimReject", "check", "perform"}
    PROVE  /\ status[k] # "ausente"
           /\ \A u \in Workers : job[u].key = k => pc[u] \notin {"check", "perform"}
BY DEF TurnInv, OneExecutor, NotBegun, NoSteps

LEMMA TurnDecision ==
    ASSUME TypeOK, TurnInv, NEW w \in Workers, Decision(w)
    PROVE  TurnInv'
<1> USE DEF env, row, hist
<1>0. /\ \A u \in Workers : /\ job[u] \in Jobs /\ job[u].key \in Keys /\ job[u].steps \in Steps
                            /\ job[u].at \in 1..(N + 1) /\ OfItsKind(job[u].steps)
      /\ \A k \in Keys : /\ steps[k] \in Steps /\ OfItsKind(steps[k])
                         /\ \A i \in Idx : effects[k][i] \in Nat /\ timers[k][i] \in Nat
                         /\ \A i \in Idx : Kind[i] \in Internal => effects[k][i] <= 1
      /\ N \in Nat
  BY JobFacts, StepsAssumption DEF TurnInv, TheseWait, InternalOnce
<1>p. \A k \in Keys : status[k] = "pending_approval" => \E i \in Idx : steps[k][i] = "aguardando"
  BY DEF TurnInv, PendingWaits
<1>1. ASSUME NEW k \in Keys, NEW web \in BOOLEAN, NEW approving \in BOOLEAN,
             DecideStart(w, k, web, approving) PROVE TurnInv'
  <2> DEFINE j == [JobFor(k) EXCEPT !.web = web]
  <2>1. j \in Jobs /\ j.key = k /\ j.steps = NoSteps
    BY JobForFields, NewWeb
  <2> HIDE DEF j
  <2>2. Others(w) /\ pc'[w] \in {"claim", "claimReject"} /\ job'[w] = j
    BY <1>1, <2>1, MovedTo DEF DecideStart, j, PcValues, DecideAt
  <2> QED
    BY <1>0, <1>1, <2>1, <2>2, BlankFacts, TurnOutside DEF DecideStart
<1>2. CASE Claim(w)
  <2>0. PICK k \in Keys : k = job[w].key
    BY <1>0
  <2>1. UNCHANGED <<steps, effects, timers>>
    BY <1>2 DEF Claim
  <2>2. CASE Claimable(k)
    <3>1. status[k] = "pending_approval" /\ status[k] # "ausente" /\ \A u \in Workers : job[u].key = k => pc[u] \notin {"check", "perform"}
      BY <2>2, NobodyExecutes DEF Claimable
    <3>2. Others(w) /\ pc'[w] \in {"refresh", "rejecting"} /\ job'[w] = job[w]
      <4>1. CASE pc[w] = "claim"
        BY <1>2, <2>0, <2>2, <4>1, WentTo DEF Claim, PcValues, DecideAt
      <4>2. CASE pc[w] = "claimReject"
        BY <1>2, <2>0, <2>2, <4>2, WentTo DEF Claim, PcValues, DecideAt
      <4> QED
        BY <1>2, <4>1, <4>2 DEF Claim
    <3>3. OnlyRow(k) /\ status'[k] \in {"pending_approval", "running"}
      BY <1>2, <2>0, <2>1, <2>2, <3>1 DEF Claim, OnlyRow, TypeOK
    <3> QED
      BY <1>0, <1>p, <2>0, <2>1, <3>1, <3>2, <3>3, TurnAtRow
  <2>3. CASE ~Claimable(k)
    <3>1. Others(w) /\ pc'[w] = "idle" /\ job'[w] = Blank /\ UNCHANGED status
      BY <1>2, <2>0, <2>3, GoneFrom DEF Claim
    <3> QED
      BY <1>0, <2>1, <3>1, BlankFacts, TurnOutside
  <2> QED
    BY <2>2, <2>3
<1>a. ASSUME pc[w] \in {"refresh", "approving", "rejecting"}
      PROVE  status[job[w].key] # "ausente" /\ \A u \in Workers : job[u].key = job[w].key => pc[u] \notin {"check", "perform"}
  BY <1>0, <1>a, NobodyExecutes
\* The process keeps to its row, and to steps that wait for a reason; nothing happens.
<1>b. ASSUME pc[w] \in {"refresh", "approving", "rejecting"}, NEW j \in Jobs, j.key = job[w].key, OfItsKind(j.steps),
             Others(w), job'[w] = j, pc'[w] \in {"approving", "rejecting"}, UNCHANGED <<status, steps, effects, timers>>
      PROVE  TurnInv'
  <2>1. OnlyRow(job[w].key)
    BY <1>b DEF OnlyRow
  <2> QED
    BY <1>0, <1>p, <1>a, <1>b, <2>1, TurnAtRow
<1>3. CASE Refresh(w)
  <2> DEFINE j == [job[w] EXCEPT !.steps = steps[job[w].key]]
  <2>1. j \in Jobs /\ j.key = job[w].key /\ j.steps = steps[job[w].key]
    BY <1>0, NewSteps
  <2> HIDE DEF j
  <2>2. Others(w) /\ pc'[w] = "approving" /\ job'[w] = j
    BY <1>3, <2>1, MovedTo DEF Refresh, j, PcValues, DecideAt
  <2> QED
    BY <1>0, <1>3, <1>b, <2>1, <2>2 DEF Refresh
<1>4. CASE ApproveStep(w)
  <2>0. PICK i \in Idx, k \in Keys : i = job[w].at /\ k = job[w].key
    BY <1>0, <1>4 DEF ApproveStep
  <2>1. i + 1 \in 1..(N + 1) /\ pc[w] = "approving" /\ UNCHANGED <<pc, status, steps>>
    BY <1>0, <1>4, <2>0, Indices DEF ApproveStep
  <2>2. ASSUME NEW force \in BOOLEAN, Perform(w, i, force, i + 1), job[w].steps[i] = "aguardando" PROVE TurnInv'
    <3>1. PICK o \in Outcomes(i, force) : Performed(w, i, o, i + 1)
      BY <2>0, <2>2 DEF Perform
    <3>2. o[1] # "aguardando" /\ (o[1] = "agendado" => Kind[i] = "envio")
      BY <2>0, <2>1, <3>1, OutcomesType
    <3>3. Kind[i] \notin Internal
      BY <1>0, <2>2 DEF OfItsKind, NeedsApproval, External, Internal
    <3>4. /\ job'[w].key = k /\ job'[w].steps[i] = o[1]
          /\ \A x \in Idx \ {i} : job'[w].steps[x] = job[w].steps[x] /\ effects'[k][x] = effects[k][x]
          /\ \A h \in Keys \ {k} : effects'[h] = effects[h] /\ timers'[h] = timers[h]
          /\ \A u \in Workers \ {w} : job'[u] = job[u]
      BY <2>0, <2>1, <3>1, PerformedFacts
    <3>5. OnlyRow(k) /\ Others(w) /\ pc'[w] = "approving"
      BY <2>1, <3>4 DEF OnlyRow, Others
    <3>6. OfItsKind(job'[w].steps)
      BY <1>0, <3>2, <3>4 DEF OfItsKind
    <3>7. \A x \in Idx : Kind[x] \in Internal => effects'[k][x] <= 1
      BY <1>0, <3>3, <3>4
    <3> QED
      BY <1>0, <1>p, <1>a, <2>0, <2>1, <3>4, <3>5, <3>6, <3>7, TurnAtRow
  <2>3. ASSUME Local(w, [job[w] EXCEPT !.at = i + 1]), UNCHANGED <<effects, timers>> PROVE TurnInv'
    <3> DEFINE j == [job[w] EXCEPT !.at = i + 1]
    <3>1. j \in Jobs /\ j.key = job[w].key /\ j.steps = job[w].steps
      BY <1>0, <2>1, NewAt
    <3> HIDE DEF j
    <3>2. Others(w) /\ job'[w] = j
      BY <2>1, <2>3, <3>1, LocalStep DEF j, TypeOK, Others
    <3> QED
      BY <1>0, <1>b, <2>1, <2>3, <3>1, <3>2
  <2> QED
    BY <1>4, <2>0, <2>2, <2>3 DEF ApproveStep
<1>5. ASSUME pc[w] \in {"approving", "rejecting"}, NEW st, NEW s, OfItsKind(s), st # "ausente",
             st = "pending_approval" => \E i \in Idx : s[i] = "aguardando", Decide(w, st, s) PROVE TurnInv'
  <2>0. PICK k \in Keys : k = job[w].key
    BY <1>0
  <2>1. Others(w) /\ pc'[w] = "idle" /\ job'[w] = Blank
    BY <1>5, GoneFrom DEF Decide
  <2>2. OnlyRow(k) /\ status'[k] = st /\ steps'[k] = s /\ UNCHANGED effects
    BY <1>5, <2>0 DEF Decide, OnlyRow, TypeOK
  <2> QED
    BY <1>0, <1>a, <1>5, <2>0, <2>1, <2>2, BlankFacts, TurnAtRow
<1>6. CASE ApproveSave(w)
  BY <1>0, <1>5, <1>6, FinalStatusFacts DEF ApproveSave
<1>7. CASE RejectRefresh(w)
  <2> DEFINE s == Recast(steps[job[w].key], "recusado")
             j == [job[w] EXCEPT !.steps = s, !.at = N + 1]
  <2>1. s \in Steps /\ OfItsKind(s)
    BY <1>0, RecastType, RecastKind
  <2>2. j \in Jobs /\ j.key = job[w].key /\ j.steps = s
    <3> HIDE DEF s
    <3> QED
      BY <1>0, <2>1, Indices DEF Jobs
  <2>3. Local(w, j) /\ pc[w] = "rejecting" /\ UNCHANGED <<pc, status, steps, effects, timers>>
    BY <1>7 DEF RejectRefresh
  <2> HIDE DEF s, j
  <2>4. job'[w] = j /\ Others(w)
    BY <2>2, <2>3, LocalStep DEF TypeOK, Others
  <2> QED
    BY <1>b, <2>1, <2>2, <2>3, <2>4
<1>8. CASE RejectSave(w)
  BY <1>0, <1>5, <1>8 DEF RejectSave
<1> QED
  BY <1>1, <1>2, <1>3, <1>4, <1>6, <1>7, <1>8 DEF Decision

LEMMA TurnRest ==
    ASSUME TypeOK, ResumePoint, RecordInv, TurnInv, NEW w \in Workers,
           Resume(w) \/ Expire(w) \/ NotifyOutcome(w) \/ Crash(w)
    PROVE  TurnInv'
<1> USE DEF env, row, hist
<1>0. /\ \A u \in Workers : /\ job[u] \in Jobs /\ job[u].key \in Keys /\ job[u].steps \in Steps
                            /\ job[u].at \in 1..(N + 1) /\ OfItsKind(job[u].steps)
      /\ \A k \in Keys : /\ steps[k] \in Steps /\ OfItsKind(steps[k])
                         /\ \A i \in Idx : effects[k][i] \in Nat /\ timers[k][i] \in Nat
                         /\ \A i \in Idx : Kind[i] \in Internal => effects[k][i] <= 1
      /\ N \in Nat
  BY JobFacts, StepsAssumption DEF TurnInv, TheseWait, InternalOnce
<1>p. \A k \in Keys : status[k] = "pending_approval" => \E i \in Idx : steps[k][i] = "aguardando"
  BY DEF TurnInv, PendingWaits
<1>a. ASSUME pc[w] \in {"resume", "resumed", "expire"}
      PROVE  status[job[w].key] # "ausente" /\ \A u \in Workers : job[u].key = job[w].key => pc[u] \notin {"check", "perform"}
  BY <1>0, <1>a, NobodyExecutes
<1>1. ASSUME NEW k \in Keys, NEW i \in Idx, ResumeStart(w, k, i) PROVE TurnInv'
  <2> DEFINE j == [JobFor(k) EXCEPT !.steps = steps[k], !.at = i]
  <2>1. j \in Jobs /\ j.key = k /\ j.steps = steps[k]
    <3>1. steps[k] \in Steps /\ i \in 1..(N + 1) /\ JobFor(k) \in Jobs /\ JobFor(k).key = k
      BY <1>0, JobForFields, Indices
    <3> QED
      BY <3>1 DEF Jobs
  <2>2. /\ UNCHANGED <<status, steps, effects>> /\ pc[w] = "idle"
        /\ \A h \in Keys : h # k => timers'[h] = timers[h]
        /\ \A h \in Keys, x \in Idx : timers'[h][x] \in Nat /\ timers'[h][x] <= timers[h][x]
    <3>1. timers' = [timers EXCEPT ![k][i] = timers[k][i] - 1] /\ timers[k][i] > 0
      BY <1>1 DEF ResumeStart, Due
    <3>2. timers \in [Keys -> [Idx -> Nat]]
      BY DEF TypeOK
    <3>3. \A h \in Keys : h # k => timers'[h] = timers[h]
      BY <3>1, <3>2
    <3>4. \A x \in Idx : timers'[k][x] \in Nat /\ timers'[k][x] <= timers[k][x]
      BY <3>1, <3>2
    <3>5. \A h \in Keys, x \in Idx : timers'[h][x] \in Nat /\ timers'[h][x] <= timers[h][x]
      BY <1>0, <3>3, <3>4
    <3> QED
      BY <1>1, <3>3, <3>5 DEF ResumeStart
  <2> HIDE DEF j
  <2>3. ASSUME UNCHANGED <<pc, job>> PROVE TurnInv'
    BY <1>0, <2>2, <2>3, TurnOutside DEF Others
  <2>4. ASSUME Goto(w, "resume"), Local(w, j), steps[k][i] = "agendado" PROVE TurnInv'
    <3>1. Others(w) /\ pc'[w] = "resume" /\ job'[w] = j
      BY <2>1, <2>4, MovedTo DEF PcValues, ResumeAt
    <3>2. OnlyRow(k)
      BY <2>2 DEF OnlyRow
    <3>3. status[k] # "ausente" /\ \A u \in Workers : job[u].key = k => pc[u] \notin {"check", "perform"}
      BY <2>4, NobodyExecutes
    <3> QED
      BY <1>0, <1>p, <2>1, <2>2, <3>1, <3>2, <3>3, TurnAtRow
  <2> QED
    BY <1>1, <2>3, <2>4 DEF ResumeStart, j
<1>2. CASE ResumePerform(w)
  <2>0. PICK i \in Idx, k \in Keys : i = job[w].at /\ k = job[w].key
    BY <1>0, <1>2 DEF ResumePerform, ResumePoint
  <2>1. i \in 1..(N + 1) /\ pc[w] = "resume" /\ UNCHANGED <<status, steps>> /\ job[w].steps[i] = "agendado"
    BY <1>0, <1>2, <2>0, Indices DEF ResumePerform, RecordInv, Ready
  <2>2. ASSUME NEW force \in BOOLEAN, Perform(w, i, force, i) PROVE TurnInv'
    <3>1. PICK o \in Outcomes(i, force) : Performed(w, i, o, i)
      BY <2>0, <2>2 DEF Perform
    <3>2. o[1] # "aguardando" /\ (o[1] = "agendado" => Kind[i] = "envio")
      BY <2>0, <2>1, <3>1, OutcomesType
    <3>3. Kind[i] \notin Internal
      BY <1>0, <2>1 DEF OfItsKind, Internal
    <3>4. /\ job'[w].key = k /\ job'[w].steps[i] = o[1]
          /\ \A x \in Idx \ {i} : job'[w].steps[x] = job[w].steps[x] /\ effects'[k][x] = effects[k][x]
          /\ \A h \in Keys \ {k} : effects'[h] = effects[h] /\ timers'[h] = timers[h]
          /\ \A u \in Workers \ {w} : job'[u] = job[u]
      BY <2>0, <2>1, <3>1, PerformedFacts
    <3>5. pc'[w] = "resumed" /\ \A u \in Workers \ {w} : pc'[u] = pc[u]
      BY <1>2, GotoStep DEF ResumePerform, PcValues, ResumeAt, TypeOK
    <3>6. OnlyRow(k) /\ Others(w)
      BY <2>1, <3>4, <3>5 DEF OnlyRow, Others
    <3>7. OfItsKind(job'[w].steps)
      BY <1>0, <3>2, <3>4 DEF OfItsKind
    <3>8. \A x \in Idx : Kind[x] \in Internal => effects'[k][x] <= 1
      BY <1>0, <3>3, <3>4
    <3> QED
      BY <1>0, <1>p, <1>a, <2>0, <2>1, <3>4, <3>5, <3>6, <3>7, <3>8, TurnAtRow
  <2> QED
    BY <1>2, <2>0, <2>2 DEF ResumePerform
<1>3. CASE ResumeSave(w)
  <2>1. Others(w) /\ pc'[w] = "notify" /\ job'[w] = job[w]
    BY <1>3, WentTo DEF ResumeSave, PcValues
  <2>2. /\ OnlyRow(job[w].key) /\ status'[job[w].key] = FinalStatus(job[w].steps)
        /\ steps'[job[w].key] = job[w].steps /\ UNCHANGED effects
    BY <1>0, <1>3, Written DEF ResumeSave
  <2> QED
    BY <1>0, <1>3, <1>a, <2>1, <2>2, FinalStatusFacts, TurnAtRow DEF ResumeSave
<1>4. ASSUME NEW k \in Keys, ExpireRead(w, k) PROVE TurnInv'
  <2> DEFINE s == Recast(steps[k], "expirado")
             j == [JobFor(k) EXCEPT !.steps = s]
  <2>1. s \in Steps /\ OfItsKind(s)
    BY <1>0, RecastType, RecastKind
  <2>2. j \in Jobs /\ j.key = k /\ j.steps = s
    <3> HIDE DEF s
    <3> QED
      BY <2>1, JobForFields, NewSteps
  <2>3. Goto(w, "expire") /\ Local(w, j) /\ status[k] = "pending_approval" /\ UNCHANGED <<status, steps, effects, timers>>
    BY <1>4 DEF ExpireRead
  <2> HIDE DEF s, j
  <2>4. Others(w) /\ pc'[w] = "expire" /\ job'[w] = j
    BY <2>2, <2>3, MovedTo DEF PcValues
  <2>5. OnlyRow(k)
    BY <2>3 DEF OnlyRow
  <2> QED
    BY <1>0, <1>p, <2>1, <2>2, <2>3, <2>4, <2>5, NobodyExecutes, TurnAtRow
<1>5. CASE ExpireSave(w)
  <2>1. Others(w) /\ pc'[w] = "idle" /\ job'[w] = Blank
    BY <1>5, GoneFrom DEF ExpireSave
  <2>2. /\ OnlyRow(job[w].key) /\ status'[job[w].key] = "expired" /\ steps'[job[w].key] = job[w].steps
        /\ UNCHANGED effects
    BY <1>0, <1>5, Written DEF ExpireSave
  <2> QED
    BY <1>0, <1>5, <1>a, <2>1, <2>2, BlankFacts, TurnAtRow DEF ExpireSave
<1>6. CASE NotifyOutcome(w)
  <2>1. Others(w) /\ pc'[w] = "idle" /\ job'[w] = Blank
    BY <1>6, GoneFrom DEF NotifyOutcome
  <2> QED
    BY <1>0, <1>6, <2>1, BlankFacts, TurnOutside DEF NotifyOutcome
<1>7. CASE Crash(w)
  <2>0. PICK k \in Keys : k = job[w].key
    BY <1>0
  <2>1. Others(w) /\ pc'[w] = "idle" /\ job'[w] = Blank /\ UNCHANGED <<status, steps, effects>>
    BY <1>7, GoneFrom DEF Crash
  <2>2. CASE UNCHANGED timers
    BY <1>0, <2>1, <2>2, BlankFacts, TurnOutside
  <2>3. CASE pc[w] \in ResumeAt /\ timers' = [timers EXCEPT ![k][job[w].at] = @ + 1]
    <3>1. OnlyRow(k)
      BY <2>1, <2>3 DEF OnlyRow, TypeOK
    <3> QED
      BY <1>0, <1>p, <1>a, <2>0, <2>1, <2>3, <3>1, BlankFacts, TurnAtRow DEF ResumeAt
  <2> QED
    BY <1>7, <2>0, <2>2, <2>3 DEF Crash
<1> QED
  BY <1>1, <1>2, <1>3, <1>4, <1>5, <1>6, <1>7 DEF Resume, Expire

LEMMA TurnStep == TypeOK /\ ResumePoint /\ RecordInv /\ TurnInv /\ [Next]_vars => TurnInv'
<1> SUFFICES ASSUME TypeOK, ResumePoint, RecordInv, TurnInv, [Next]_vars PROVE TurnInv'
  OBVIOUS
<1>1. ASSUME UNCHANGED <<status, steps, effects, timers, pc, job>> PROVE TurnInv'
  BY <1>1 DEF TurnInv, OneExecutor, NotBegun, StillToCome, PendingWaits, TheseWait, OfItsKind, InternalOnce, Unused
<1>2. ASSUME OfficeHours \/ ContactChoice \/ SwitchRule \/ UNCHANGED vars \/ \E k \in Keys : GrowOld(k) PROVE TurnInv'
  BY <1>1, <1>2 DEF OfficeHours, ContactChoice, SwitchRule, vars, GrowOld, row, env, hist
<1> QED
  BY <1>2, TurnExecute, TurnDecision, TurnRest DEF Next

LEMMA TurnInit == Init => TurnInv
<1> SUFFICES ASSUME Init PROVE TurnInv
  OBVIOUS
<1>1. OfItsKind(NoSteps) /\ Blank.steps = NoSteps
  BY BlankFacts
<1> QED
  BY <1>1 DEF Init, TurnInv, OneExecutor, NotBegun, StillToCome, PendingWaits, TheseWait, InternalOnce, Unused

\* An internal step happens once at most, however often its event is delivered and whoever dies.
THEOREM InternalStepsOnce == Spec => []InternalOnce
<1>1. Init => TypeOK /\ ResumePoint /\ RecordInv /\ TurnInv
  BY TypeInit, RecordInit, TurnInit DEF Init, ResumePoint
<1>2. TurnInv => InternalOnce
  BY DEF TurnInv
<1> QED
  BY <1>1, <1>2, TypeStep, ResumePointStep, RecordStep, TurnStep, PTL DEF Spec

(***************************************************************************)
(* The daily limit.  A run passes the limit when its steps are planned;    *)
(* from then on it may act.  Everyone who looks at the count has inserted  *)
(* its own run first, so whoever passes sees all that passed before.       *)
(***************************************************************************)
Acting == {"perform", "refresh", "approving", "rejecting", "resume", "resumed", "expire"}

\* Something of the run happened, waits, or is in the hands of a process.
Passed(k) ==
    \/ \E i \in Idx : effects[k][i] > 0 \/ steps[k][i] \in {"aguardando", "agendado"}
    \/ \E w \in Workers : job[w].key = k /\ pc[w] \in Acting
PassedRuns == {k \in Keys : age[k] = 0 /\ Passed(k)}
Inserted == {k \in Keys : status[k] # "ausente"}

LimitInv ==
    /\ IsFiniteSet(Inserted)
    /\ \A k \in Keys : Passed(k) => status[k] \notin {"ausente", "skipped"}
    /\ Cardinality(PassedRuns) <= DailyLimit

\* No run passes in a step after which each that has passed had passed.
LEMMA LimitKept ==
    ASSUME LimitInv, IsFiniteSet(Inserted'),
           \A k \in Keys : Passed(k)' => Passed(k) /\ status'[k] \notin {"ausente", "skipped"},
           \A k \in Keys : age'[k] = 0 => age[k] = 0
    PROVE  LimitInv'
<1>1. PassedRuns' \subseteq PassedRuns
  BY DEF PassedRuns
<1>2. PassedRuns \subseteq Inserted
  BY DEF PassedRuns, Inserted, LimitInv
<1>3. IsFiniteSet(PassedRuns)
  BY <1>2, FS_Subset DEF LimitInv
<1>4. IsFiniteSet(PassedRuns') /\ Cardinality(PassedRuns') <= Cardinality(PassedRuns)
  BY <1>1, <1>3, FS_Subset
<1>5. Cardinality(PassedRuns) \in Nat /\ Cardinality(PassedRuns') \in Nat /\ DailyLimit \in Nat
  BY <1>3, <1>4, FS_CardinalityType, RuleAssumption
<1>6. Cardinality(PassedRuns)' <= DailyLimit
  BY <1>4, <1>5 DEF LimitInv
<1> QED
  BY <1>6 DEF LimitInv

\* A step of a process at a row that has passed, or that does not go past the limit.
LEMMA LimitAtRow ==
    ASSUME TypeOK, LimitInv, NEW w \in Workers, NEW k \in Keys, Others(w), OnlyRow(k), UNCHANGED age,
           status[k] # "ausente",
           \/ Passed(k) /\ status'[k] \notin {"ausente", "skipped"}
           \/ ~Passed(k)',
           pc'[w] \in Acting => job'[w].key = k
    PROVE  LimitInv'
<1>1. Inserted' \subseteq Inserted
  BY DEF Inserted, OnlyRow
<1>2. IsFiniteSet(Inserted')
  BY <1>1, FS_Subset DEF LimitInv
<1>3. ASSUME NEW h \in Keys, h # k, Passed(h)' PROVE Passed(h) /\ status'[h] \notin {"ausente", "skipped"}
  <2>1. \A u \in Workers : job'[u].key = h /\ pc'[u] \in Acting => job[u].key = h /\ pc[u] \in Acting
    BY <1>3 DEF Others
  <2>2. Passed(h)
    BY <1>3, <2>1 DEF Passed, OnlyRow
  <2> QED
    BY <1>3, <2>2 DEF LimitInv, OnlyRow
<1> QED
  BY <1>2, <1>3, LimitKept

LEMMA LimitOutside ==
    ASSUME TypeOK, LimitInv, NEW w \in Workers, Others(w), UNCHANGED <<status, steps, effects, age>>,
           pc'[w] \notin Acting
    PROVE  LimitInv'
<1>1. Inserted' = Inserted
  BY DEF Inserted
<1>2. ASSUME NEW h \in Keys, Passed(h)' PROVE Passed(h)
  BY <1>2 DEF Passed, Others
<1> QED
  BY <1>1, <1>2, LimitKept DEF LimitInv

(***************************************************************************)
(* What each step does, said of the process and of the row it is at.       *)
(***************************************************************************)
still == <<lock, age, crashes>>

LEMMA StartFacts ==
    ASSUME TypeOK, NEW w \in Workers, NEW k \in Keys, ExecuteStart(w, k)
    PROVE  /\ UNCHANGED <<status, steps, effects, timers, still>> /\ Others(w) /\ pc[w] = "idle"
           /\ \/ pc'[w] = "insert" /\ job'[w] = JobFor(k)
              \/ pc'[w] = "idle" /\ job'[w] = job[w]
<1>1. UNCHANGED <<status, steps, effects, timers, still>> /\ pc[w] = "idle"
  BY DEF ExecuteStart, row, hist, still
<1>2. CASE enabled
  <2>1. Others(w) /\ pc'[w] = "insert" /\ job'[w] = JobFor(k)
    BY <1>2, JobForFields, MovedTo DEF ExecuteStart, PcValues, ExecuteAt
  <2> QED
    BY <1>1, <2>1
<1>3. CASE ~enabled
  BY <1>1, <1>3 DEF ExecuteStart, Others
<1> QED
  BY <1>2, <1>3

LEMMA InsertFacts ==
    ASSUME TypeOK, NEW w \in Workers, ExecuteInsert(w)
    PROVE  /\ pc[w] = "insert" /\ UNCHANGED <<steps, effects, timers, still>> /\ Others(w)
           /\ \/ /\ status[job[w].key] = "ausente" /\ status'[job[w].key] = "running" /\ OnlyRow(job[w].key)
                 /\ pc'[w] = "check" /\ job'[w] = job[w]
              \/ UNCHANGED status /\ pc'[w] = "idle" /\ job'[w] = Blank
<1> DEFINE k == job[w].key
<1>0. k \in Keys
  BY JobFacts
<1>1. pc[w] = "insert" /\ UNCHANGED <<steps, effects, timers, still>>
  BY DEF ExecuteInsert, env, hist, still
<1>2. CASE Fresh(k)
  <2>1. Others(w) /\ pc'[w] = "check" /\ job'[w] = job[w]
    BY <1>2, WentTo DEF ExecuteInsert, PcValues, ExecuteAt
  <2>2. status[k] = "ausente" /\ status'[k] = "running" /\ OnlyRow(k)
    BY <1>0, <1>1, <1>2 DEF ExecuteInsert, TypeOK, Fresh, OnlyRow
  <2> QED
    BY <1>1, <2>1, <2>2
<1>3. CASE ~Fresh(k)
  <2>1. Others(w) /\ pc'[w] = "idle" /\ job'[w] = Blank /\ UNCHANGED status
    BY <1>3, GoneFrom DEF ExecuteInsert
  <2> QED
    BY <1>1, <2>1
<1> QED
  BY <1>2, <1>3

LEMMA OverLimitFacts ==
    ASSUME TypeOK, NEW w \in Workers, ExecuteOverLimit(w)
    PROVE  /\ pc[w] = "check" /\ UNCHANGED <<effects, timers, still>> /\ Others(w) /\ OnlyRow(job[w].key)
           /\ status'[job[w].key] = "failed" /\ steps'[job[w].key] = [i \in Idx |-> "bloqueado"]
           /\ pc'[w] = "disable" /\ job'[w].key = job[w].key /\ job'[w].held = job[w].held
           /\ job'[w].steps = [i \in Idx |-> "bloqueado"]
<1> DEFINE s == [i \in Idx |-> "bloqueado"]
           j == [job[w] EXCEPT !.steps = s]
<1>1. s \in Steps
  BY DEF Steps, StepStatus
<1>2. j \in Jobs /\ j.key = job[w].key /\ j.steps = s /\ j.held = job[w].held
  <2> HIDE DEF s
  <2> QED
    BY <1>1, JobFacts DEF Jobs
<1>3. pc[w] = "check" /\ UNCHANGED <<effects, timers, still>> /\ Goto(w, "disable") /\ Local(w, j)
  BY DEF ExecuteOverLimit, env, hist, still
<1> HIDE DEF j
<1>4. Others(w) /\ pc'[w] = "disable" /\ job'[w] = j
  BY <1>2, <1>3, MovedTo DEF PcValues, ExecuteAt
<1>5. OnlyRow(job[w].key) /\ status'[job[w].key] = "failed" /\ steps'[job[w].key] = s
  BY <1>3, JobFacts, Written DEF ExecuteOverLimit
<1> QED
  BY <1>2, <1>3, <1>4, <1>5

LEMMA DisableFacts ==
    ASSUME TypeOK, NEW w \in Workers, ExecuteDisableRule(w)
    PROVE  /\ pc[w] = "disable" /\ UNCHANGED <<status, steps, effects, timers, still>>
           /\ Others(w) /\ pc'[w] = "notify" /\ job'[w] = job[w]
BY WentTo DEF ExecuteDisableRule, PcValues, row, env, hist, still

LEMMA SkipFacts ==
    ASSUME TypeOK, NEW w \in Workers, ExecuteSkip(w)
    PROVE  /\ pc[w] = "check" /\ UNCHANGED <<effects, timers, still>> /\ Others(w) /\ OnlyRow(job[w].key)
           /\ status'[job[w].key] = "skipped" /\ steps'[job[w].key] = steps[job[w].key]
           /\ pc'[w] = "idle" /\ job'[w] = Blank
<1>1. pc[w] = "check" /\ UNCHANGED <<effects, timers, still>>
  BY DEF ExecuteSkip, env, hist, still
<1>2. Others(w) /\ pc'[w] = "idle" /\ job'[w] = Blank
  BY GoneFrom DEF ExecuteSkip
<1> QED
  BY <1>1, <1>2, JobFacts, Written DEF ExecuteSkip

LEMMA PlanFacts ==
    ASSUME TypeOK, NEW w \in Workers, ExecutePlan(w)
    PROVE  /\ pc[w] = "check" /\ ~OverLimit /\ UNCHANGED <<status, steps, effects, timers, still>> /\ Others(w)
           /\ pc'[w] = "perform" /\ job'[w].key = job[w].key /\ job'[w].at = job[w].at /\ job'[w].held = job[w].held
           /\ \A i \in Idx : job'[w].steps[i] # "agendado" /\ job'[w].steps[i] # "aguardando"
<1>1. PICK p \in Steps : /\ \A i \in Idx : p[i] \in Planned(i)
                         /\ Local(w, [job[w] EXCEPT !.steps = p])
  BY DEF ExecutePlan
<1>2. \A i \in Idx : p[i] # "agendado" /\ p[i] # "aguardando"
  BY <1>1 DEF Planned
<1> DEFINE j == [job[w] EXCEPT !.steps = p]
<1>3. j \in Jobs /\ j.key = job[w].key /\ j.steps = p /\ j.at = job[w].at /\ j.held = job[w].held
  BY JobFacts DEF Jobs
<1>4. pc[w] = "check" /\ ~OverLimit /\ UNCHANGED <<status, steps, effects, timers, still>> /\ Goto(w, "perform") /\ Local(w, j)
  BY <1>1 DEF ExecutePlan, row, env, hist, still
<1> HIDE DEF j
<1>5. Others(w) /\ pc'[w] = "perform" /\ job'[w] = j
  BY <1>3, <1>4, MovedTo DEF PcValues, ExecuteAt
<1> QED
  BY <1>2, <1>3, <1>4, <1>5

\* What the executor does with its next step: it performs it, or leaves it.
LEMMA ExecuteStepFacts ==
    ASSUME TypeOK, NEW w \in Workers, ExecuteStep(w)
    PROVE  /\ pc[w] = "perform" /\ UNCHANGED <<pc, status, steps, still>> /\ Others(w)
           /\ job[w].at \in Idx /\ job[w].at + 1 \in 1..(N + 1)
           /\ \/ ~NeedsApproval(job[w].at) /\ Perform(w, job[w].at, FALSE, job[w].at + 1)
              \/ /\ UNCHANGED <<effects, timers>>
                 /\ job'[w].key = job[w].key /\ job'[w].at = job[w].at + 1 /\ job'[w].held = job[w].held
                 /\ \/ job'[w].steps[job[w].at] = job[w].steps[job[w].at]
                    \/ job'[w].steps[job[w].at] = "aguardando" /\ NeedsApproval(job[w].at)
                 /\ \A x \in Idx \ {job[w].at} : job'[w].steps[x] = job[w].steps[x]
<1>1. pc[w] = "perform" /\ UNCHANGED <<pc, status, steps, still>>
  BY DEF ExecuteStep, row, env, still
<1>2. PICK i \in Idx : i = job[w].at /\ i + 1 \in 1..(N + 1)
  BY Indices DEF ExecuteStep
<1>3. CASE job[w].steps[i] = "planejado" /\ ~Waits(i)
  <2>1. ~NeedsApproval(i) /\ Perform(w, i, FALSE, i + 1)
    BY <1>2, <1>3 DEF ExecuteStep, Waits
  <2>2. PICK o \in Outcomes(i, FALSE) : Performed(w, i, o, i + 1)
    BY <2>1 DEF Perform
  <2>3. \A u \in Workers \ {w} : job'[u] = job[u]
    BY <2>2 DEF Performed, Local, TypeOK
  <2> QED
    BY <1>1, <1>2, <2>1, <2>3 DEF Others
<1>4. CASE ~(job[w].steps[i] = "planejado" /\ ~Waits(i))
  <2>1. PICK st \in StepStatus :
           /\ st = job[w].steps[i] \/ (st = "aguardando" /\ NeedsApproval(i))
           /\ Local(w, [job[w] EXCEPT !.steps = [job[w].steps EXCEPT ![i] = st], !.at = i + 1])
           /\ UNCHANGED <<effects, timers>>
    <3>1. job[w].steps[i] \in StepStatus /\ "aguardando" \in StepStatus
      BY JobFacts DEF Steps, StepStatus
    <3> QED
      BY <1>2, <1>4, <3>1 DEF ExecuteStep, Waits
  <2> DEFINE s == [job[w].steps EXCEPT ![i] = st]
             j == [job[w] EXCEPT !.steps = s, !.at = i + 1]
  <2>2. job[w] \in Jobs /\ job[w].steps \in Steps
    BY JobFacts
  <2>3. s \in Steps /\ s[i] = st /\ \A x \in Idx \ {i} : s[x] = job[w].steps[x]
    BY <2>2 DEF Steps
  <2>4. j \in Jobs /\ j.key = job[w].key /\ j.steps = s /\ j.at = i + 1 /\ j.held = job[w].held
    <3> HIDE DEF s
    <3> QED
      BY <1>2, <2>2, <2>3 DEF Jobs
  <2>5. Local(w, j)
    BY <2>1
  <2> HIDE DEF s, j
  <2>6. job'[w] = j /\ \A u \in Workers \ {w} : job'[u] = job[u]
    BY <2>4, <2>5, LocalStep DEF TypeOK
  <2>7. Others(w) /\ UNCHANGED <<effects, timers>> /\ (st = job[w].steps[i] \/ (st = "aguardando" /\ NeedsApproval(i)))
    BY <1>1, <2>1, <2>6 DEF Others
  <2>8. /\ job'[w].key = job[w].key /\ job'[w].at = i + 1 /\ job'[w].held = job[w].held
        /\ job'[w].steps[i] = st /\ \A x \in Idx \ {i} : job'[w].steps[x] = job[w].steps[x]
    BY <2>3, <2>4, <2>6
  <2> QED
    BY <1>1, <1>2, <2>7, <2>8
<1> QED
  BY <1>3, <1>4

LEMMA ExecuteSaveFacts ==
    ASSUME TypeOK, NEW w \in Workers, ExecuteSave(w)
    PROVE  /\ pc[w] = "perform" /\ UNCHANGED <<effects, timers, still>> /\ Others(w) /\ OnlyRow(job[w].key)
           /\ status'[job[w].key] = FinalStatus(job[w].steps) /\ steps'[job[w].key] = job[w].steps
           /\ pc'[w] = "notify" /\ job'[w] = job[w]
<1>1. pc[w] = "perform" /\ UNCHANGED <<effects, timers, still>>
  BY DEF ExecuteSave, env, hist, still
<1>2. Others(w) /\ pc'[w] = "notify" /\ job'[w] = job[w]
  BY WentTo DEF ExecuteSave, PcValues
<1> QED
  BY <1>1, <1>2, JobFacts, Written DEF ExecuteSave

LEMMA NotifyFacts ==
    ASSUME TypeOK, NEW w \in Workers, NotifyOutcome(w)
    PROVE  /\ UNCHANGED <<status, steps, effects, timers, still>> /\ Others(w)
           /\ pc'[w] = "idle" /\ job'[w] = Blank
BY GoneFrom DEF NotifyOutcome, row, env, hist, still

LEMMA DecideStartFacts ==
    ASSUME TypeOK, NEW w \in Workers, NEW k \in Keys, NEW web \in BOOLEAN, NEW approving \in BOOLEAN,
           DecideStart(w, k, web, approving)
    PROVE  /\ UNCHANGED <<status, steps, effects, timers, still>> /\ Others(w) /\ pc[w] = "idle"
           /\ pc'[w] \in {"claim", "claimReject"} /\ job'[w].key = k /\ job'[w].steps = NoSteps /\ job'[w].at = 1
           /\ job'[w].held = {} /\ status[k] # "ausente"
<1> DEFINE j == [JobFor(k) EXCEPT !.web = web]
<1>1. j \in Jobs /\ j.key = k /\ j.steps = NoSteps /\ j.at = 1 /\ j.held = {}
  BY JobForFields, NewWeb, BlankFacts DEF Jobs
<1>2. /\ UNCHANGED <<status, steps, effects, timers, still>> /\ pc[w] = "idle" /\ status[k] # "ausente"
      /\ Goto(w, "claim") \/ Goto(w, "claimReject")
      /\ Local(w, j)
  BY DEF DecideStart, row, env, hist, still
<1> HIDE DEF j
<1> QED
  BY <1>1, <1>2, MovedTo DEF PcValues, DecideAt

\* A claim takes the row of a decision taken in a transaction, and marks that of any other.
LEMMA ClaimFacts ==
    ASSUME TypeOK, NEW w \in Workers, Claim(w)
    PROVE  /\ UNCHANGED <<steps, effects, timers, age, crashes>> /\ Others(w) /\ OnlyRow(job[w].key)
           /\ pc[w] \in {"claim", "claimReject"} /\ Unlocked(job[w].key)
           /\ \/ /\ status[job[w].key] = "pending_approval" /\ pc'[w] \in {"refresh", "rejecting"} /\ job'[w] = job[w]
                 /\ \/ job[w].web /\ lock' = [lock EXCEPT ![job[w].key] = w] /\ UNCHANGED status
                    \/ ~job[w].web /\ status'[job[w].key] = "running" /\ UNCHANGED lock
              \/ UNCHANGED <<status, lock>> /\ pc'[w] = "idle" /\ job'[w] = Blank
<1>0. PICK k \in Keys : k = job[w].key
  BY JobFacts
<1>1. UNCHANGED <<steps, effects, timers, age, crashes>> /\ pc[w] \in {"claim", "claimReject"} /\ Unlocked(k)
  BY <1>0 DEF Claim, env
<1>2. CASE Claimable(k)
  <2>1. Others(w) /\ pc'[w] \in {"refresh", "rejecting"} /\ job'[w] = job[w]
    <3>1. CASE pc[w] = "claim"
      BY <1>0, <1>2, <3>1, WentTo DEF Claim, PcValues, DecideAt
    <3>2. CASE pc[w] = "claimReject"
      BY <1>0, <1>2, <3>2, WentTo DEF Claim, PcValues, DecideAt
    <3> QED
      BY <1>1, <3>1, <3>2
  <2>2. \/ job[w].web /\ lock' = [lock EXCEPT ![k] = w] /\ UNCHANGED status
        \/ ~job[w].web /\ status' = [status EXCEPT ![k] = "running"] /\ UNCHANGED lock
    BY <1>0, <1>2 DEF Claim
  <2>3. /\ OnlyRow(k)
        /\ \/ job[w].web /\ lock' = [lock EXCEPT ![k] = w] /\ UNCHANGED status
           \/ ~job[w].web /\ status'[k] = "running" /\ UNCHANGED lock
    BY <1>1, <2>2 DEF OnlyRow, TypeOK
  <2> QED
    BY <1>0, <1>1, <1>2, <2>1, <2>3 DEF Claimable
<1>3. CASE ~Claimable(k)
  <2>1. UNCHANGED <<status, lock>> /\ Others(w) /\ pc'[w] = "idle" /\ job'[w] = Blank
    BY <1>0, <1>3, GoneFrom DEF Claim
  <2> QED
    BY <1>0, <1>1, <2>1 DEF OnlyRow
<1> QED
  BY <1>2, <1>3

LEMMA RefreshFacts ==
    ASSUME TypeOK, NEW w \in Workers, Refresh(w)
    PROVE  /\ pc[w] = "refresh" /\ UNCHANGED <<status, steps, effects, timers, still>> /\ Others(w)
           /\ pc'[w] = "approving" /\ job'[w].steps = steps[job[w].key]
           /\ job'[w].key = job[w].key /\ job'[w].at = job[w].at /\ job'[w].web = job[w].web /\ job'[w].held = job[w].held
<1> DEFINE s == steps[job[w].key]
           j == [job[w] EXCEPT !.steps = s]
<1>1. /\ j \in Jobs /\ j.steps = s /\ j.key = job[w].key /\ j.at = job[w].at /\ j.web = job[w].web
      /\ j.held = job[w].held
  <2>1. s \in Steps /\ job[w] \in Jobs
    BY JobFacts
  <2> HIDE DEF s
  <2> QED
    BY <2>1 DEF Jobs
<1>2. pc[w] = "refresh" /\ UNCHANGED <<status, steps, effects, timers, still>> /\ Goto(w, "approving") /\ Local(w, j)
  BY DEF Refresh, row, env, hist, still
<1> HIDE DEF s, j
<1>3. Others(w) /\ pc'[w] = "approving" /\ job'[w] = j
  BY <1>1, <1>2, MovedTo DEF PcValues, DecideAt
<1> QED
  BY <1>1, <1>2, <1>3 DEF s

LEMMA ApproveStepFacts ==
    ASSUME TypeOK, NEW w \in Workers, ApproveStep(w)
    PROVE  /\ pc[w] = "approving" /\ UNCHANGED <<pc, status, steps, still>> /\ Others(w)
           /\ job[w].at \in Idx /\ job[w].at + 1 \in 1..(N + 1)
           /\ \/ /\ job[w].steps[job[w].at] = "aguardando" /\ Perform(w, job[w].at, FALSE, job[w].at + 1)
              \/ /\ job[w].steps[job[w].at] # "aguardando" /\ UNCHANGED <<effects, timers>>
                 /\ job'[w].key = job[w].key /\ job'[w].at = job[w].at + 1 /\ job'[w].steps = job[w].steps
                 /\ job'[w].web = job[w].web /\ job'[w].held = job[w].held
<1>1. pc[w] = "approving" /\ UNCHANGED <<pc, status, steps, still>>
  BY DEF ApproveStep, row, env, still
<1>2. PICK i \in Idx : i = job[w].at /\ i + 1 \in 1..(N + 1)
  BY Indices DEF ApproveStep
<1>3. CASE job[w].steps[i] = "aguardando"
  <2>1. Perform(w, i, FALSE, i + 1)
    BY <1>2, <1>3 DEF ApproveStep
  <2>2. PICK o \in Outcomes(i, FALSE) : Performed(w, i, o, i + 1)
    BY <2>1 DEF Perform
  <2>3. \A u \in Workers \ {w} : job'[u] = job[u]
    BY <2>2 DEF Performed, Local, TypeOK
  <2> QED
    BY <1>1, <1>2, <1>3, <2>1, <2>3 DEF Others
<1>4. CASE job[w].steps[i] # "aguardando"
  <2> DEFINE j == [job[w] EXCEPT !.at = i + 1]
  <2>1. /\ j \in Jobs /\ j.key = job[w].key /\ j.steps = job[w].steps /\ j.at = i + 1
        /\ j.web = job[w].web /\ j.held = job[w].held
    BY <1>2, JobFacts DEF Jobs
  <2>2. Local(w, j) /\ UNCHANGED <<effects, timers>>
    BY <1>2, <1>4 DEF ApproveStep
  <2> HIDE DEF j
  <2>3. Others(w) /\ job'[w] = j
    BY <1>1, <2>1, <2>2, LocalStep DEF TypeOK, Others
  <2> QED
    BY <1>1, <1>2, <1>4, <2>1, <2>2, <2>3
<1> QED
  BY <1>3, <1>4

\* The save of a decision lets go of the row, and of the timers it held back.
LEMMA DecideFacts ==
    ASSUME TypeOK, NEW w \in Workers, NEW st, NEW s, Decide(w, st, s)
    PROVE  /\ UNCHANGED <<effects, age, crashes>> /\ Others(w) /\ OnlyRow(job[w].key)
           /\ status'[job[w].key] = st /\ steps'[job[w].key] = s
           /\ lock[job[w].key] = (IF job[w].web THEN w ELSE NoWorker) /\ lock' = [lock EXCEPT ![job[w].key] = NoWorker]
           /\ \A i \in Idx : timers'[job[w].key][i] = timers[job[w].key][i] + (IF i \in job[w].held THEN 1 ELSE 0)
           /\ pc'[w] = "idle" /\ job'[w] = Blank
<1>0. PICK k \in Keys : k = job[w].key
  BY JobFacts
<1>1. UNCHANGED <<effects, age, crashes>> /\ lock[k] = (IF job[w].web THEN w ELSE NoWorker) /\ lock' = [lock EXCEPT ![k] = NoWorker]
  BY <1>0 DEF Decide, env, hist
<1>2. Others(w) /\ pc'[w] = "idle" /\ job'[w] = Blank
  BY GoneFrom DEF Decide
<1>3. timers' = [timers EXCEPT ![k] = [i \in Idx |-> IF i \in job[w].held THEN timers[k][i] + 1 ELSE timers[k][i]]]
  BY <1>0 DEF Decide
<1>4. OnlyRow(k) /\ status'[k] = st /\ steps'[k] = s
  BY <1>0, <1>1, <1>3 DEF Decide, OnlyRow, TypeOK
<1>5. \A i \in Idx : timers'[k][i] = timers[k][i] + (IF i \in job[w].held THEN 1 ELSE 0)
  <2>1. timers'[k] = [i \in Idx |-> IF i \in job[w].held THEN timers[k][i] + 1 ELSE timers[k][i]]
    BY <1>3 DEF TypeOK
  <2>2. \A i \in Idx : timers[k][i] \in Nat
    BY JobFacts
  <2> QED
    BY <2>1, <2>2
<1> QED
  BY <1>0, <1>1, <1>2, <1>4, <1>5

LEMMA RejectRefreshFacts ==
    ASSUME TypeOK, NEW w \in Workers, RejectRefresh(w)
    PROVE  /\ pc[w] = "rejecting" /\ job[w].at = 1 /\ UNCHANGED <<pc, status, steps, effects, timers, still>> /\ Others(w)
           /\ job'[w].steps = Recast(steps[job[w].key], "recusado") /\ job'[w].at = N + 1
           /\ job'[w].key = job[w].key /\ job'[w].web = job[w].web /\ job'[w].held = job[w].held
<1> DEFINE s == Recast(steps[job[w].key], "recusado")
           j == [job[w] EXCEPT !.steps = s, !.at = N + 1]
<1>1. s \in Steps
  BY JobFacts, RecastType
<1>2. /\ j \in Jobs /\ j.key = job[w].key /\ j.steps = s /\ j.at = N + 1 /\ j.web = job[w].web
      /\ j.held = job[w].held
  <2> HIDE DEF s
  <2> QED
    BY <1>1, Indices, JobFacts DEF Jobs
<1>3. /\ Local(w, j) /\ pc[w] = "rejecting" /\ job[w].at = 1
      /\ UNCHANGED <<pc, status, steps, effects, timers, still>>
  BY DEF RejectRefresh, row, env, hist, still
<1> HIDE DEF j
<1>4. job'[w] = j /\ Others(w)
  BY <1>2, <1>3, LocalStep DEF TypeOK, Others
<1> QED
  BY <1>2, <1>3, <1>4

LEMMA ResumeStartFacts ==
    ASSUME TypeOK, NEW w \in Workers, NEW k \in Keys, NEW i \in Idx, ResumeStart(w, k, i)
    PROVE  /\ pc[w] = "idle" /\ UNCHANGED <<status, steps, effects, still>> /\ Others(w) /\ OnlyRow(k)
           /\ timers[k][i] > 0 /\ timers'[k][i] = timers[k][i] - 1
           /\ \A x \in Idx \ {i} : timers'[k][x] = timers[k][x]
           /\ \/ pc'[w] = "idle" /\ job'[w] = job[w]
              \/ /\ pc'[w] = "resume" /\ steps[k][i] = "agendado"
                 /\ job'[w].key = k /\ job'[w].steps = steps[k] /\ job'[w].at = i /\ job'[w].held = {}
<1>1. /\ pc[w] = "idle" /\ UNCHANGED <<status, steps, effects, still>> /\ timers[k][i] > 0
      /\ timers' = [timers EXCEPT ![k][i] = timers[k][i] - 1]
  BY DEF ResumeStart, Due, row, env, hist, still
<1>2. /\ timers'[k][i] = timers[k][i] - 1 /\ \A x \in Idx \ {i} : timers'[k][x] = timers[k][x]
      /\ \A h \in Keys \ {k} : timers'[h] = timers[h]
  BY <1>1 DEF TypeOK
<1>3. OnlyRow(k)
  BY <1>1, <1>2 DEF OnlyRow
<1>4. ASSUME UNCHANGED <<pc, job>>
      PROVE  Others(w) /\ pc'[w] = "idle" /\ job'[w] = job[w]
  BY <1>1, <1>4 DEF Others
<1> DEFINE j == [JobFor(k) EXCEPT !.steps = steps[k], !.at = i]
<1>5. j \in Jobs /\ j.key = k /\ j.steps = steps[k] /\ j.at = i /\ j.held = {}
  <2>1. steps[k] \in Steps /\ i \in 1..(N + 1) /\ JobFor(k) \in Jobs /\ JobFor(k).key = k /\ JobFor(k).held = {}
    BY JobFacts, JobForFields, BlankFacts, Indices
  <2> QED
    BY <2>1 DEF Jobs
<1>6. ASSUME Goto(w, "resume"), Local(w, j)
      PROVE  Others(w) /\ pc'[w] = "resume" /\ job'[w] = j
  BY <1>5, <1>6, MovedTo DEF PcValues, ResumeAt
<1>7. \/ UNCHANGED <<pc, job>>
      \/ Goto(w, "resume") /\ Local(w, j) /\ steps[k][i] = "agendado"
  BY DEF ResumeStart
<1> HIDE DEF j
<1> QED
  BY <1>1, <1>2, <1>3, <1>4, <1>5, <1>6, <1>7

LEMMA ResumePerformFacts ==
    ASSUME TypeOK, ResumePoint, NEW w \in Workers, ResumePerform(w)
    PROVE  /\ pc[w] = "resume" /\ pc'[w] = "resumed" /\ \A u \in Workers \ {w} : pc'[u] = pc[u]
           /\ UNCHANGED <<status, steps, still>> /\ job[w].at \in Idx /\ job[w].at \in 1..(N + 1)
           /\ Perform(w, job[w].at, TRUE, job[w].at)
BY GotoStep, Indices DEF ResumePerform, ResumePoint, PcValues, ResumeAt, TypeOK, row, env, still

LEMMA ResumeSaveFacts ==
    ASSUME TypeOK, NEW w \in Workers, ResumeSave(w)
    PROVE  /\ pc[w] = "resumed" /\ UNCHANGED <<effects, timers, still>> /\ Others(w) /\ OnlyRow(job[w].key)
           /\ status'[job[w].key] = FinalStatus(job[w].steps) /\ steps'[job[w].key] = job[w].steps
           /\ pc'[w] = "notify" /\ job'[w] = job[w]
<1>1. pc[w] = "resumed" /\ UNCHANGED <<effects, timers, still>>
  BY DEF ResumeSave, env, hist, still
<1>2. Others(w) /\ pc'[w] = "notify" /\ job'[w] = job[w]
  BY WentTo DEF ResumeSave, PcValues
<1> QED
  BY <1>1, <1>2, JobFacts, Written DEF ResumeSave

LEMMA ExpireReadFacts ==
    ASSUME TypeOK, NEW w \in Workers, NEW k \in Keys, ExpireRead(w, k)
    PROVE  /\ pc[w] = "idle" /\ status[k] = "pending_approval" /\ UNCHANGED <<status, steps, effects, timers, still>>
           /\ Others(w) /\ pc'[w] = "expire" /\ job'[w].key = k /\ job'[w].held = {}
           /\ job'[w].steps = Recast(steps[k], "expirado")
<1> DEFINE s == Recast(steps[k], "expirado")
           j == [JobFor(k) EXCEPT !.steps = s]
<1>1. s \in Steps
  BY JobFacts, RecastType
<1>2. j \in Jobs /\ j.key = k /\ j.steps = s /\ j.held = {}
  <2> HIDE DEF s
  <2> QED
    BY <1>1, JobForFields, BlankFacts DEF Jobs
<1>3. /\ pc[w] = "idle" /\ status[k] = "pending_approval" /\ UNCHANGED <<status, steps, effects, timers, still>>
      /\ Goto(w, "expire") /\ Local(w, j)
  BY DEF ExpireRead, row, env, hist, still
<1> HIDE DEF s, j
<1>4. Others(w) /\ pc'[w] = "expire" /\ job'[w] = j
  BY <1>2, <1>3, MovedTo DEF PcValues
<1> QED
  BY <1>2, <1>3, <1>4 DEF s

LEMMA ExpireSaveFacts ==
    ASSUME TypeOK, NEW w \in Workers, ExpireSave(w)
    PROVE  /\ pc[w] = "expire" /\ UNCHANGED <<effects, timers, still>> /\ Others(w) /\ OnlyRow(job[w].key)
           /\ status'[job[w].key] = "expired" /\ steps'[job[w].key] = job[w].steps
           /\ pc'[w] = "idle" /\ job'[w] = Blank
<1>1. pc[w] = "expire" /\ UNCHANGED <<effects, timers, still>>
  BY DEF ExpireSave, env, hist, still
<1>2. Others(w) /\ pc'[w] = "idle" /\ job'[w] = Blank
  BY GoneFrom DEF ExpireSave
<1> QED
  BY <1>1, <1>2, JobFacts, Written DEF ExpireSave

LEMMA CrashFacts ==
    ASSUME TypeOK, NEW w \in Workers, Crash(w)
    PROVE  /\ UNCHANGED <<status, steps, effects, age>> /\ crashes' = crashes + 1 /\ Others(w) /\ OnlyRow(job[w].key)
           /\ pc'[w] = "idle" /\ job'[w] = Blank
           /\ lock' = IF lock[job[w].key] = w THEN [lock EXCEPT ![job[w].key] = NoWorker] ELSE lock
           /\ pc[w] \in ResumeAt \/ UNCHANGED timers
<1>1. UNCHANGED <<status, steps, effects, age>> /\ Others(w) /\ pc'[w] = "idle" /\ job'[w] = Blank
  BY GoneFrom DEF Crash, row, env
<1>2. timers' = timers \/ (pc[w] \in ResumeAt /\ timers' = [timers EXCEPT ![job[w].key][job[w].at] = @ + 1])
  BY DEF Crash
<1>3. OnlyRow(job[w].key) /\ (pc[w] \in ResumeAt \/ UNCHANGED timers)
  BY <1>1, <1>2 DEF OnlyRow, TypeOK
<1> QED
  BY <1>1, <1>3 DEF Crash

LEMMA LimitExecute ==
    ASSUME TypeOK, TurnInv, LimitInv, NEW w \in Workers, Execute(w)
    PROVE  LimitInv'
<1>0. PICK k \in Keys : k = job[w].key
  BY JobFacts
<1>1. CASE \E h \in Keys : ExecuteStart(w, h)
  BY <1>1, StartFacts, LimitOutside DEF still, Acting
\* The only run that passes is one whose own insert was counted.
<1>2. CASE ExecuteInsert(w)
  <2>1. CASE UNCHANGED status /\ pc'[w] = "idle"
    BY <1>2, <2>1, InsertFacts, LimitOutside DEF still, Acting
  <2>2. CASE /\ status[k] = "ausente" /\ status'[k] = "running" /\ OnlyRow(k)
             /\ pc'[w] = "check" /\ job'[w] = job[w]
    <3>1. Inserted' = Inserted \cup {k}
      BY <2>2 DEF Inserted, OnlyRow
    <3>2. IsFiniteSet(Inserted')
      BY <3>1, FS_AddElement DEF LimitInv
    <3>3. Others(w) /\ UNCHANGED <<steps, effects, age>>
      BY <1>2, InsertFacts DEF still
    <3>4. ASSUME NEW h \in Keys, Passed(h)' PROVE Passed(h) /\ status'[h] \notin {"ausente", "skipped"}
      <4>1. \A u \in Workers : job'[u].key = h /\ pc'[u] \in Acting => job[u].key = h /\ pc[u] \in Acting
        BY <2>2, <3>3 DEF Others, Acting
      <4>2. Passed(h)
        BY <3>3, <3>4, <4>1 DEF Passed
      <4> QED
        BY <2>2, <4>2 DEF LimitInv, OnlyRow
    <3> QED
      BY <3>2, <3>3, <3>4, LimitKept
  <2> QED
    BY <1>0, <1>2, <2>1, <2>2, InsertFacts
\* A run that is about to be planned has done nothing yet.
<1>3. ASSUME pc[w] = "check"
      PROVE  /\ status[k] = "running" /\ steps[k] = NoSteps /\ \A i \in Idx : effects[k][i] = 0
             /\ \A u \in Workers \ {w} : job[u].key = k => pc[u] \notin Acting
  <2>1. \A i \in Idx : i >= 1
    BY DEF Idx
  <2> QED
    BY <1>0, <1>3, <2>1 DEF TurnInv, OneExecutor, StillToCome, Unused, Acting
<1>4. ASSUME pc[w] = "check", Others(w), OnlyRow(k), UNCHANGED <<effects, age>>, pc'[w] \notin Acting,
             \A i \in Idx : steps'[k][i] \notin {"aguardando", "agendado"}
      PROVE  LimitInv'
  <2>1. ~Passed(k)'
    BY <1>3, <1>4 DEF Passed, Others
  <2> QED
    BY <1>3, <1>4, <2>1, LimitAtRow
<1>5. CASE ExecuteOverLimit(w)
  <2>1. /\ pc[w] = "check" /\ UNCHANGED <<effects, age>> /\ Others(w) /\ OnlyRow(k)
        /\ steps'[k] = [i \in Idx |-> "bloqueado"] /\ pc'[w] \notin Acting
    BY <1>0, <1>5, OverLimitFacts DEF still, Acting
  <2> QED
    BY <1>4, <2>1
<1>6. CASE ExecuteDisableRule(w)
  BY <1>6, DisableFacts, LimitOutside DEF still, Acting
<1>7. CASE ExecuteSkip(w)
  <2>1. /\ pc[w] = "check" /\ UNCHANGED <<effects, age>> /\ Others(w) /\ OnlyRow(k)
        /\ steps'[k] = steps[k] /\ pc'[w] \notin Acting
    BY <1>0, <1>7, SkipFacts DEF still, Acting
  <2> QED
    BY <1>3, <1>4, <2>1 DEF NoSteps
<1>8. CASE ExecutePlan(w)
  <2>1. /\ pc[w] = "check" /\ ~OverLimit /\ UNCHANGED <<status, steps, effects, age>> /\ Others(w) /\ job'[w].key = k
    BY <1>0, <1>8, PlanFacts DEF still
  <2>2. ASSUME NEW h \in Keys, Passed(h)' PROVE status[h] \notin {"ausente", "skipped"}
    <3>1. CASE h = k
      BY <1>3, <2>1, <3>1
    <3>2. CASE h # k
      <4>1. \A u \in Workers : job'[u].key = h /\ pc'[u] \in Acting => job[u].key = h /\ pc[u] \in Acting
        BY <2>1, <3>2 DEF Others
      <4>2. Passed(h)
        BY <2>1, <2>2, <4>1 DEF Passed
      <4> QED
        BY <4>2 DEF LimitInv
    <3> QED
      BY <3>1, <3>2
  <2>3. PassedRuns' \subseteq RecentRuns /\ RecentRuns \subseteq Inserted /\ Inserted' = Inserted
    BY <2>1, <2>2 DEF PassedRuns, RecentRuns, Inserted
  <2>4. IsFiniteSet(RecentRuns) /\ IsFiniteSet(Inserted')
    BY <2>3, FS_Subset DEF LimitInv
  <2>5. IsFiniteSet(PassedRuns') /\ Cardinality(PassedRuns') <= Cardinality(RecentRuns)
    BY <2>3, <2>4, FS_Subset
  <2>6. Cardinality(RecentRuns) \in Nat /\ Cardinality(PassedRuns') \in Nat /\ DailyLimit \in Nat
    BY <2>4, <2>5, FS_CardinalityType, RuleAssumption
  <2>7. Cardinality(PassedRuns)' <= DailyLimit
    BY <2>1, <2>5, <2>6 DEF OverLimit
  <2> QED
    BY <2>1, <2>2, <2>4, <2>7 DEF LimitInv
<1>9. ASSUME pc[w] = "perform", Others(w), OnlyRow(k), UNCHANGED age, status'[k] \notin {"ausente", "skipped"},
             pc'[w] \in Acting => job'[w].key = k
      PROVE  LimitInv'
  <2>1. Passed(k) /\ status[k] # "ausente"
    BY <1>0, <1>9 DEF Passed, Acting, LimitInv
  <2> QED
    BY <1>9, <2>1, LimitAtRow
<1>10. CASE ExecuteStep(w)
  <2>1. pc[w] = "perform" /\ UNCHANGED <<status, steps, age>> /\ Others(w) /\ status[k] = "running"
    BY <1>0, <1>10, ExecuteStepFacts DEF still, TurnInv, OneExecutor
  <2>2. ASSUME NEW i \in Idx, Perform(w, i, FALSE, i + 1), i + 1 \in 1..(N + 1)
        PROVE  OnlyRow(k) /\ job'[w].key = k
    BY <1>0, <2>1, <2>2, PerformedOnly
  <2>3. CASE UNCHANGED <<effects, timers>> /\ job'[w].key = k
    BY <1>9, <2>1, <2>3 DEF OnlyRow
  <2> QED
    BY <1>0, <1>9, <1>10, <2>1, <2>2, <2>3, ExecuteStepFacts
<1>11. CASE ExecuteSave(w)
  BY <1>0, <1>9, <1>11, ExecuteSaveFacts, FinalStatusFacts DEF still, Acting
<1> QED
  BY <1>1, <1>2, <1>5, <1>6, <1>7, <1>8, <1>10, <1>11 DEF Execute

LEMMA LimitRest ==
    ASSUME TypeOK, ResumePoint, TurnInv, LimitInv, NEW w \in Workers,
           Decision(w) \/ Resume(w) \/ Expire(w) \/ NotifyOutcome(w) \/ Crash(w)
    PROVE  LimitInv'
<1>0. PICK k \in Keys : k = job[w].key
  BY JobFacts
<1>1. CASE \E h \in Keys, web, approving \in BOOLEAN : DecideStart(w, h, web, approving)
  BY <1>1, DecideStartFacts, LimitOutside DEF still, Acting
\* A process that goes on with a run that has passed.
<1>2. ASSUME Passed(k), Others(w), OnlyRow(k), UNCHANGED age,
             status'[k] = status[k] \/ status'[k] \notin {"ausente", "skipped"},
             pc'[w] \in Acting => job'[w].key = k
      PROVE  LimitInv'
  BY <1>2, LimitAtRow DEF LimitInv
<1>3. pc[w] \in Acting => Passed(k)
  BY <1>0 DEF Passed
<1>4. CASE Claim(w)
  <2>1. CASE UNCHANGED status /\ pc'[w] = "idle"
    BY <1>4, <2>1, ClaimFacts, LimitOutside DEF Acting
  <2>2. CASE /\ status[k] = "pending_approval" /\ job'[w] = job[w]
             /\ status'[k] = "running" \/ UNCHANGED status
    <3>1. Passed(k)
      BY <2>2 DEF Passed, TurnInv, PendingWaits
    <3> QED
      BY <1>0, <1>2, <1>4, <2>2, <3>1, ClaimFacts
  <2> QED
    BY <1>0, <1>4, <2>1, <2>2, ClaimFacts
<1>5. CASE Refresh(w)
  <2>1. OnlyRow(k) /\ UNCHANGED <<status, age>> /\ pc[w] \in Acting /\ Others(w) /\ job'[w].key = k
    BY <1>0, <1>5, RefreshFacts DEF still, OnlyRow, Acting
  <2> QED
    BY <1>2, <1>3, <2>1
<1>6. CASE ApproveStep(w)
  <2>1. pc[w] \in Acting /\ UNCHANGED <<status, steps, age>> /\ Others(w)
    BY <1>6, ApproveStepFacts DEF still, Acting
  <2>2. ASSUME NEW i \in Idx, Perform(w, i, FALSE, i + 1), i + 1 \in 1..(N + 1)
        PROVE  OnlyRow(k) /\ job'[w].key = k
    BY <1>0, <2>1, <2>2, PerformedOnly
  <2>3. CASE UNCHANGED <<effects, timers>> /\ job'[w].key = k
    BY <1>2, <1>3, <2>1, <2>3 DEF OnlyRow
  <2> QED
    BY <1>0, <1>2, <1>3, <1>6, <2>1, <2>2, <2>3, ApproveStepFacts
<1>7. ASSUME NEW st, NEW s, Decide(w, st, s), pc[w] \in Acting, st \notin {"ausente", "skipped"} PROVE LimitInv'
  BY <1>0, <1>2, <1>3, <1>7, DecideFacts DEF Acting
<1>8. CASE ApproveSave(w) \/ RejectSave(w)
  BY <1>7, <1>8, FinalStatusFacts DEF ApproveSave, RejectSave, Acting
<1>9. CASE RejectRefresh(w)
  <2>1. OnlyRow(k) /\ UNCHANGED <<status, age>> /\ pc[w] \in Acting /\ Others(w) /\ job'[w].key = k
    BY <1>0, <1>9, RejectRefreshFacts DEF still, OnlyRow, Acting
  <2> QED
    BY <1>2, <1>3, <2>1
<1>10. ASSUME NEW h \in Keys, NEW i \in Idx, ResumeStart(w, h, i) PROVE LimitInv'
  <2>1. UNCHANGED <<status, steps, effects, age>> /\ Others(w) /\ OnlyRow(h)
    BY <1>10, ResumeStartFacts DEF still
  <2>2. CASE pc'[w] = "idle"
    BY <2>1, <2>2, LimitOutside DEF Acting
  <2>3. CASE steps[h][i] = "agendado" /\ job'[w].key = h
    <3>1. Passed(h)
      BY <2>3 DEF Passed
    <3>2. status[h] \notin {"ausente", "skipped"}
      BY <3>1 DEF LimitInv
    <3> QED
      BY <2>1, <2>3, <3>1, <3>2, LimitAtRow
  <2> QED
    BY <1>10, <2>2, <2>3, ResumeStartFacts
<1>11. CASE ResumePerform(w)
  <2>1. /\ pc[w] \in Acting /\ \A u \in Workers \ {w} : pc'[u] = pc[u]
        /\ UNCHANGED <<status, steps, age>>
    BY <1>11, ResumePerformFacts DEF still, Acting
  <2>2. OnlyRow(k) /\ job'[w].key = k /\ \A u \in Workers \ {w} : job'[u] = job[u]
    BY <1>0, <1>11, <2>1, ResumePerformFacts, PerformedOnly
  <2> QED
    BY <1>2, <1>3, <2>1, <2>2 DEF Others
<1>12. CASE ResumeSave(w)
  BY <1>0, <1>2, <1>3, <1>12, ResumeSaveFacts, FinalStatusFacts DEF still, Acting
<1>13. ASSUME NEW h \in Keys, ExpireRead(w, h) PROVE LimitInv'
  <2>1. /\ UNCHANGED <<status, steps, effects, age>> /\ Others(w) /\ OnlyRow(h) /\ job'[w].key = h
        /\ status[h] = "pending_approval"
    BY <1>13, ExpireReadFacts DEF still, OnlyRow
  <2>2. Passed(h)
    BY <2>1 DEF Passed, TurnInv, PendingWaits
  <2> QED
    BY <2>1, <2>2, LimitAtRow
<1>14. CASE ExpireSave(w)
  BY <1>0, <1>2, <1>3, <1>14, ExpireSaveFacts DEF still, Acting
<1>15. CASE NotifyOutcome(w)
  BY <1>15, NotifyFacts, LimitOutside DEF still, Acting
<1>16. CASE Crash(w)
  BY <1>16, CrashFacts, LimitOutside DEF Acting
<1> QED
  BY <1>1, <1>4, <1>5, <1>6, <1>8, <1>9, <1>10, <1>11, <1>12, <1>13, <1>14, <1>15, <1>16 DEF Decision, Resume, Expire

LEMMA LimitStep == TypeOK /\ ResumePoint /\ TurnInv /\ LimitInv /\ [Next]_vars => LimitInv'
<1> SUFFICES ASSUME TypeOK, ResumePoint, TurnInv, LimitInv, [Next]_vars PROVE LimitInv'
  OBVIOUS
<1>1. CASE \E w \in Workers : Execute(w) \/ Decision(w) \/ Resume(w) \/ Expire(w) \/ NotifyOutcome(w) \/ Crash(w)
  BY <1>1, LimitExecute, LimitRest
<1>2. CASE OfficeHours \/ ContactChoice \/ SwitchRule \/ UNCHANGED vars \/ \E k \in Keys : GrowOld(k)
  <2>1. UNCHANGED <<status, steps, effects, pc, job>> /\ \A k \in Keys : age'[k] = 0 => age[k] = 0
    <3>1. ASSUME NEW h \in Keys, GrowOld(h) PROVE \A k \in Keys : age'[k] = 0 => age[k] = 0
      <4>1. age' = [age EXCEPT ![h] = age[h] + 1] /\ age[h] \in 0..2
        BY <3>1 DEF GrowOld, TypeOK
      <4> QED
        BY <4>1 DEF TypeOK
    <3> QED
      BY <1>2, <3>1 DEF OfficeHours, ContactChoice, SwitchRule, vars, GrowOld, row, env, hist
  <2>2. Inserted' = Inserted /\ \A k \in Keys : Passed(k)' => Passed(k)
    BY <2>1 DEF Inserted, Passed
  <2> QED
    BY <2>1, <2>2, LimitKept DEF LimitInv
<1> QED
  BY <1>1, <1>2 DEF Next

LEMMA LimitInit == Init => LimitInv
<1> SUFFICES ASSUME Init PROVE LimitInv
  OBVIOUS
<1>1. Inserted = {} /\ PassedRuns = {} /\ \A k \in Keys : ~Passed(k)
  BY DEF Init, Inserted, PassedRuns, Passed, NoSteps, Acting
<1> QED
  BY <1>1, FS_EmptySet, RuleAssumption DEF LimitInv

\* However the inserts and the counts interleave, no more runs of a day act than DAILY_LIMIT.
THEOREM DailyLimitIsKept == Spec => []DailyLimitHolds
<1>1. Init => TypeOK /\ ResumePoint /\ RecordInv /\ TurnInv /\ LimitInv
  BY TypeInit, RecordInit, TurnInit, LimitInit DEF Init, ResumePoint
<1>2. LimitInv => DailyLimitHolds
  <2> SUFFICES ASSUME LimitInv PROVE DailyLimitHolds
    OBVIOUS
  <2> DEFINE A == {k \in Keys : age[k] = 0 /\ \E i \in Idx : effects[k][i] > 0}
  <2>1. A \subseteq PassedRuns /\ PassedRuns \subseteq Inserted
    BY DEF PassedRuns, Passed, LimitInv, Inserted
  <2>2. IsFiniteSet(PassedRuns)
    BY <2>1, FS_Subset DEF LimitInv
  <2>3. IsFiniteSet(A) /\ Cardinality(A) <= Cardinality(PassedRuns)
    BY <2>1, <2>2, FS_Subset
  <2>4. Cardinality(A) \in Nat /\ Cardinality(PassedRuns) \in Nat /\ DailyLimit \in Nat
    BY <2>2, <2>3, FS_CardinalityType, RuleAssumption
  <2>5. Cardinality(A) <= DailyLimit
    BY <2>3, <2>4 DEF LimitInv
  <2> QED
    BY <2>5 DEF DailyLimitHolds
<1> QED
  BY <1>1, <1>2, TypeStep, ResumePointStep, RecordStep, TurnStep, LimitStep, PTL DEF Spec

(***************************************************************************)
(* Decided runs.  If a rule either needs approval for all that leaves the  *)
(* office, or has no call to another system, a run never has both a step   *)
(* that waits for a human and one that was put off; so a resume and a      *)
(* decision are never at one run together.                                 *)
(***************************************************************************)
Uniform == RequireApproval \/ \A i \in Idx : Kind[i] # "erp"

Claimed == {"refresh", "approving", "rejecting"}
NoneWaits(s) == \A i \in Idx : s[i] # "aguardando"
NonePutOff(s) == \A i \in Idx : s[i] # "agendado"
RowPure(k) == NoneWaits(steps[k]) \/ NonePutOff(steps[k])
CopyPure(w) ==
    /\ pc[w] \in {"claim", "claimReject", "refresh"} => job[w].at = 1
    /\ pc[w] = "perform" /\ RequireApproval => NonePutOff(job[w].steps)
    /\ pc[w] = "approving" => \A i \in Idx : i < job[w].at => job[w].steps[i] # "aguardando"
    /\ pc[w] = "rejecting" /\ job[w].at = N + 1 => NoneWaits(job[w].steps)
    /\ pc[w] \in {"resume", "resumed", "expire"} => NoneWaits(job[w].steps)
    /\ pc[w] = "expire" => NonePutOff(job[w].steps)

\* A decision taken in a transaction has the lock; of any other the row tells.
Has(w) == IF job[w].web THEN lock[job[w].key] = w ELSE status[job[w].key] # "pending_approval"
ClaimAlone(w) ==
    pc[w] \in Claimed =>
        /\ Has(w) /\ NonePutOff(steps[job[w].key])
        /\ \A u \in Workers \ {w} : job[u].key = job[w].key => pc[u] \notin Claimed \cup ResumeAt
ResumedLate(w) == pc[w] \in ResumeAt => NoneWaits(steps[job[w].key])

PureInv ==
    /\ \A k \in Keys : RowPure(k)
    /\ \A w \in Workers : CopyPure(w) /\ ClaimAlone(w) /\ ResumedLate(w)

\* A step of one process at one row.
LEMMA PureAtRow ==
    ASSUME TypeOK, PureInv, NEW w \in Workers, NEW k \in Keys, Others(w), OnlyRow(k),
           \A h \in Keys \ {k} : lock'[h] = lock[h],
           RowPure(k)', CopyPure(w)',
           pc'[w] \in Claimed =>
              /\ Has(w)' /\ NonePutOff(steps'[k]) /\ job'[w].key = k
              /\ \A u \in Workers \ {w} : job[u].key = k => pc[u] \notin Claimed \cup ResumeAt,
           pc'[w] \in ResumeAt =>
              /\ NoneWaits(steps'[k]) /\ job'[w].key = k
              /\ \A u \in Workers \ {w} : job[u].key = k => pc[u] \notin Claimed,
           \A u \in Workers \ {w} : job[u].key = k =>
              /\ pc[u] \in Claimed => Has(u)' /\ NonePutOff(steps'[k])
              /\ pc[u] \in ResumeAt => NoneWaits(steps'[k])
    PROVE  PureInv'
<1>0. \A u \in Workers : job[u].key \in Keys
  BY JobFacts
<1>1. ASSUME NEW h \in Keys PROVE RowPure(h)'
  BY DEF PureInv, RowPure, OnlyRow, NoneWaits, NonePutOff
<1>2. ASSUME NEW u \in Workers PROVE CopyPure(u)'
  <2>1. CASE u = w
    BY <2>1
  <2>2. CASE u # w
    BY <2>2 DEF PureInv, CopyPure, Others, NoneWaits, NonePutOff
  <2> QED
    BY <2>1, <2>2
<1>3. ASSUME NEW u \in Workers, pc'[u] \in Claimed
      PROVE  /\ Has(u)' /\ NonePutOff(steps'[job'[u].key])
             /\ \A v \in Workers \ {u} : job'[v].key = job'[u].key => pc'[v] \notin Claimed \cup ResumeAt
  <2>1. CASE u = w
    BY <1>3, <2>1 DEF Others
  <2>2. CASE u # w /\ job[u].key = k
    <3>1. \A v \in Workers \ {u} : job[v].key = k => pc[v] \notin Claimed \cup ResumeAt
      BY <1>3, <2>2 DEF PureInv, ClaimAlone, Others
    <3>2. job'[w].key = k => pc'[w] \notin Claimed \cup ResumeAt
      BY <1>3, <2>2 DEF Others
    <3> QED
      BY <1>3, <2>2, <3>1, <3>2 DEF Others
  <2>3. CASE u # w /\ job[u].key # k
    <3>1. job'[u] = job[u] /\ pc'[u] = pc[u] /\ job[u].key \in Keys \ {k}
      BY <1>0, <2>3 DEF Others
    <3>2. Has(u) /\ NonePutOff(steps[job[u].key])
          /\ \A v \in Workers \ {u} : job[v].key = job[u].key => pc[v] \notin Claimed \cup ResumeAt
      BY <1>3, <3>1 DEF PureInv, ClaimAlone
    <3>3. Has(u)'
      BY <3>1, <3>2 DEF Has, OnlyRow
    <3>4. NonePutOff(steps'[job'[u].key])
      BY <3>1, <3>2 DEF OnlyRow, NonePutOff
    <3> QED
      BY <2>3, <3>1, <3>2, <3>3, <3>4 DEF Others
  <2> QED
    BY <2>1, <2>2, <2>3
<1>4. ASSUME NEW u \in Workers, pc'[u] \in ResumeAt PROVE NoneWaits(steps'[job'[u].key])
  <2>1. CASE u = w
    BY <1>4, <2>1
  <2>2. CASE u # w
    BY <1>0, <1>4, <2>2 DEF PureInv, ResumedLate, Others, OnlyRow, NoneWaits
  <2> QED
    BY <2>1, <2>2
<1> QED
  BY <1>1, <1>2, <1>3, <1>4 DEF PureInv, ClaimAlone, ResumedLate

\* A step of a process that is alone at its row, or leaves it as it is.
LEMMA PureAlone ==
    ASSUME TypeOK, PureInv, NEW w \in Workers, NEW k \in Keys, Others(w), OnlyRow(k),
           \A h \in Keys \ {k} : lock'[h] = lock[h],
           \A u \in Workers \ {w} : job[u].key = k => pc[u] \notin Claimed \cup ResumeAt,
           pc'[w] \notin Claimed \cup ResumeAt, RowPure(k)', CopyPure(w)'
    PROVE  PureInv'
BY PureAtRow

LEMMA PureStay ==
    ASSUME TypeOK, PureInv, NEW w \in Workers, Others(w), UNCHANGED <<status, steps, lock>>, CopyPure(w)',
           pc'[w] \in Claimed => pc[w] \in Claimed /\ job'[w].key = job[w].key /\ job'[w].web = job[w].web,
           pc'[w] \in ResumeAt => pc[w] \in ResumeAt /\ job'[w].key = job[w].key
    PROVE  PureInv'
<1>1. ASSUME NEW u \in Workers PROVE CopyPure(u)' /\ ResumedLate(u)'
  <2>1. CASE u = w
    BY <2>1 DEF PureInv, ResumedLate
  <2>2. CASE u # w
    BY <2>2 DEF PureInv, CopyPure, ResumedLate, Others, NoneWaits, NonePutOff
  <2> QED
    BY <2>1, <2>2
<1>2. ASSUME NEW u \in Workers PROVE ClaimAlone(u)'
  <2>1. ASSUME pc'[u] \in Claimed
        PROVE  pc[u] \in Claimed /\ job'[u].key = job[u].key /\ job'[u].web = job[u].web
    BY <2>1 DEF Others
  <2>2. ASSUME NEW v \in Workers, pc'[v] \in Claimed \cup ResumeAt
        PROVE  pc[v] \in Claimed \cup ResumeAt /\ job'[v].key = job[v].key
    BY <2>2 DEF Others, Claimed, ResumeAt
  <2> QED
    BY <2>1, <2>2 DEF PureInv, ClaimAlone, Has, NonePutOff
<1> QED
  BY <1>1, <1>2 DEF PureInv, RowPure

\* Where a process has no copy of its own, nothing is asked of it.
LEMMA NoCopy ==
    ASSUME NEW w \in Workers, pc'[w] \in {"idle", "insert", "check", "disable", "notify"}
    PROVE  CopyPure(w)' /\ pc'[w] \notin Claimed \cup ResumeAt
BY DEF CopyPure, Claimed, ResumeAt

LEMMA PureExecute ==
    ASSUME Uniform, TypeOK, TurnInv, PureInv, NEW w \in Workers, Execute(w)
    PROVE  PureInv'
<1>0. PICK k \in Keys : k = job[w].key
  BY JobFacts
<1>1. CASE \E h \in Keys : ExecuteStart(w, h)
  BY <1>1, StartFacts, NoCopy, PureStay DEF still
\* The executor is alone at its run.
<1>2. ASSUME pc[w] \in {"check", "perform"}, Others(w), OnlyRow(k), UNCHANGED lock,
             pc'[w] \in {"idle", "disable", "notify"}, RowPure(k)'
      PROVE  PureInv'
  <2>1. \A u \in Workers \ {w} : job[u].key = k => pc[u] \notin Claimed \cup ResumeAt
    BY <1>0, <1>2 DEF TurnInv, OneExecutor, Claimed, ResumeAt
  <2> QED
    BY <1>2, <2>1, NoCopy, PureAlone
<1>3. CASE ExecuteInsert(w)
  <2>1. CASE UNCHANGED status /\ pc'[w] = "idle"
    BY <1>3, <2>1, InsertFacts, NoCopy, PureStay DEF still
  <2>2. CASE status[k] = "ausente" /\ OnlyRow(k) /\ pc'[w] = "check"
    <3>1. \A u \in Workers \ {w} : job[u].key = k => pc[u] \notin Claimed \cup ResumeAt
      BY <2>2 DEF TurnInv, NotBegun, Claimed, ResumeAt
    <3>2. RowPure(k)' /\ Others(w) /\ UNCHANGED lock
      BY <1>3, InsertFacts DEF still, PureInv, RowPure, NoneWaits, NonePutOff
    <3> QED
      BY <2>2, <3>1, <3>2, NoCopy, PureAlone
  <2> QED
    BY <1>0, <1>3, <2>1, <2>2, InsertFacts
<1>4. CASE ExecuteOverLimit(w)
  <2>1. RowPure(k)'
    BY <1>0, <1>4, OverLimitFacts DEF RowPure, NoneWaits
  <2> QED
    BY <1>0, <1>2, <1>4, <2>1, OverLimitFacts DEF still
<1>5. CASE ExecuteDisableRule(w)
  BY <1>5, DisableFacts, NoCopy, PureStay DEF still
<1>6. CASE ExecuteSkip(w)
  <2>1. RowPure(k)'
    BY <1>0, <1>6, SkipFacts DEF PureInv, RowPure, NoneWaits, NonePutOff
  <2> QED
    BY <1>0, <1>2, <1>6, <2>1, SkipFacts DEF still
<1>7. CASE ExecutePlan(w)
  <2>1. CopyPure(w)' /\ pc'[w] \notin Claimed \cup ResumeAt
    BY <1>7, PlanFacts DEF CopyPure, NonePutOff, Claimed, ResumeAt
  <2> QED
    BY <1>7, <2>1, PlanFacts, PureStay DEF still
\* Under require_approval no message leaves, and none is put off, before a human decides.
<1>8. CASE ExecuteStep(w)
  <2>1. pc[w] = "perform" /\ UNCHANGED <<pc, status, steps, lock>> /\ Others(w)
    BY <1>8, ExecuteStepFacts DEF still
  <2>2. ASSUME NEW i \in Idx, NEW force \in BOOLEAN, ~NeedsApproval(i), i + 1 \in 1..(N + 1), Perform(w, i, force, i + 1),
               RequireApproval
        PROVE  NonePutOff(job'[w].steps)
    <3>1. PICK o \in Outcomes(i, force) : Performed(w, i, o, i + 1)
      BY <2>2 DEF Perform
    <3>2. o[1] # "agendado"
      BY <2>2, <3>1, OutcomesType DEF NeedsApproval, External
    <3>3. job'[w].steps[i] = o[1] /\ \A x \in Idx \ {i} : job'[w].steps[x] = job[w].steps[x]
      BY <2>2, <3>1, PerformedFacts
    <3>4. NonePutOff(job[w].steps)
      BY <2>1, <2>2 DEF PureInv, CopyPure
    <3> QED
      BY <3>2, <3>3, <3>4 DEF NonePutOff
  <2>3. RequireApproval => NonePutOff(job'[w].steps)
    <3>1. ASSUME UNCHANGED <<effects, timers>>, RequireApproval, NEW i \in Idx, i = job[w].at,
                 job'[w].steps[i] = job[w].steps[i] \/ job'[w].steps[i] = "aguardando",
                 \A x \in Idx \ {i} : job'[w].steps[x] = job[w].steps[x]
          PROVE  NonePutOff(job'[w].steps)
      BY <2>1, <3>1 DEF PureInv, CopyPure, NonePutOff
    <3>2. PICK i \in Idx : i = job[w].at /\ i + 1 \in 1..(N + 1)
      BY <1>8, ExecuteStepFacts
    <3>3. \/ ~NeedsApproval(i) /\ Perform(w, i, FALSE, i + 1)
          \/ /\ UNCHANGED <<effects, timers>>
             /\ job'[w].steps[i] = job[w].steps[i] \/ job'[w].steps[i] = "aguardando"
             /\ \A x \in Idx \ {i} : job'[w].steps[x] = job[w].steps[x]
      <4>1. \/ ~NeedsApproval(job[w].at) /\ Perform(w, job[w].at, FALSE, job[w].at + 1)
            \/ /\ UNCHANGED <<effects, timers>>
               /\ \/ job'[w].steps[job[w].at] = job[w].steps[job[w].at]
                  \/ job'[w].steps[job[w].at] = "aguardando"
               /\ \A x \in Idx \ {job[w].at} : job'[w].steps[x] = job[w].steps[x]
        BY <1>8, ExecuteStepFacts, ZenonT(60)
      <4> QED
        BY <3>2, <4>1
    <3> QED
      BY <2>2, <3>1, <3>2, <3>3
  <2>4. CopyPure(w)' /\ pc'[w] \notin Claimed \cup ResumeAt
    BY <2>1, <2>3 DEF CopyPure, Claimed, ResumeAt
  <2> QED
    BY <2>1, <2>4, PureStay
<1>9. CASE ExecuteSave(w)
  <2>1. pc[w] = "perform" /\ steps'[k] = job[w].steps /\ OfItsKind(job[w].steps)
    BY <1>0, <1>9, ExecuteSaveFacts DEF TurnInv, TheseWait
  <2>2. ASSUME RequireApproval PROVE NonePutOff(job[w].steps)
    BY <2>1, <2>2 DEF PureInv, CopyPure
  <2>3. ASSUME ~RequireApproval PROVE NoneWaits(job[w].steps)
    BY <2>1, <2>3 DEF Uniform, OfItsKind, NeedsApproval, NoneWaits
  <2>4. NoneWaits(job[w].steps) \/ NonePutOff(job[w].steps)
    BY <2>2, <2>3
  <2>5. RowPure(k)'
    BY <2>1, <2>4 DEF RowPure, NoneWaits, NonePutOff
  <2> QED
    BY <1>0, <1>2, <1>9, <2>5, ExecuteSaveFacts DEF still
<1> QED
  BY <1>1, <1>3, <1>4, <1>5, <1>6, <1>7, <1>8, <1>9 DEF Execute

\* At a run that is up for decision, with its row free, nobody decides or resumes.
LEMMA NobodyDecides ==
    ASSUME TypeOK, TurnInv, PureInv, NEW k \in Keys, status[k] = "pending_approval", lock[k] = NoWorker
    PROVE  /\ ~NoneWaits(steps[k]) /\ NonePutOff(steps[k])
           /\ \A u \in Workers : job[u].key = k => pc[u] \notin Claimed \cup ResumeAt
<1>1. ~NoneWaits(steps[k]) /\ NonePutOff(steps[k])
  BY DEF TurnInv, PendingWaits, PureInv, RowPure, NoneWaits
<1>2. ASSUME NEW u \in Workers, job[u].key = k, pc[u] \in Claimed PROVE FALSE
  <2>1. Has(u) /\ u # NoWorker
    BY <1>2, KeysAssumption DEF PureInv, ClaimAlone
  <2> QED
    BY <1>2, <2>1 DEF Has
<1>3. ASSUME NEW u \in Workers, job[u].key = k, pc[u] \in ResumeAt PROVE FALSE
  BY <1>1, <1>3 DEF PureInv, ResumedLate
<1> QED
  BY <1>1, <1>2, <1>3

LEMMA PureDecision ==
    ASSUME TypeOK, TurnInv, PureInv, NEW w \in Workers, Decision(w)
    PROVE  PureInv'
<1>0. PICK k \in Keys : k = job[w].key
  BY JobFacts
<1>1. CASE \E h \in Keys, web, approving \in BOOLEAN : DecideStart(w, h, web, approving)
  <2>1. CopyPure(w)' /\ pc'[w] \notin Claimed \cup ResumeAt
    BY <1>1, DecideStartFacts DEF CopyPure, Claimed, ResumeAt
  <2> QED
    BY <1>1, <2>1, DecideStartFacts, PureStay DEF still
\* Whoever claims a run finds it waiting, and nobody at it.
<1>2. CASE Claim(w)
  <2>1. CASE UNCHANGED <<status, lock>> /\ pc'[w] = "idle"
    BY <1>2, <2>1, ClaimFacts, NoCopy, PureStay
  <2>2. CASE /\ status[k] = "pending_approval" /\ pc'[w] \in {"refresh", "rejecting"} /\ job'[w] = job[w]
             /\ \/ job[w].web /\ lock' = [lock EXCEPT ![k] = w] /\ UNCHANGED status
                \/ ~job[w].web /\ status'[k] = "running" /\ UNCHANGED lock
    <3>1. /\ UNCHANGED steps /\ Others(w) /\ OnlyRow(k) /\ pc[w] \in {"claim", "claimReject"} /\ lock[k] = NoWorker
      BY <1>0, <1>2, ClaimFacts DEF Unlocked
    <3>3. NonePutOff(steps[k]) /\ ~NoneWaits(steps[k]) /\ \A u \in Workers : job[u].key = k => pc[u] \notin Claimed \cup ResumeAt
      BY <2>2, <3>1, NobodyDecides
    <3>4. Has(w)' /\ \A h \in Keys \ {k} : lock'[h] = lock[h]
      BY <1>0, <2>2 DEF Has, TypeOK
    <3>5. job[w].at = 1 /\ N + 1 # 1 /\ \A i \in Idx : ~(i < 1)
      BY <3>1, StepsAssumption DEF PureInv, CopyPure, Idx
    <3>6. CopyPure(w)' /\ pc'[w] \notin ResumeAt
      BY <2>2, <3>5 DEF CopyPure, ResumeAt
    <3>7. RowPure(k)' /\ NonePutOff(steps'[k])
      BY <3>1, <3>3 DEF RowPure, NonePutOff
    <3> QED
      BY <1>0, <2>2, <3>1, <3>3, <3>4, <3>6, <3>7, PureAtRow
  <2> QED
    BY <1>0, <1>2, <2>1, <2>2, ClaimFacts
<1>3. CASE Refresh(w)
  <2>1. /\ pc[w] \in Claimed /\ UNCHANGED <<status, steps, lock>> /\ Others(w) /\ pc'[w] = "approving"
        /\ job'[w].key = job[w].key /\ job'[w].web = job[w].web /\ job'[w].at = 1
    BY <1>3, RefreshFacts DEF still, Claimed, PureInv, CopyPure
  <2>2. CopyPure(w)' /\ pc'[w] \notin ResumeAt
    BY <2>1 DEF CopyPure, ResumeAt, Idx
  <2> QED
    BY <2>1, <2>2, PureStay
<1>4. CASE ApproveStep(w)
  <2>0. PICK i \in Idx : i = job[w].at /\ i + 1 \in 1..(N + 1)
    BY <1>4, ApproveStepFacts
  <2>1. /\ pc[w] = "approving" /\ pc'[w] = "approving" /\ UNCHANGED <<status, steps, lock>> /\ Others(w)
    BY <1>4, ApproveStepFacts DEF still
  <2>2. \A x \in Idx : x < i => job[w].steps[x] # "aguardando"
    BY <2>0, <2>1 DEF PureInv, CopyPure
  <2>3. ASSUME NEW st, st # "aguardando", job'[w].steps[i] = st,
               job'[w].key = job[w].key, job'[w].web = job[w].web, job'[w].at = i + 1,
               \A x \in Idx \ {i} : job'[w].steps[x] = job[w].steps[x]
        PROVE  PureInv'
    <3>1. \A x \in Idx : x < i + 1 => x < i \/ x = i
      BY DEF Idx
    <3>2. CopyPure(w)' /\ pc'[w] \notin ResumeAt
      BY <2>1, <2>2, <2>3, <3>1 DEF CopyPure, ResumeAt
    <3> QED
      BY <2>1, <2>3, <3>2, PureStay DEF Claimed
  <2>4. ASSUME NEW force \in BOOLEAN, Perform(w, i, force, i + 1) PROVE PureInv'
    <3>1. PICK o \in Outcomes(i, force) : Performed(w, i, o, i + 1)
      BY <2>4 DEF Perform
    <3>2. o[1] # "aguardando"
      BY <3>1, OutcomesType
    <3> QED
      BY <2>0, <2>3, <3>1, <3>2, PerformedFacts
  <2>5. \/ Perform(w, i, FALSE, i + 1)
        \/ /\ job[w].steps[i] # "aguardando" /\ job'[w].steps = job[w].steps
           /\ job'[w].key = job[w].key /\ job'[w].web = job[w].web /\ job'[w].at = i + 1
    BY <1>4, <2>0, ApproveStepFacts
  <2> QED
    BY <2>3, <2>4, <2>5
<1>5. ASSUME NEW st, NEW s, Decide(w, st, s), pc[w] \in Claimed, NoneWaits(s) PROVE PureInv'
  <2>1. /\ Others(w) /\ OnlyRow(k) /\ steps'[k] = s /\ pc'[w] = "idle" /\ lock' = [lock EXCEPT ![k] = NoWorker]
    BY <1>0, <1>5, DecideFacts
  <2>2. \A u \in Workers \ {w} : job[u].key = k => pc[u] \notin Claimed \cup ResumeAt
    BY <1>0, <1>5 DEF PureInv, ClaimAlone
  <2>3. RowPure(k)' /\ \A h \in Keys \ {k} : lock'[h] = lock[h]
    BY <1>5, <2>1 DEF RowPure, NoneWaits, TypeOK
  <2> QED
    BY <2>1, <2>2, <2>3, NoCopy, PureAlone
<1>6. CASE ApproveSave(w)
  <2>1. \A i \in Idx : i < N + 1
    BY StepsAssumption DEF Idx
  <2>2. NoneWaits(job[w].steps)
    BY <1>6, <2>1 DEF ApproveSave, PureInv, CopyPure, NoneWaits
  <2> QED
    BY <1>5, <1>6, <2>2 DEF ApproveSave, Claimed
<1>7. CASE RejectRefresh(w)
  <2>1. /\ pc[w] = "rejecting" /\ pc'[w] = "rejecting" /\ UNCHANGED <<status, steps, lock>> /\ Others(w)
        /\ job'[w].key = job[w].key /\ job'[w].web = job[w].web /\ job'[w].steps = Recast(steps[job[w].key], "recusado")
    BY <1>7, RejectRefreshFacts DEF still
  <2>2. CopyPure(w)' /\ pc'[w] \notin ResumeAt
    BY <2>1 DEF CopyPure, ResumeAt, NoneWaits, Recast
  <2> QED
    BY <2>1, <2>2, PureStay DEF Claimed
<1>8. CASE RejectSave(w)
  BY <1>5, <1>8 DEF RejectSave, Claimed, PureInv, CopyPure
<1> QED
  BY <1>1, <1>2, <1>3, <1>4, <1>6, <1>7, <1>8 DEF Decision

LEMMA PureRest ==
    ASSUME TypeOK, ResumePoint, TurnInv, PureInv, NEW w \in Workers,
           Resume(w) \/ Expire(w) \/ NotifyOutcome(w) \/ Crash(w)
    PROVE  PureInv'
<1>0. PICK k \in Keys : k = job[w].key
  BY JobFacts
\* A message that was put off is resumed: nobody decides about that run.
<1>1. ASSUME NEW h \in Keys, NEW i \in Idx, ResumeStart(w, h, i) PROVE PureInv'
  <2>1. UNCHANGED <<status, steps, lock>> /\ Others(w) /\ OnlyRow(h)
    BY <1>1, ResumeStartFacts DEF still
  <2>2. CASE pc'[w] = "idle"
    BY <2>1, <2>2, NoCopy, PureStay
  <2>3. CASE pc'[w] = "resume" /\ steps[h][i] = "agendado" /\ job'[w].key = h /\ job'[w].steps = steps[h]
    <3>1. NoneWaits(steps[h]) /\ ~NonePutOff(steps[h])
      BY <2>3 DEF PureInv, RowPure, NonePutOff
    <3>2. \A u \in Workers : job[u].key = h => pc[u] \notin Claimed
      BY <3>1 DEF PureInv, ClaimAlone
    <3>3. CopyPure(w)' /\ RowPure(h)' /\ NoneWaits(steps'[h]) /\ pc'[w] \notin Claimed
      BY <2>1, <2>3, <3>1 DEF CopyPure, RowPure, NoneWaits, Claimed
    <3> QED
      BY <2>1, <2>3, <3>2, <3>3, PureAtRow
  <2> QED
    BY <1>1, <2>2, <2>3, ResumeStartFacts
<1>2. CASE ResumePerform(w)
  <2>0. PICK i \in Idx : i = job[w].at /\ i \in 1..(N + 1)
    BY <1>2, ResumePerformFacts
  <2>1. /\ pc[w] = "resume" /\ pc'[w] = "resumed" /\ \A u \in Workers \ {w} : pc'[u] = pc[u]
        /\ UNCHANGED <<status, steps, lock>>
    BY <1>2, ResumePerformFacts DEF still
  <2>2. ASSUME NEW force \in BOOLEAN, Perform(w, i, force, i) PROVE PureInv'
    <3>1. PICK o \in Outcomes(i, force) : Performed(w, i, o, i)
      BY <2>2 DEF Perform
    <3>2. o[1] # "aguardando"
      BY <3>1, OutcomesType
    <3>3. /\ job'[w].steps[i] = o[1] /\ \A x \in Idx \ {i} : job'[w].steps[x] = job[w].steps[x]
          /\ job'[w].key = job[w].key /\ Others(w)
      BY <2>0, <2>1, <3>1, PerformedFacts DEF Others
    <3>4. CopyPure(w)' /\ pc'[w] \notin Claimed
      BY <2>1, <3>2, <3>3 DEF PureInv, CopyPure, NoneWaits, Claimed
    <3> QED
      BY <2>1, <3>3, <3>4, PureStay DEF ResumeAt
  <2> QED
    BY <1>2, <2>0, <2>2, ResumePerformFacts
<1>3. CASE ResumeSave(w)
  <2>1. /\ pc[w] = "resumed" /\ UNCHANGED lock /\ Others(w) /\ OnlyRow(k) /\ steps'[k] = job[w].steps /\ pc'[w] = "notify"
    BY <1>0, <1>3, ResumeSaveFacts DEF still
  <2>2. NoneWaits(steps'[k])
    BY <2>1 DEF PureInv, CopyPure
  <2>3. \A u \in Workers \ {w} : job[u].key = k => pc[u] \notin Claimed
    BY <1>0, <2>1 DEF PureInv, ClaimAlone, ResumeAt
  <2> QED
    BY <2>1, <2>2, <2>3, NoCopy, PureAtRow DEF RowPure
<1>4. ASSUME NEW h \in Keys, ExpireRead(w, h) PROVE PureInv'
  <2>1. /\ UNCHANGED <<status, steps, lock>> /\ Others(w) /\ pc'[w] = "expire" /\ status[h] = "pending_approval"
        /\ job'[w].steps = Recast(steps[h], "expirado")
    BY <1>4, ExpireReadFacts DEF still
  <2>2. NonePutOff(steps[h])
    BY <2>1 DEF TurnInv, PendingWaits, PureInv, RowPure, NoneWaits
  <2>3. CopyPure(w)' /\ pc'[w] \notin Claimed \cup ResumeAt
    BY <2>1, <2>2 DEF CopyPure, NoneWaits, NonePutOff, Recast, Claimed, ResumeAt
  <2> QED
    BY <2>1, <2>3, PureStay
<1>5. CASE ExpireSave(w)
  <2>1. /\ pc[w] = "expire" /\ UNCHANGED lock /\ Others(w) /\ OnlyRow(k) /\ status'[k] = "expired"
        /\ steps'[k] = job[w].steps /\ pc'[w] = "idle"
    BY <1>0, <1>5, ExpireSaveFacts DEF still
  <2>2. NoneWaits(steps'[k]) /\ NonePutOff(steps'[k])
    BY <2>1 DEF PureInv, CopyPure
  <2>3. ASSUME NEW u \in Workers \ {w}, job[u].key = k, pc[u] \in Claimed PROVE Has(u)'
    BY <2>1, <2>3 DEF PureInv, ClaimAlone, Has, Others
  <2> QED
    BY <2>1, <2>2, <2>3, NoCopy, PureAtRow DEF RowPure
<1>6. CASE NotifyOutcome(w)
  BY <1>6, NotifyFacts, NoCopy, PureStay DEF still
<1>7. CASE Crash(w)
  <2>1. /\ UNCHANGED <<status, steps>> /\ Others(w) /\ OnlyRow(k) /\ pc'[w] = "idle"
        /\ lock' = IF lock[k] = w THEN [lock EXCEPT ![k] = NoWorker] ELSE lock
    BY <1>0, <1>7, CrashFacts
  <2>2. \A h \in Keys \ {k} : lock'[h] = lock[h]
    BY <2>1 DEF TypeOK
  <2>3. RowPure(k)'
    BY <2>1 DEF PureInv, RowPure, NoneWaits, NonePutOff
  <2>4. ASSUME NEW u \in Workers \ {w}, job[u].key = k
        PROVE  /\ pc[u] \in Claimed => Has(u)' /\ NonePutOff(steps'[k])
               /\ pc[u] \in ResumeAt => NoneWaits(steps'[k])
    <3>1. Has(u) => Has(u)'
      BY <2>1, <2>4 DEF Has, Others
    <3> QED
      BY <2>1, <2>4, <3>1 DEF PureInv, ClaimAlone, ResumedLate, NonePutOff, NoneWaits
  <2> QED
    BY <2>1, <2>2, <2>3, <2>4, NoCopy, PureAtRow
<1> QED
  BY <1>1, <1>2, <1>3, <1>4, <1>5, <1>6, <1>7 DEF Resume, Expire

LEMMA PureStep == Uniform /\ TypeOK /\ ResumePoint /\ TurnInv /\ PureInv /\ [Next]_vars => PureInv'
<1> SUFFICES ASSUME Uniform, TypeOK, ResumePoint, TurnInv, PureInv, [Next]_vars PROVE PureInv'
  OBVIOUS
<1>1. CASE \E w \in Workers : Execute(w) \/ Decision(w) \/ Resume(w) \/ Expire(w) \/ NotifyOutcome(w) \/ Crash(w)
  BY <1>1, PureExecute, PureDecision, PureRest
<1>2. CASE OfficeHours \/ ContactChoice \/ SwitchRule \/ UNCHANGED vars \/ \E k \in Keys : GrowOld(k)
  <2>1. UNCHANGED <<status, steps, lock, pc, job>>
    BY <1>2 DEF OfficeHours, ContactChoice, SwitchRule, vars, GrowOld, row, env, hist
  <2> QED
    BY <2>1 DEF PureInv, RowPure, CopyPure, ClaimAlone, ResumedLate, Has, NoneWaits, NonePutOff
<1> QED
  BY <1>1, <1>2 DEF Next

LEMMA PureInit == Init => PureInv
<1> SUFFICES ASSUME Init PROVE PureInv
  OBVIOUS
<1>1. \A w \in Workers : pc[w] = "idle"
  BY DEF Init
<1>2. \A k \in Keys : NoneWaits(steps[k])
  BY DEF Init, NoSteps, NoneWaits
<1> QED
  BY <1>1, <1>2 DEF PureInv, RowPure, CopyPure, ClaimAlone, ResumedLate, Claimed, ResumeAt

\* No step puts a decided run up for decision again.
LEMMA StaysDecided ==
    ASSUME TypeOK, TurnInv, PureInv, [Next]_vars, NEW h \in Keys, Decided(h)
    PROVE  status'[h] \notin {"pending_approval", "running"}
<1>1. ASSUME UNCHANGED status PROVE status'[h] \notin {"pending_approval", "running"}
  BY <1>1 DEF Decided
<1>2. CASE OfficeHours \/ ContactChoice \/ SwitchRule \/ UNCHANGED vars \/ \E k \in Keys : GrowOld(k)
  BY <1>1, <1>2 DEF OfficeHours, ContactChoice, SwitchRule, vars, GrowOld, row
<1>3. ASSUME NEW w \in Workers,
             Execute(w) \/ Decision(w) \/ Resume(w) \/ Expire(w) \/ NotifyOutcome(w) \/ Crash(w)
      PROVE  status'[h] \notin {"pending_approval", "running"}
  <2>0. PICK k \in Keys : k = job[w].key
    BY JobFacts
  <2>1. ASSUME OnlyRow(k), ~Decided(k) \/ status'[k] \notin {"pending_approval", "running"}
        PROVE  status'[h] \notin {"pending_approval", "running"}
    BY <2>1 DEF OnlyRow, Decided
  <2>2. CASE Execute(w)
    <3>1. CASE \E x \in Keys : ExecuteStart(w, x)
      BY <1>1, <3>1, StartFacts
    <3>2. CASE ExecuteInsert(w)
      BY <1>1, <2>0, <2>1, <3>2, InsertFacts DEF Decided
    <3>3. CASE ExecuteOverLimit(w)
      BY <2>0, <2>1, <3>3, OverLimitFacts
    <3>4. CASE ExecuteDisableRule(w)
      BY <1>1, <3>4, DisableFacts
    <3>5. CASE ExecuteSkip(w)
      BY <2>0, <2>1, <3>5, SkipFacts
    <3>6. CASE ExecutePlan(w)
      BY <1>1, <3>6, PlanFacts
    <3>7. CASE ExecuteStep(w)
      BY <1>1, <3>7, ExecuteStepFacts
    <3>8. CASE ExecuteSave(w)
      <4>1. pc[w] = "perform" /\ OnlyRow(k)
        BY <2>0, <3>8, ExecuteSaveFacts
      <4>2. status[k] = "running"
        BY <2>0, <4>1 DEF TurnInv, OneExecutor
      <4> QED
        BY <2>1, <4>1, <4>2 DEF Decided
    <3> QED
      BY <2>2, <3>1, <3>2, <3>3, <3>4, <3>5, <3>6, <3>7, <3>8 DEF Execute
  <2>3. CASE Decision(w)
    <3>1. CASE \E x \in Keys, web, approving \in BOOLEAN : DecideStart(w, x, web, approving)
      BY <1>1, <3>1, DecideStartFacts
    <3>2. CASE Claim(w)
      BY <1>1, <2>0, <2>1, <3>2, ClaimFacts DEF Decided
    <3>3. CASE Refresh(w) \/ ApproveStep(w) \/ RejectRefresh(w)
      BY <1>1, <3>3, RefreshFacts, ApproveStepFacts, RejectRefreshFacts
    <3>4. CASE ApproveSave(w)
      <4>1. pc[w] = "approving" /\ job[w].at = N + 1 /\ Decide(w, FinalStatus(job[w].steps), job[w].steps)
        BY <3>4 DEF ApproveSave
      <4>2. \A i \in Idx : i < N + 1
        BY StepsAssumption DEF Idx
      <4>3. \A i \in Idx : job[w].steps[i] # "aguardando"
        BY <4>1, <4>2 DEF PureInv, CopyPure
      <4>4. FinalStatus(job[w].steps) \notin {"pending_approval", "running"}
        BY <4>3, FinalStatusFacts
      <4> QED
        BY <2>0, <2>1, <4>1, <4>4, DecideFacts
    <3>5. CASE RejectSave(w)
      <4>1. Decide(w, "rejected", job[w].steps)
        BY <3>5 DEF RejectSave
      <4> QED
        BY <2>0, <2>1, <4>1, DecideFacts
    <3> QED
      BY <2>3, <3>1, <3>2, <3>3, <3>4, <3>5 DEF Decision
  <2>4. CASE Resume(w)
    <3>1. CASE \E x \in Keys, i \in Idx : ResumeStart(w, x, i)
      BY <1>1, <3>1, ResumeStartFacts
    <3>2. CASE ResumePerform(w)
      BY <1>1, <3>2 DEF ResumePerform, row
    <3>3. CASE ResumeSave(w)
      <4>1. pc[w] = "resumed" /\ OnlyRow(k) /\ status'[k] = FinalStatus(job[w].steps)
        BY <2>0, <3>3, ResumeSaveFacts
      <4>2. \A i \in Idx : job[w].steps[i] # "aguardando"
        BY <4>1 DEF PureInv, CopyPure, NoneWaits
      <4> QED
        BY <2>1, <4>1, <4>2, FinalStatusFacts
    <3> QED
      BY <2>4, <3>1, <3>2, <3>3 DEF Resume
  <2>5. CASE Expire(w)
    <3>1. CASE \E x \in Keys : ExpireRead(w, x)
      BY <1>1, <3>1, ExpireReadFacts
    <3>2. CASE ExpireSave(w)
      BY <2>0, <2>1, <3>2, ExpireSaveFacts
    <3> QED
      BY <2>5, <3>1, <3>2 DEF Expire
  <2>6. CASE NotifyOutcome(w) \/ Crash(w)
    BY <1>1, <2>6, NotifyFacts, CrashFacts
  <2> QED
    BY <1>3, <2>2, <2>3, <2>4, <2>5, <2>6
<1> QED
  BY <1>2, <1>3 DEF Next

\* A run that was decided is not put up for decision again, and does not run again.
THEOREM DecidedForGood == Uniform /\ Spec => NeverReopened
<1>1. Init => TypeOK /\ ResumePoint /\ RecordInv /\ TurnInv /\ PureInv
  BY TypeInit, RecordInit, TurnInit, PureInit DEF Init, ResumePoint
<1>2. TypeOK /\ TurnInv /\ PureInv /\ [Next]_vars =>
         [\A k \in Keys : Decided(k) => status'[k] \notin {"pending_approval", "running"}]_vars
  BY StaysDecided
<1>3. Uniform => Uniform'
  BY DEF Uniform
<1> QED
  BY <1>1, <1>2, <1>3, TypeStep, ResumePointStep, RecordStep, TurnStep, PureStep, PTL DEF Spec, NeverReopened

(***************************************************************************)
(* No effect twice, while nobody dies.  A step that was put off has a      *)
(* timer or an effect and never both, and whoever is about to perform one  *)
(* knows that it has neither.                                              *)
(***************************************************************************)
OneUse(k) == \A i \in Idx : effects[k][i] + timers[k][i] <= 1
PendingUnused(k) ==
    \A i \in Idx : status[k] = "pending_approval" /\ Unlocked(k) /\ steps[k][i] = "aguardando" => Unused(k, i)
ClaimedUnused(w) ==
    \A i \in Idx :
        /\ pc[w] = "refresh" /\ steps[job[w].key][i] = "aguardando" => Unused(job[w].key, i)
        /\ pc[w] = "approving" /\ i >= job[w].at /\ job[w].steps[i] = "aguardando" => Unused(job[w].key, i)
        /\ pc[w] \in DecideAt /\ i \in job[w].held =>
              pc[w] = "approving" /\ i < job[w].at /\ Unused(job[w].key, i)
ResumedUnused(w) ==
    pc[w] = "resume" =>
        /\ Unused(job[w].key, job[w].at)
        /\ \A u \in Workers \ {w} : pc[u] = "resume" /\ job[u].key = job[w].key => job[u].at # job[w].at

UseInv ==
    /\ \A k \in Keys : OneUse(k) /\ PendingUnused(k)
    /\ \A w \in Workers : ClaimedUnused(w) /\ ResumedUnused(w)
OnceInv == crashes = 0 => UseInv

LEMMA NoUse ==
    ASSUME NEW w \in Workers, pc'[w] \notin DecideAt \cup {"resume"}
    PROVE  ClaimedUnused(w)' /\ ResumedUnused(w)'
BY DEF ClaimedUnused, ResumedUnused, DecideAt

\* A step of one process at one row.
LEMMA UseAtRow ==
    ASSUME TypeOK, UseInv, NEW w \in Workers, NEW k \in Keys, Others(w), OnlyRow(k),
           \A h \in Keys \ {k} : lock'[h] = lock[h],
           OneUse(k)', PendingUnused(k)', ClaimedUnused(w)', ResumedUnused(w)',
           \A u \in Workers \ {w} : job[u].key = k =>
              ClaimedUnused(u)' /\ (pc[u] = "resume" => Unused(k, job[u].at)')
    PROVE  UseInv'
<1>0. \A u \in Workers : job[u].key \in Keys
  BY JobFacts
<1>1. ASSUME NEW h \in Keys PROVE OneUse(h)' /\ PendingUnused(h)'
  BY DEF UseInv, OneUse, PendingUnused, OnlyRow, Unlocked, Unused
<1>2. ASSUME NEW u \in Workers PROVE ClaimedUnused(u)'
  <2>1. CASE u = w \/ job[u].key = k
    BY <2>1
  <2>2. CASE u # w /\ job[u].key # k
    BY <1>0, <2>2 DEF UseInv, ClaimedUnused, Others, OnlyRow, Unused
  <2> QED
    BY <2>1, <2>2
<1>3. ASSUME NEW u \in Workers, pc'[u] = "resume"
      PROVE  /\ Unused(job[u].key, job[u].at)'
             /\ \A v \in Workers \ {u} : pc'[v] = "resume" /\ job'[v].key = job'[u].key => job'[v].at # job'[u].at
  <2>1. CASE u = w
    BY <1>3, <2>1 DEF ResumedUnused
  <2>2. CASE u # w
    <3>1. pc[u] = "resume" /\ job'[u] = job[u]
      BY <1>3, <2>2 DEF Others
    <3>2. Unused(job[u].key, job[u].at)
      BY <3>1 DEF UseInv, ResumedUnused
    <3>3. Unused(job[u].key, job[u].at)'
      <4>1. CASE job[u].key = k
        BY <2>2, <3>1, <4>1 DEF Unused
      <4>2. CASE job[u].key # k
        BY <1>0, <3>1, <3>2, <4>2 DEF Unused, OnlyRow
      <4> QED
        BY <4>1, <4>2
    <3>4. pc'[w] = "resume" /\ job'[w].key = job'[u].key => job'[w].at # job'[u].at
      BY <1>3, <2>2 DEF ResumedUnused
    <3>5. ASSUME NEW v \in Workers, v # u, v # w, pc'[v] = "resume", job'[v].key = job'[u].key
          PROVE  job'[v].at # job'[u].at
      BY <3>1, <3>5 DEF UseInv, ResumedUnused, Others
    <3> QED
      BY <3>3, <3>4, <3>5
  <2> QED
    BY <2>1, <2>2
<1> QED
  BY <1>1, <1>2, <1>3 DEF UseInv, ResumedUnused

\* A step at a row at which nobody else decides or resumes.
LEMMA UseAlone ==
    ASSUME TypeOK, UseInv, NEW w \in Workers, NEW k \in Keys, Others(w), OnlyRow(k),
           \A h \in Keys \ {k} : lock'[h] = lock[h],
           OneUse(k)', PendingUnused(k)', ClaimedUnused(w)', ResumedUnused(w)',
           \A u \in Workers \ {w} : job[u].key = k => pc[u] \notin Claimed \cup ResumeAt
    PROVE  UseInv'
<1>1. ASSUME NEW u \in Workers \ {w}, job[u].key = k
      PROVE  ClaimedUnused(u)' /\ pc[u] # "resume"
  <2>1. pc'[u] = pc[u] /\ job'[u] = job[u] /\ pc[u] \notin {"refresh", "approving", "resume"}
    BY <1>1 DEF Others, Claimed, ResumeAt
  <2> QED
    BY <2>1 DEF UseInv, ClaimedUnused
<1> QED
  BY <1>1, UseAtRow

\* A step that touches no row.
LEMMA UseStay ==
    ASSUME TypeOK, UseInv, NEW w \in Workers, Others(w), UNCHANGED <<status, steps, effects, timers, lock>>,
           ClaimedUnused(w)', pc'[w] # "resume"
    PROVE  UseInv'
<1>1. ASSUME NEW k \in Keys PROVE OneUse(k)' /\ PendingUnused(k)'
  BY DEF UseInv, OneUse, PendingUnused, Unlocked, Unused
<1>2. ASSUME NEW u \in Workers PROVE ClaimedUnused(u)' /\ ResumedUnused(u)'
  <2>1. CASE u = w
    BY <2>1 DEF ResumedUnused
  <2>2. CASE u # w
    BY <2>2 DEF UseInv, ClaimedUnused, ResumedUnused, Others, Unused
  <2> QED
    BY <2>1, <2>2
<1> QED
  BY <1>1, <1>2 DEF UseInv

LEMMA UseExecute ==
    ASSUME TypeOK, TurnInv, PureInv, UseInv, NEW w \in Workers, Execute(w)
    PROVE  UseInv'
<1>0. PICK k \in Keys : k = job[w].key
  BY JobFacts
<1>t. \A i \in Idx : effects[k][i] \in Nat /\ timers[k][i] \in Nat
  BY JobFacts
<1>1. CASE \E h \in Keys : ExecuteStart(w, h)
  <2>1. pc'[w] \notin DecideAt \cup {"resume"}
    BY <1>1, StartFacts DEF DecideAt
  <2> QED
    BY <1>1, <2>1, StartFacts, NoUse, UseStay DEF still
\* The executor is alone at its run, which is not up for decision before it is saved.
<1>2. ASSUME pc[w] \in {"check", "perform"}, Others(w), OnlyRow(k), UNCHANGED lock,
             pc'[w] \in {"idle", "disable", "notify", "perform"}, OneUse(k)', PendingUnused(k)'
      PROVE  UseInv'
  <2>1. \A u \in Workers \ {w} : job[u].key = k => pc[u] \notin Claimed \cup ResumeAt
    BY <1>0, <1>2 DEF TurnInv, OneExecutor, Claimed, ResumeAt
  <2>2. pc'[w] \notin DecideAt \cup {"resume"}
    BY <1>2 DEF DecideAt
  <2> QED
    BY <1>2, <2>1, <2>2, NoUse, UseAlone
<1>3. CASE ExecuteInsert(w)
  <2>1. UNCHANGED <<steps, effects, timers, lock>> /\ Others(w)
    BY <1>3, InsertFacts DEF still
  <2>2. CASE UNCHANGED status /\ pc'[w] = "idle"
    <3>1. pc'[w] \notin DecideAt \cup {"resume"}
      BY <2>2 DEF DecideAt
    <3> QED
      BY <2>1, <2>2, <3>1, NoUse, UseStay
  <2>3. CASE status[k] = "ausente" /\ status'[k] = "running" /\ OnlyRow(k) /\ pc'[w] = "check"
    <3>1. \A u \in Workers \ {w} : job[u].key = k => pc[u] \notin Claimed \cup ResumeAt
      BY <2>3 DEF TurnInv, NotBegun, Claimed, ResumeAt
    <3>2. pc'[w] \notin DecideAt \cup {"resume"}
      BY <2>3 DEF DecideAt
    <3>3. OneUse(k)' /\ PendingUnused(k)'
      BY <2>1, <2>3 DEF UseInv, OneUse, PendingUnused
    <3> QED
      BY <2>1, <2>3, <3>1, <3>2, <3>3, NoUse, UseAlone
  <2> QED
    BY <1>0, <1>3, <2>2, <2>3, InsertFacts
<1>4. ASSUME UNCHANGED <<effects, timers>> PROVE OneUse(k)'
  BY <1>4 DEF UseInv, OneUse
<1>5. CASE ExecuteOverLimit(w)
  <2>1. PendingUnused(k)'
    BY <1>0, <1>5, OverLimitFacts DEF PendingUnused
  <2> QED
    BY <1>0, <1>2, <1>4, <1>5, <2>1, OverLimitFacts DEF still
<1>6. CASE ExecuteDisableRule(w)
  <2>1. pc'[w] \notin DecideAt \cup {"resume"}
    BY <1>6, DisableFacts DEF DecideAt
  <2> QED
    BY <1>6, <2>1, DisableFacts, NoUse, UseStay DEF still
<1>7. CASE ExecuteSkip(w)
  <2>1. PendingUnused(k)'
    BY <1>0, <1>7, SkipFacts DEF PendingUnused
  <2> QED
    BY <1>0, <1>2, <1>4, <1>7, <2>1, SkipFacts DEF still
<1>8. CASE ExecutePlan(w)
  <2>1. pc'[w] \notin DecideAt \cup {"resume"}
    BY <1>8, PlanFacts DEF DecideAt
  <2> QED
    BY <1>8, <2>1, PlanFacts, NoUse, UseStay DEF still
\* A step still to come was not used, so it may be now.
<1>9. CASE ExecuteStep(w)
  <2>0. PICK i \in Idx : i = job[w].at /\ i + 1 \in 1..(N + 1)
    BY <1>9, ExecuteStepFacts
  <2>1. pc[w] = "perform" /\ UNCHANGED <<pc, status, steps, lock>> /\ Others(w)
    BY <1>9, ExecuteStepFacts DEF still
  <2>2. status[k] = "running" /\ Unused(k, i)
    <3>1. i >= job[w].at
      BY <2>0 DEF Idx
    <3> QED
      BY <1>0, <2>0, <2>1, <3>1 DEF TurnInv, OneExecutor, StillToCome
  <2>3. ASSUME NEW force \in BOOLEAN, Perform(w, i, force, i + 1) PROVE UseInv'
    <3>1. PICK o \in Outcomes(i, force) : Performed(w, i, o, i + 1)
      BY <2>3 DEF Perform
    <3>2. o[2] \in {0, 1} /\ (o[1] = "agendado" => o[2] = 0)
      BY <3>1, OutcomesType
    <3>3. /\ effects'[k][i] = effects[k][i] + o[2]
          /\ timers'[k][i] = timers[k][i] + (IF o[1] = "agendado" /\ ~job[w].web THEN 1 ELSE 0)
          /\ \A x \in Idx \ {i} : effects'[k][x] = effects[k][x] /\ timers'[k][x] = timers[k][x]
      BY <1>0, <2>0, <3>1, PerformedFacts
    <3>4. effects'[k][i] + timers'[k][i] <= 1
      BY <2>2, <3>2, <3>3 DEF Unused
    <3>5. OneUse(k)'
      BY <3>3, <3>4 DEF UseInv, OneUse
    <3>6. PendingUnused(k)'
      BY <2>1, <2>2 DEF PendingUnused
    <3>7. OnlyRow(k)
      BY <1>0, <2>0, <2>1, <2>3, PerformedOnly
    <3> QED
      BY <1>2, <2>1, <3>5, <3>6, <3>7
  <2>4. CASE UNCHANGED <<effects, timers>>
    <3>1. pc'[w] \notin DecideAt \cup {"resume"}
      BY <2>1 DEF DecideAt
    <3> QED
      BY <2>1, <2>4, <3>1, NoUse, UseStay
  <2>5. Perform(w, i, FALSE, i + 1) \/ UNCHANGED <<effects, timers>>
    BY <1>9, <2>0, ExecuteStepFacts
  <2> QED
    BY <2>3, <2>4, <2>5
<1>10. CASE ExecuteSave(w)
  <2>1. /\ pc[w] = "perform" /\ steps'[k] = job[w].steps /\ UNCHANGED <<effects, timers, lock>>
    BY <1>0, <1>10, ExecuteSaveFacts DEF still
  <2>2. \A i \in Idx : job[w].steps[i] = "aguardando" => Unused(k, i)
    BY <1>0, <2>1 DEF TurnInv, StillToCome
  <2>3. PendingUnused(k)'
    BY <2>1, <2>2 DEF PendingUnused, Unused
  <2> QED
    BY <1>0, <1>2, <1>4, <1>10, <2>1, <2>3, ExecuteSaveFacts
<1> QED
  BY <1>1, <1>3, <1>5, <1>6, <1>7, <1>8, <1>9, <1>10 DEF Execute

LEMMA UseDecision ==
    ASSUME TypeOK, TurnInv, PureInv, UseInv, NEW w \in Workers, Decision(w)
    PROVE  UseInv'
<1>0. PICK k \in Keys : k = job[w].key
  BY JobFacts
<1>t. \A i \in Idx : effects[k][i] \in Nat /\ timers[k][i] \in Nat
  BY JobFacts
<1>1. CASE \E h \in Keys, web, approving \in BOOLEAN : DecideStart(w, h, web, approving)
  <2>1. ClaimedUnused(w)' /\ pc'[w] # "resume"
    BY <1>1, DecideStartFacts DEF ClaimedUnused
  <2> QED
    BY <1>1, <2>1, DecideStartFacts, UseStay DEF still
\* A process that goes on with a decision is alone at its run, and the row is not free to be claimed.
<1>a. ASSUME pc[w] \in Claimed
      PROVE  /\ \A u \in Workers \ {w} : job[u].key = k => pc[u] \notin Claimed \cup ResumeAt
             /\ ~(status[k] = "pending_approval" /\ Unlocked(k))
             /\ \A i \in job[w].held : pc[w] = "approving" /\ i < job[w].at /\ Unused(k, i)
  <2>1. ClaimAlone(w) /\ ClaimedUnused(w) /\ w # NoWorker /\ job[w].held \subseteq Idx
    BY KeysAssumption, JobFacts DEF PureInv, UseInv
  <2> QED
    BY <1>0, <1>a, <2>1 DEF ClaimAlone, Has, Unlocked, ClaimedUnused, Claimed, DecideAt
<1>2. CASE Claim(w)
  <2>0. /\ UNCHANGED <<steps, effects, timers>> /\ Others(w) /\ OnlyRow(k) /\ pc[w] \in {"claim", "claimReject"}
        /\ lock[k] = NoWorker
    BY <1>0, <1>2, ClaimFacts DEF Unlocked
  <2>1. CASE UNCHANGED <<status, lock>> /\ pc'[w] = "idle"
    <3>1. pc'[w] \notin DecideAt \cup {"resume"}
      BY <2>1 DEF DecideAt
    <3> QED
      BY <2>0, <2>1, <3>1, NoUse, UseStay
  <2>2. CASE /\ status[k] = "pending_approval" /\ pc'[w] \in {"refresh", "rejecting"} /\ job'[w] = job[w]
             /\ \/ job[w].web /\ lock' = [lock EXCEPT ![k] = w] /\ UNCHANGED status
                \/ ~job[w].web /\ status'[k] = "running" /\ UNCHANGED lock
    <3>1. \A u \in Workers : job[u].key = k => pc[u] \notin Claimed \cup ResumeAt
      BY <2>0, <2>2, NobodyDecides
    <3>2. /\ \A h \in Keys \ {k} : lock'[h] = lock[h]
          /\ ~(status'[k] = "pending_approval" /\ lock'[k] = NoWorker)
      BY <2>0, <2>2, KeysAssumption DEF TypeOK
    <3>3. OneUse(k)' /\ PendingUnused(k)'
      BY <2>0, <3>2 DEF UseInv, OneUse, PendingUnused, Unlocked
    <3>4. \A i \in Idx : steps[k][i] = "aguardando" => Unused(k, i)
      BY <2>0, <2>2 DEF UseInv, PendingUnused, Unlocked
    <3>5. \A i \in Idx : i \notin job[w].held
      BY <2>0 DEF UseInv, ClaimedUnused, DecideAt
    <3>6. ClaimedUnused(w)' /\ ResumedUnused(w)'
      BY <1>0, <2>0, <2>2, <3>4, <3>5 DEF ClaimedUnused, ResumedUnused, Unused
    <3> QED
      BY <2>0, <3>1, <3>2, <3>3, <3>6, UseAlone
  <2> QED
    BY <1>0, <1>2, <2>1, <2>2, ClaimFacts
<1>3. CASE Refresh(w)
  <2>1. /\ pc[w] = "refresh" /\ UNCHANGED <<status, steps, effects, timers, lock>> /\ Others(w) /\ pc'[w] = "approving"
        /\ job'[w].key = k /\ job'[w].held = job[w].held /\ job'[w].steps = steps[k]
    BY <1>0, <1>3, RefreshFacts DEF still
  <2>2. job[w].held = {} /\ \A i \in Idx : steps[k][i] = "aguardando" => Unused(k, i)
    BY <1>0, <1>a, <2>1 DEF Claimed, UseInv, ClaimedUnused
  <2>3. ClaimedUnused(w)'
    BY <2>1, <2>2 DEF ClaimedUnused, Unused
  <2> QED
    BY <2>1, <2>3, UseStay
\* What waits in the copy was not used; a put-off message is held back until the commit.
<1>4. CASE ApproveStep(w)
  <2>0. PICK i \in Idx : i = job[w].at /\ i + 1 \in 1..(N + 1)
    BY <1>4, ApproveStepFacts
  <2>1. pc[w] = "approving" /\ pc'[w] = "approving" /\ UNCHANGED <<status, steps, lock>> /\ Others(w)
    BY <1>4, ApproveStepFacts DEF still
  <2>2. /\ \A x \in Idx : x >= i /\ job[w].steps[x] = "aguardando" => Unused(k, x)
        /\ \A x \in job[w].held : x < i /\ Unused(k, x)
        /\ job[w].held \subseteq Idx
    BY <1>0, <1>a, <2>0, <2>1, JobFacts DEF UseInv, ClaimedUnused, Claimed
  <2>3. \A x \in Idx : x \in Nat /\ (x >= i + 1 => x >= i /\ x # i) /\ (x < i => x < i + 1 /\ x # i) /\ i < i + 1
    BY DEF Idx
  <2>4. ASSUME NEW force \in BOOLEAN, Perform(w, i, force, i + 1), job[w].steps[i] = "aguardando" PROVE UseInv'
    <3>1. PICK o \in Outcomes(i, force) : Performed(w, i, o, i + 1)
      BY <2>4 DEF Perform
    <3>2. o[2] \in {0, 1} /\ (o[1] = "agendado" => o[2] = 0) /\ o[1] # "aguardando"
      BY <3>1, OutcomesType
    <3>3. /\ effects'[k][i] = effects[k][i] + o[2]
          /\ timers'[k][i] = timers[k][i] + (IF o[1] = "agendado" /\ ~job[w].web THEN 1 ELSE 0)
          /\ \A x \in Idx \ {i} : effects'[k][x] = effects[k][x] /\ timers'[k][x] = timers[k][x]
      BY <1>0, <2>0, <3>1, PerformedFacts
    <3>4. /\ job'[w].key = k /\ job'[w].at = i + 1
          /\ job'[w].held = job[w].held \cup (IF o[1] = "agendado" /\ job[w].web THEN {i} ELSE {})
          /\ job'[w].steps[i] = o[1]
          /\ \A x \in Idx \ {i} : job'[w].steps[x] = job[w].steps[x]
      BY <1>0, <2>0, <3>1, PerformedFacts
    <3>5. Unused(k, i)
      BY <2>0, <2>2, <2>4 DEF Idx
    <3>6. effects'[k][i] + timers'[k][i] <= 1
      BY <3>2, <3>3, <3>5 DEF Unused
    <3>7. OneUse(k)'
      BY <3>3, <3>6 DEF UseInv, OneUse
    <3>8. PendingUnused(k)'
      BY <1>a, <2>1 DEF PendingUnused, Unlocked, Claimed
    <3>9. \A x \in Idx : x >= i + 1 /\ job'[w].steps[x] = "aguardando" => Unused(k, x)'
      BY <2>2, <2>3, <3>3, <3>4 DEF Unused
    <3>10. ASSUME NEW x \in Idx, x \in job'[w].held PROVE x < i + 1 /\ Unused(k, x)'
      <4>1. CASE x \in job[w].held
        BY <2>2, <2>3, <3>3, <4>1 DEF Unused
      <4>2. CASE x = i /\ o[1] = "agendado" /\ job[w].web
        BY <2>3, <3>2, <3>3, <3>5, <4>2 DEF Unused
      <4> QED
        BY <3>4, <3>10, <4>1, <4>2
    <3>11. ClaimedUnused(w)' /\ ResumedUnused(w)'
      BY <2>1, <3>4, <3>9, <3>10 DEF ClaimedUnused, ResumedUnused
    <3>12. OnlyRow(k)
      BY <1>0, <2>0, <2>1, <2>4, PerformedOnly
    <3> QED
      BY <1>a, <2>1, <3>7, <3>8, <3>11, <3>12, UseAlone DEF Claimed
  <2>5. ASSUME UNCHANGED <<effects, timers>>, job'[w].key = k, job'[w].at = i + 1, job'[w].steps = job[w].steps,
               job'[w].held = job[w].held
        PROVE  UseInv'
    <3>1. ClaimedUnused(w)'
      BY <2>1, <2>2, <2>3, <2>5 DEF ClaimedUnused, Unused
    <3> QED
      BY <2>1, <2>5, <3>1, UseStay
  <2>6. \/ Perform(w, i, FALSE, i + 1) /\ job[w].steps[i] = "aguardando"
        \/ /\ UNCHANGED <<effects, timers>> /\ job'[w].key = k /\ job'[w].at = i + 1
           /\ job'[w].steps = job[w].steps /\ job'[w].held = job[w].held
    BY <1>0, <1>4, <2>0, ApproveStepFacts
  <2> QED
    BY <2>4, <2>5, <2>6
<1>5. ASSUME NEW st, NEW s, Decide(w, st, s), pc[w] \in Claimed, st # "pending_approval" PROVE UseInv'
  <2>1. /\ Others(w) /\ OnlyRow(k) /\ status'[k] = st /\ pc'[w] = "idle" /\ UNCHANGED effects
        /\ lock' = [lock EXCEPT ![k] = NoWorker]
        /\ \A i \in Idx : timers'[k][i] = timers[k][i] + (IF i \in job[w].held THEN 1 ELSE 0)
    BY <1>0, <1>5, DecideFacts
  <2>2. ASSUME NEW i \in Idx PROVE effects'[k][i] + timers'[k][i] <= 1
    <3>1. CASE i \in job[w].held
      BY <1>5, <1>a, <2>1, <3>1 DEF Unused
    <3>2. CASE i \notin job[w].held
      BY <1>t, <2>1, <3>2 DEF UseInv, OneUse
    <3> QED
      BY <3>1, <3>2
  <2>3. OneUse(k)' /\ PendingUnused(k)' /\ \A h \in Keys \ {k} : lock'[h] = lock[h]
    BY <1>5, <2>1, <2>2 DEF OneUse, PendingUnused, TypeOK
  <2>4. pc'[w] \notin DecideAt \cup {"resume"}
    BY <2>1 DEF DecideAt
  <2> QED
    BY <1>5, <1>a, <2>1, <2>3, <2>4, NoUse, UseAlone
<1>6. CASE ApproveSave(w)
  <2>1. \A i \in Idx : i < N + 1
    BY StepsAssumption DEF Idx
  <2>2. \A i \in Idx : job[w].steps[i] # "aguardando"
    BY <1>6, <2>1 DEF ApproveSave, PureInv, CopyPure
  <2>3. FinalStatus(job[w].steps) # "pending_approval"
    BY <2>2, FinalStatusFacts
  <2> QED
    BY <1>5, <1>6, <2>3 DEF ApproveSave, Claimed
<1>7. CASE RejectRefresh(w)
  <2>1. /\ pc[w] = "rejecting" /\ UNCHANGED <<status, steps, effects, timers, lock>> /\ Others(w) /\ pc'[w] = "rejecting"
        /\ job'[w].held = job[w].held
    BY <1>7, RejectRefreshFacts DEF still
  <2>2. job[w].held = {}
    BY <1>a, <2>1 DEF Claimed
  <2>3. ClaimedUnused(w)'
    BY <2>1, <2>2 DEF ClaimedUnused
  <2> QED
    BY <2>1, <2>3, UseStay
<1>8. CASE RejectSave(w)
  BY <1>5, <1>8 DEF RejectSave, Claimed
<1> QED
  BY <1>1, <1>2, <1>3, <1>4, <1>6, <1>7, <1>8 DEF Decision

LEMMA UseRest ==
    ASSUME TypeOK, ResumePoint, TurnInv, PureInv, UseInv, NEW w \in Workers,
           Resume(w) \/ Expire(w) \/ NotifyOutcome(w)
    PROVE  UseInv'
<1>0. PICK k \in Keys : k = job[w].key
  BY JobFacts
\* The timer that is taken was all there was of that step.
<1>1. ASSUME NEW h \in Keys, NEW i \in Idx, ResumeStart(w, h, i) PROVE UseInv'
  <2>1. /\ UNCHANGED <<status, steps, effects, lock>> /\ Others(w) /\ OnlyRow(h)
        /\ timers[h][i] > 0 /\ timers'[h][i] = timers[h][i] - 1
        /\ \A x \in Idx \ {i} : timers'[h][x] = timers[h][x]
    BY <1>1, ResumeStartFacts DEF still
  <2>2. \A x \in Idx : effects[h][x] \in Nat /\ timers[h][x] \in Nat
    BY JobFacts
  <2>3. Unused(h, i)' /\ ~Unused(h, i)
    BY <2>1, <2>2 DEF UseInv, OneUse, Unused
  <2>4. ASSUME NEW x \in Idx, Unused(h, x) PROVE Unused(h, x)'
    BY <2>1, <2>3, <2>4 DEF Unused
  <2>5. OneUse(h)'
    BY <2>1, <2>2 DEF UseInv, OneUse
  <2>6. PendingUnused(h)'
    BY <2>1, <2>4 DEF UseInv, PendingUnused, Unlocked
  <2>7. ASSUME NEW u \in Workers \ {w}, job[u].key = h
        PROVE  ClaimedUnused(u)' /\ (pc[u] = "resume" => Unused(h, job[u].at)')
    <3>1. pc'[u] = pc[u] /\ job'[u] = job[u]
      BY <2>1 DEF Others
    <3>2. ClaimedUnused(u)'
      BY <2>1, <2>4, <2>7, <3>1 DEF UseInv, ClaimedUnused
    <3>3. pc[u] = "resume" => Unused(h, job[u].at) /\ job[u].at \in Idx
      BY <2>7 DEF UseInv, ResumedUnused, ResumePoint
    <3> QED
      BY <2>4, <3>1, <3>2, <3>3 DEF Unused
  <2>8. ClaimedUnused(w)' /\ ResumedUnused(w)'
    <3>1. CASE pc'[w] = "idle"
      <4>1. pc'[w] \notin DecideAt \cup {"resume"}
        BY <3>1 DEF DecideAt
      <4> QED
        BY <4>1, NoUse
    <3>2. CASE pc'[w] = "resume" /\ job'[w].key = h /\ job'[w].at = i
      <4>1. ASSUME NEW u \in Workers \ {w}, pc[u] = "resume", job[u].key = h PROVE job[u].at # i
        BY <2>3, <4>1 DEF UseInv, ResumedUnused
      <4> QED
        BY <2>1, <2>3, <3>2, <4>1 DEF ClaimedUnused, ResumedUnused, Others, DecideAt
    <3> QED
      BY <1>1, <3>1, <3>2, ResumeStartFacts
  <2> QED
    BY <2>1, <2>5, <2>6, <2>7, <2>8, UseAtRow
<1>2. CASE ResumePerform(w)
  <2>0. PICK i \in Idx : i = job[w].at /\ i \in 1..(N + 1)
    BY <1>2, ResumePerformFacts
  <2>1. /\ pc[w] = "resume" /\ pc'[w] = "resumed" /\ \A u \in Workers \ {w} : pc'[u] = pc[u]
        /\ UNCHANGED <<status, steps, lock>>
    BY <1>2, ResumePerformFacts DEF still
  <2>2. Unused(k, i) /\ NoneWaits(steps[k])
    BY <1>0, <2>0, <2>1 DEF UseInv, ResumedUnused, PureInv, ResumedLate, ResumeAt
  <2>3. ASSUME NEW force \in BOOLEAN, force, Perform(w, i, force, i) PROVE UseInv'
    <3>1. PICK o \in Outcomes(i, force) : Performed(w, i, o, i)
      BY <2>3 DEF Perform
    <3>2. o[2] \in {0, 1} /\ o[1] # "agendado"
      BY <2>3, <3>1, OutcomesType
    <3>3. /\ effects'[k][i] = effects[k][i] + o[2] /\ timers'[k][i] = timers[k][i] + 0
          /\ \A x \in Idx \ {i} : effects'[k][x] = effects[k][x] /\ timers'[k][x] = timers[k][x]
      BY <1>0, <2>0, <3>1, <3>2, PerformedFacts
    <3>4. OnlyRow(k) /\ Others(w)
      BY <1>0, <2>0, <2>1, <2>3, PerformedOnly DEF Others
    <3>5. effects'[k][i] + timers'[k][i] <= 1
      BY <2>2, <3>2, <3>3 DEF Unused
    <3>6. OneUse(k)'
      BY <3>3, <3>5 DEF UseInv, OneUse
    <3>7. PendingUnused(k)'
      BY <2>1, <2>2 DEF PendingUnused, NoneWaits
    <3>8. ASSUME NEW u \in Workers \ {w}, job[u].key = k
          PROVE  ClaimedUnused(u)' /\ (pc[u] = "resume" => Unused(k, job[u].at)')
      <4>1. pc'[u] = pc[u] /\ job'[u] = job[u] /\ pc[u] \notin Claimed
        BY <1>0, <2>1, <3>4, <3>8 DEF PureInv, ClaimAlone, Others, ResumeAt
      <4>2. ClaimedUnused(u)'
        BY <4>1 DEF UseInv, ClaimedUnused, Claimed
      <4>3. pc[u] = "resume" => Unused(k, job[u].at) /\ job[u].at \in Idx \ {i}
        BY <1>0, <2>0, <2>1, <3>8 DEF UseInv, ResumedUnused, ResumePoint
      <4> QED
        BY <3>3, <4>1, <4>2, <4>3 DEF Unused
    <3>9. pc'[w] \notin DecideAt \cup {"resume"}
      BY <2>1 DEF DecideAt
    <3> QED
      BY <2>1, <3>4, <3>6, <3>7, <3>8, <3>9, NoUse, UseAtRow
  <2>4. Perform(w, i, TRUE, i)
    BY <1>2, <2>0, ResumePerformFacts
  <2> QED
    BY <2>3, <2>4
\* The save of a row by a process that leaves no step waiting in it.
<1>3. ASSUME pc[w] \in {"resumed", "expire"}, UNCHANGED <<effects, timers, lock>>, Others(w), OnlyRow(k), NoneWaits(steps'[k]),
             status'[k] # "pending_approval", pc'[w] \in {"idle", "notify"}
      PROVE  UseInv'
  <2>1. OneUse(k)' /\ PendingUnused(k)'
    BY <1>3 DEF UseInv, OneUse, PendingUnused
  <2>2. ASSUME NEW u \in Workers \ {w}, job[u].key = k
        PROVE  ClaimedUnused(u)' /\ (pc[u] = "resume" => Unused(k, job[u].at)')
    BY <1>3, <2>2 DEF UseInv, ClaimedUnused, ResumedUnused, Others, NoneWaits, Unused
  <2>3. pc'[w] \notin DecideAt \cup {"resume"}
    BY <1>3 DEF DecideAt
  <2> QED
    BY <1>3, <2>1, <2>2, <2>3, NoUse, UseAtRow
<1>4. CASE ResumeSave(w)
  <2>1. pc[w] = "resumed" /\ steps'[k] = job[w].steps /\ status'[k] = FinalStatus(job[w].steps)
    BY <1>0, <1>4, ResumeSaveFacts
  <2>2. NoneWaits(job[w].steps)
    BY <2>1 DEF PureInv, CopyPure
  <2>3. status'[k] # "pending_approval" /\ NoneWaits(steps'[k])
    BY <2>1, <2>2, FinalStatusFacts DEF NoneWaits
  <2> QED
    BY <1>0, <1>3, <1>4, <2>1, <2>3, ResumeSaveFacts DEF still
<1>5. ASSUME NEW h \in Keys, ExpireRead(w, h) PROVE UseInv'
  <2>1. UNCHANGED <<status, steps, effects, timers, lock>> /\ Others(w) /\ pc'[w] = "expire"
    BY <1>5, ExpireReadFacts DEF still
  <2>2. pc'[w] \notin DecideAt \cup {"resume"}
    BY <2>1 DEF DecideAt
  <2> QED
    BY <2>1, <2>2, NoUse, UseStay
<1>6. CASE ExpireSave(w)
  <2>1. pc[w] = "expire" /\ steps'[k] = job[w].steps /\ status'[k] = "expired"
    BY <1>0, <1>6, ExpireSaveFacts
  <2>2. NoneWaits(steps'[k])
    BY <2>1 DEF PureInv, CopyPure
  <2> QED
    BY <1>0, <1>3, <1>6, <2>1, <2>2, ExpireSaveFacts DEF still
<1>7. CASE NotifyOutcome(w)
  <2>1. UNCHANGED <<status, steps, effects, timers, lock>> /\ Others(w) /\ pc'[w] = "idle"
    BY <1>7, NotifyFacts DEF still
  <2>2. pc'[w] \notin DecideAt \cup {"resume"}
    BY <2>1 DEF DecideAt
  <2> QED
    BY <2>1, <2>2, NoUse, UseStay
<1> QED
  BY <1>1, <1>2, <1>4, <1>5, <1>6, <1>7 DEF Resume, Expire

LEMMA OnceStep == TypeOK /\ ResumePoint /\ TurnInv /\ PureInv /\ OnceInv /\ [Next]_vars => OnceInv'
<1> SUFFICES ASSUME TypeOK, ResumePoint, TurnInv, PureInv, OnceInv, [Next]_vars, crashes' = 0 PROVE UseInv'
  BY DEF OnceInv
<1>1. CASE \E w \in Workers : Crash(w)
  <2>1. crashes' = crashes + 1 /\ crashes \in Nat
    BY <1>1, CrashFacts DEF TypeOK
  <2> QED
    BY <2>1
<1>2. CASE \E w \in Workers : Execute(w) \/ Decision(w) \/ Resume(w) \/ Expire(w) \/ NotifyOutcome(w)
  <2>1. UNCHANGED crashes
    <3>1. ASSUME NEW w \in Workers, Execute(w) PROVE UNCHANGED crashes
      BY <3>1 DEF Execute, ExecuteStart, ExecuteInsert, ExecuteOverLimit, ExecuteDisableRule, ExecuteSkip, ExecutePlan,
                  ExecuteStep, ExecuteSave, hist
    <3>2. ASSUME NEW w \in Workers, Decision(w) PROVE UNCHANGED crashes
      BY <3>2 DEF Decision, DecideStart, Claim, Refresh, ApproveStep, ApproveSave, RejectRefresh, RejectSave, Decide, hist
    <3>3. ASSUME NEW w \in Workers, Resume(w) \/ Expire(w) \/ NotifyOutcome(w) PROVE UNCHANGED crashes
      BY <3>3 DEF Resume, ResumeStart, ResumePerform, ResumeSave, Expire, ExpireRead, ExpireSave, NotifyOutcome, hist
    <3> QED
      BY <1>2, <3>1, <3>2, <3>3
  <2>2. UseInv
    BY <2>1 DEF OnceInv
  <2> QED
    BY <1>2, <2>2, UseExecute, UseDecision, UseRest
<1>3. CASE OfficeHours \/ ContactChoice \/ SwitchRule \/ UNCHANGED vars \/ \E k \in Keys : GrowOld(k)
  <2>1. UNCHANGED <<status, steps, effects, timers, lock, pc, job, crashes>>
    BY <1>3 DEF OfficeHours, ContactChoice, SwitchRule, vars, GrowOld, row, env, hist
  <2> QED
    BY <2>1 DEF OnceInv, UseInv, OneUse, PendingUnused, ClaimedUnused, ResumedUnused, Unlocked, Unused
<1> QED
  BY <1>1, <1>2, <1>3 DEF Next

LEMMA OnceInit == Init => OnceInv
<1> SUFFICES ASSUME Init PROVE UseInv
  BY DEF OnceInv
<1>1. \A w \in Workers : pc[w] \notin DecideAt \cup {"resume"}
  BY DEF Init, DecideAt
<1>2. \A k \in Keys, i \in Idx : effects[k][i] = 0 /\ timers[k][i] = 0
  BY DEF Init
<1> QED
  BY <1>1, <1>2 DEF UseInv, OneUse, PendingUnused, ClaimedUnused, ResumedUnused, Unused, DecideAt

\* An internal step happens once at most whoever dies, and while nobody dies no step happens twice.
THEOREM NothingHappensTwice == Uniform /\ Spec => []NothingTwice
<1>1. Init => TypeOK /\ ResumePoint /\ RecordInv /\ TurnInv /\ PureInv /\ OnceInv
  BY TypeInit, RecordInit, TurnInit, PureInit, OnceInit DEF Init, ResumePoint
<1>2. TypeOK /\ TurnInv /\ OnceInv => NothingTwice
  <2> SUFFICES ASSUME TypeOK, TurnInv, OnceInv, crashes = 0, NEW k \in Keys, NEW i \in Idx PROVE effects[k][i] <= 1
    BY DEF NothingTwice, TurnInv, TwoClicksSendOnce
  <2>1. effects[k][i] + timers[k][i] <= 1
    BY DEF OnceInv, UseInv, OneUse
  <2> QED
    BY <2>1, JobFacts
<1>3. Uniform => Uniform'
  BY DEF Uniform
<1> QED
  BY <1>1, <1>2, <1>3, TypeStep, ResumePointStep, RecordStep, TurnStep, PureStep, OnceStep, PTL DEF Spec
=============================================================================
