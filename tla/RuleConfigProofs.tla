-------------------------- MODULE RuleConfigProofs --------------------------
(***************************************************************************)
(* Proofs about RuleConfig: its types; that a recorded hash was simulated  *)
(* whatever overlaps; and that, unless an edit overlaps another request,   *)
(* only simulated configurations are on and only those ever run.  The      *)
(* other requests and the executors may overlap in every theorem.          *)
(***************************************************************************)
EXTENDS RuleConfig, TLAPS

\* A row edited by a request is still a row.
LEMMA EditedType ==
    ASSUME NEW old \in Rows, NEW c \in Configs
    PROVE  /\ Edited(old, c) \in Rows
           /\ Edited(old, c).config = c
           /\ Edited(old, c).hash = old.hash
           /\ Edited(old, c).enabled => Simulated(Edited(old, c))
  BY DEF Rows, Edited, Simulated

\* Writing one column of a row leaves a row.
LEMMA ColumnType ==
    ASSUME NEW old \in Rows
    PROVE  /\ \A on \in BOOLEAN : [old EXCEPT !.enabled = on] \in Rows
           /\ \A h \in Configs : [old EXCEPT !.hash = h] \in Rows
  BY DEF Rows

LEMMA TypeInit == Init => TypeOK
  BY DEF Init, TypeOK, Rows, PcValues

\* The type invariant is inductive.
LEMMA TypeStep == TypeOK /\ [Next]_vars => TypeOK'
<1> SUFFICES ASSUME TypeOK, [Next]_vars PROVE TypeOK'
  OBVIOUS
<1> USE DEF TypeOK
<1>1. ASSUME UNCHANGED vars PROVE TypeOK'
  BY <1>1 DEF vars
<1>2. ASSUME NEW r \in Requests, RequestStep(r) PROVE TypeOK'
  <2>1. ASSUME NEW l \in PcValues, Load(r, l) PROVE TypeOK'
    <3>1. overlapped' \in BOOLEAN
      BY <2>1 DEF Load
    <3> QED
      BY <2>1, <3>1 DEF Load
  <2>3. ASSUME SaveEdit(r) PROVE TypeOK'
    BY <2>3, EditedType DEF SaveEdit, Finish, PcValues
  <2>4. ASSUME NEW next \in PcValues, Simulate(r, next) PROVE TypeOK'
    <3>1. copy[r].config \in Configs
      BY DEF Rows
    <3> QED
      BY <2>4, <3>1, ColumnType DEF Simulate
  <2>5. ASSUME NEW on \in BOOLEAN, SaveEnabled(r, on) PROVE TypeOK'
    BY <2>5, ColumnType DEF SaveEnabled, Finish, PcValues
  <2> QED
    BY <1>2, <2>1, <2>3, <2>4, <2>5
    DEF RequestStep, LoadForEdit, LoadForSimulate, LoadForDisable, LoadForEnable,
        AssistantLoad, SaveSimulation, AssistantSimulate, PcValues
<1>3. ASSUME NEW e \in Executors, ExecutorStep(e) PROVE TypeOK'
  <2>1. CASE ExecuteLoad(e)
    <3>1. rule.config \in Configs
      BY DEF Rows
    <3> QED
      BY <2>1, <3>1 DEF ExecuteLoad
  <2>2. CASE ExecutePause(e)
    BY <2>2, ColumnType DEF ExecutePause
  <2>3. CASE ExecuteRun(e)
    BY <2>3 DEF ExecuteRun
  <2> QED
    BY <1>3, <2>1, <2>2, <2>3 DEF ExecutorStep
<1> QED
  BY <1>1, <1>2, <1>3 DEF Next

\* The state of the model has the types TypeOK gives it.
THEOREM TypeCorrect == Spec => []TypeOK
<1>1. Init => TypeOK
  BY TypeInit
<1>2. TypeOK /\ [Next]_vars => TypeOK'
  BY TypeStep
<1> QED
  BY <1>1, <1>2, PTL DEF Spec

-----------------------------------------------------------------------------
(***************************************************************************)
(* Recorded hashes.  An edit writes back the hash its copy holds, so the   *)
(* copies count too.                                                       *)
(***************************************************************************)
CopiesSeen == \A r \in Requests : copy[r].hash # NoHash => copy[r].hash \in simulated
Seen == HashMeansSimulated /\ CopiesSeen

LEMMA SeenStep == TypeOK /\ Seen /\ [Next]_vars => Seen'
<1> SUFFICES ASSUME TypeOK, Seen, [Next]_vars PROVE Seen'
  OBVIOUS
<1> USE DEF TypeOK, Seen, HashMeansSimulated, CopiesSeen
<1>1. ASSUME UNCHANGED vars PROVE Seen'
  BY <1>1 DEF vars
<1>2. ASSUME NEW r \in Requests, RequestStep(r) PROVE Seen'
  <2>1. ASSUME NEW l, Load(r, l) PROVE Seen'
    BY <2>1 DEF Load
  <2>2. ASSUME SaveEdit(r) PROVE Seen'
    <3>1. PICK c \in Configs : rule' = Edited(copy[r], c)
      BY <2>2 DEF SaveEdit
    <3>2. rule'.hash = copy[r].hash
      BY <3>1, EditedType
    <3> QED
      BY <2>2, <3>2 DEF SaveEdit
  <2>3. ASSUME NEW next, Simulate(r, next) PROVE Seen'
    <3>1. rule'.hash = copy[r].config
      BY <2>3 DEF Simulate, Rows
    <3> QED
      BY <2>3, <3>1 DEF Simulate
  <2>4. ASSUME NEW on, SaveEnabled(r, on) PROVE Seen'
    <3>1. rule'.hash = rule.hash
      BY <2>4 DEF SaveEnabled, Rows
    <3> QED
      BY <2>4, <3>1 DEF SaveEnabled
  <2> QED
    BY <1>2, <2>1, <2>2, <2>3, <2>4
    DEF RequestStep, LoadForEdit, LoadForSimulate, LoadForDisable, LoadForEnable,
        AssistantLoad, SaveSimulation, AssistantSimulate
<1>3. ASSUME NEW e \in Executors, ExecutorStep(e) PROVE Seen'
  <2>1. rule'.hash = rule.hash /\ UNCHANGED <<copy, simulated>>
    BY <1>3 DEF ExecutorStep, ExecuteLoad, ExecutePause, ExecuteRun, Rows
  <2> QED
    BY <2>1
<1> QED
  BY <1>1, <1>2, <1>3 DEF Next

\* A recorded hash is the hash of a configuration somebody simulated, for any
\* number of overlapping requests and executors.
THEOREM HashesAreSimulated == Spec => []HashMeansSimulated
<1>1. Init => Seen
  BY DEF Init, Seen, HashMeansSimulated, CopiesSeen
<1>2. TypeOK /\ Seen /\ [Next]_vars => Seen'
  BY SeenStep
<1>3. Seen => HashMeansSimulated
  BY DEF Seen
<1> QED
  BY <1>1, <1>2, <1>3, TypeCorrect, PTL DEF Spec

-----------------------------------------------------------------------------
(***************************************************************************)
(* Edits that overlap no other request.  What a request loaded is still in *)
(* the row when it writes, as far as its write depends on it; executors    *)
(* touch only the enabled column, and only to clear it.                    *)
(***************************************************************************)
EditsAlone == \A r, q \in Requests : pc[r] = "editar" /\ q # r => pc[q] = "idle"
LoadedIsCurrent ==
    \A r \in Requests :
        /\ pc[r] = "editar" => copy[r].config = rule.config /\ copy[r].hash = rule.hash
        /\ pc[r] \in {"simular", "simularELigar"} => copy[r].config = rule.config
        /\ pc[r] = "ligar" => Simulated(rule)
ExecutorsLoadedSimulated == \A e \in Executors : epc[e] = "loaded" => loaded[e] \in simulated
Apart == /\ EditsAlone /\ OnlySimulatedRuns /\ LoadedIsCurrent
         /\ ExecutorsLoadedSimulated /\ ran \subseteq simulated

LEMMA ApartStep ==
    ASSUME TypeOK, Seen, Apart, [Next]_vars, ~overlapped'
    PROVE  Apart'
<1> USE DEF TypeOK, Seen, HashMeansSimulated, Apart, EditsAlone, OnlySimulatedRuns,
            LoadedIsCurrent, ExecutorsLoadedSimulated, Simulated
<1>1. CASE UNCHANGED vars
  BY <1>1 DEF vars
<1>2. ASSUME NEW r \in Requests, RequestStep(r) PROVE Apart'
  <2>1. ASSUME NEW l \in PcValues, Load(r, l), l = "ligar" => Simulated(rule) PROVE Apart'
    <3>1. \A q \in Requests : pc[q] # "idle" => l # "editar" /\ pc[q] # "editar"
      BY <2>1 DEF Load
    <3>2. pc[r] = "idle" /\ pc' = [pc EXCEPT ![r] = l] /\ copy' = [copy EXCEPT ![r] = rule]
      BY <2>1 DEF Load
    <3>3. EditsAlone'
      BY <3>1, <3>2
    <3>4. UNCHANGED <<rule, epc, loaded, simulated, ran>>
      BY <2>1 DEF Load
    <3> QED
      BY <2>1, <3>2, <3>3, <3>4
  <2>2. ASSUME SaveEdit(r) PROVE Apart'
    <3>1. PICK c \in Configs : rule' = Edited(copy[r], c)
      BY <2>2 DEF SaveEdit
    <3>2. rule'.enabled => rule'.hash = rule'.config
      BY <3>1, EditedType
    <3>3. /\ pc[r] = "editar" /\ pc' = [pc EXCEPT ![r] = "idle"]
          /\ UNCHANGED <<epc, loaded, simulated, ran>>
      BY <2>2 DEF SaveEdit, Finish
    <3>4. \A q \in Requests : pc'[q] = "idle"
      BY <3>3
    <3> QED
      BY <3>2, <3>3, <3>4
  <2>3. ASSUME NEW next \in {"idle", "ligar"}, Simulate(r, next),
               pc[r] \in {"simular", "simularELigar"}
        PROVE  Apart'
    <3>1. rule'.hash = rule'.config /\ rule'.config = rule.config
      BY <2>3 DEF Simulate, Rows
    <3>2. /\ pc' = [pc EXCEPT ![r] = next] /\ simulated \subseteq simulated'
          /\ UNCHANGED <<copy, epc, loaded, ran>>
      BY <2>3 DEF Simulate
    <3>3. \A q \in Requests : pc[q] # "editar" /\ pc'[q] # "editar"
      BY <2>3, <3>2
    <3> QED
      BY <3>1, <3>2, <3>3
  <2>4. ASSUME NEW on \in BOOLEAN, SaveEnabled(r, on) PROVE Apart'
    <3>1. rule'.hash = rule.hash /\ rule'.config = rule.config /\ rule'.enabled = on
      BY <2>4 DEF SaveEnabled, Rows
    <3>2. on => rule.hash = rule.config
      BY <2>4 DEF SaveEnabled
    <3>3. /\ pc' = [pc EXCEPT ![r] = "idle"]
          /\ UNCHANGED <<copy, epc, loaded, simulated, ran>>
      BY <2>4 DEF SaveEnabled, Finish
    <3> QED
      BY <3>1, <3>2, <3>3
  <2> QED
    BY <1>2, <2>1, <2>2, <2>3, <2>4
    DEF RequestStep, LoadForEdit, LoadForSimulate, LoadForDisable, LoadForEnable, MayEnable,
        AssistantLoad, SaveSimulation, AssistantSimulate, PcValues
<1>3. ASSUME NEW e \in Executors, ExecutorStep(e) PROVE Apart'
  <2>1. CASE ExecuteLoad(e)
    <3>1. rule.config \in simulated
      BY <2>1, NoHashAssumption DEF ExecuteLoad, Rows
    <3> QED
      BY <2>1, <3>1 DEF ExecuteLoad
  <2>2. CASE ExecutePause(e)
    <3>1. rule'.hash = rule.hash /\ rule'.config = rule.config /\ ~rule'.enabled
      BY <2>2 DEF ExecutePause, Rows
    <3> QED
      BY <2>2, <3>1 DEF ExecutePause
  <2>3. CASE ExecuteRun(e)
    BY <2>3 DEF ExecuteRun
  <2> QED
    BY <1>3, <2>1, <2>2, <2>3 DEF ExecutorStep
<1> QED
  BY <1>1, <1>2, <1>3 DEF Next

\* An overlap, once it happened, is never forgotten.
LEMMA OverlapStays == [Next]_vars /\ overlapped => overlapped'
  BY DEF Next, vars, RequestStep, ExecutorStep, LoadForEdit, LoadForSimulate, LoadForDisable,
         LoadForEnable, AssistantLoad, Load, SaveEdit, SaveSimulation, AssistantSimulate,
         Simulate, SaveEnabled, ExecuteLoad, ExecutePause, ExecuteRun

ApartInv == ~overlapped => Apart

LEMMA ApartInductive == TypeOK /\ Seen /\ ApartInv /\ [Next]_vars => ApartInv'
  BY ApartStep, OverlapStays DEF ApartInv, TypeOK

LEMMA ApartAlways == Spec => []ApartInv
<1>1. Init => ApartInv
  BY DEF Init, ApartInv, Apart, EditsAlone, OnlySimulatedRuns, LoadedIsCurrent,
         ExecutorsLoadedSimulated
<1>2. Init => Seen
  BY DEF Init, Seen, HashMeansSimulated, CopiesSeen
<1> QED
  BY <1>1, <1>2, TypeCorrect, SeenStep, ApartInductive, PTL DEF Spec

\* A rule that is on was simulated with exactly the configuration it would run
\* (models.py:5), unless an edit overlapped another request.
THEOREM OnMeansSimulated == Spec => []SimulatedUnlessOverlapped
<1>1. ApartInv => SimulatedUnlessOverlapped
  BY DEF ApartInv, Apart, SimulatedUnlessOverlapped
<1> QED
  BY <1>1, ApartAlways, PTL

\* Everything a rule ran was simulated first, unless an edit overlapped another
\* request: edits and pauses during an execution do no harm.
THEOREM RunsWhatWasShown == Spec => []ActsOnSimulated
<1>1. ApartInv => ActsOnSimulated
  BY DEF ApartInv, Apart, ActsOnSimulated
<1> QED
  BY <1>1, ApartAlways, PTL

\* The three together: what a rule that is on is, what rules did and what their
\* hashes say was simulated first.
THEOREM NothingUnseen == Spec => []ShownBeforeUse
<1>1. SimulatedUnlessOverlapped /\ ActsOnSimulated /\ HashMeansSimulated => ShownBeforeUse
  BY DEF ShownBeforeUse
<1> QED
  BY <1>1, OnMeansSimulated, RunsWhatWasShown, HashesAreSimulated, PTL
=============================================================================
