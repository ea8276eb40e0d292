----------------------------- MODULE RuleConfig -----------------------------
(***************************************************************************)
(* The configuration of one automation rule: who may switch it on, and     *)
(* what it runs.  src/automations/api.py, engine.simulate, the reads of    *)
(* engine.execute, and the assistant's ativar_regra.                       *)
(*                                                                         *)
(* "Regra nasce desligada; só liga depois de simulada (com a configuração  *)
(* exata que vai rodar)" (models.py).  Each view loads the row, decides on *)
(* what it loaded and writes later: an edit writes the whole row, the      *)
(* other views write one column.  No view locks the row.                   *)
(*                                                                         *)
(* A configuration stands for the fields config_hash covers, and the hash  *)
(* of a configuration is the configuration itself.                         *)
(***************************************************************************)
EXTENDS Naturals

CONSTANTS
    Requests,   \* web requests and assistant tools that may be in flight
    Executors,  \* queue workers that may be executing the rule
    Configs,    \* configurations the rule may be given
    NoHash      \* simulated_hash = ''

ASSUME NoHashAssumption == NoHash \notin Configs
ASSUME SomeConfig == Configs # {}

Rows == [enabled : BOOLEAN, config : Configs, hash : Configs \cup {NoHash}]

\* Rule.simulated: the configuration is the one that was simulated.
Simulated(r) == r.hash = r.config

VARIABLES
    rule,       \* the row
    pc,         \* what each request is about to write
    copy,       \* the row as each request loaded it
    epc,        \* where each executor is
    loaded,     \* the configuration each executor loaded
    simulated,  \* history: configurations somebody was shown the effect of
    ran,        \* history: configurations whose actions ran
    overlapped  \* history: an edit was in flight together with another request

vars == <<rule, pc, copy, epc, loaded, simulated, ran, overlapped>>

PcValues == {"idle", "editar", "simular", "ligar", "desligar", "simularELigar"}

\* RuleListView.post: the rule is created disabled and never simulated.
Init ==
    /\ rule \in [enabled : {FALSE}, config : Configs, hash : {NoHash}]
    /\ pc = [r \in Requests |-> "idle"]
    /\ copy = [r \in Requests |-> rule]
    /\ epc = [e \in Executors |-> "idle"]
    /\ loaded = [e \in Executors |-> rule.config]
    /\ simulated = {}
    /\ ran = {}
    /\ overlapped = FALSE

(***************************************************************************)
(* Requests.  Load is self.rule(m, pk); the writes below end the request.  *)
(***************************************************************************)
Load(r, l) ==
    /\ pc[r] = "idle"
    /\ pc' = [pc EXCEPT ![r] = l]
    /\ copy' = [copy EXCEPT ![r] = rule]
    /\ overlapped' = (overlapped \/ \E q \in Requests : /\ pc[q] # "idle"
                                                       /\ "editar" \in {l, pc[q]})
    /\ UNCHANGED <<rule, epc, loaded, simulated, ran>>

Finish(r) == pc' = [pc EXCEPT ![r] = "idle"]

LoadForEdit(r) == Load(r, "editar")
LoadForSimulate(r) == Load(r, "simular")
LoadForDisable(r) == Load(r, "desligar")

\* RuleEnableView answers 409 needs_simulation unless the row it loaded is
\* simulated; the assistant's ativar_regra simulates it first instead.
MayEnable(r) == Simulated(r)
LoadForEnable(r) == MayEnable(rule) /\ Load(r, "ligar")
AssistantLoad(r) == Load(r, IF MayEnable(rule) THEN "ligar" ELSE "simularELigar")

\* patch: the edited row is switched off unless it is still the simulated
\* one, and rule.save() writes every column.
EditedBlank(old, c) == [old EXCEPT !.config = NoHash]  \* mutant: fields not sent are lost
EditedKeepsOn(old, c) == [old EXCEPT !.config = c]  \* mutant: an edit does not switch off
Edited(old, c) ==
    [old EXCEPT !.config = c,
                !.enabled = old.enabled /\ Simulated([old EXCEPT !.config = c])]

SaveEdit(r) ==
    /\ pc[r] = "editar"
    /\ \E c \in Configs : rule' = Edited(copy[r], c)
    /\ Finish(r)
    /\ UNCHANGED <<copy, epc, loaded, simulated, ran, overlapped>>

\* engine.simulate: update_fields=['simulated_hash', 'updated_at'].
Simulate(r, next) ==
    /\ rule' = [rule EXCEPT !.hash = copy[r].config]
    /\ simulated' = simulated \cup {copy[r].config}
    /\ pc' = [pc EXCEPT ![r] = next]
    /\ UNCHANGED <<copy, epc, loaded, ran, overlapped>>

SaveSimulation(r) == pc[r] = "simular" /\ Simulate(r, "idle")
AssistantSimulate(r) == pc[r] = "simularELigar" /\ Simulate(r, "ligar")

\* update_fields=['enabled', 'updated_at'].
SaveEnabled(r, on) ==
    /\ pc[r] = IF on THEN "ligar" ELSE "desligar"
    /\ rule' = [rule EXCEPT !.enabled = on]
    /\ Finish(r)
    /\ UNCHANGED <<copy, epc, loaded, simulated, ran, overlapped>>

(***************************************************************************)
(* Executors: execute loads the rule if it is enabled, then either pauses  *)
(* it, having run more than DAILY_LIMIT times, or runs what it loaded.     *)
(***************************************************************************)
ExecuteLoad(e) ==
    /\ epc[e] = "idle" /\ rule.enabled
    /\ epc' = [epc EXCEPT ![e] = "loaded"]
    /\ loaded' = [loaded EXCEPT ![e] = rule.config]
    /\ UNCHANGED <<rule, pc, copy, simulated, ran, overlapped>>

ExecutePause(e) ==
    /\ epc[e] = "loaded"
    /\ rule' = [rule EXCEPT !.enabled = FALSE]
    /\ epc' = [epc EXCEPT ![e] = "idle"]
    /\ UNCHANGED <<pc, copy, loaded, simulated, ran, overlapped>>

ExecuteRun(e) ==
    /\ epc[e] = "loaded"
    /\ ran' = ran \cup {loaded[e]}
    /\ epc' = [epc EXCEPT ![e] = "idle"]
    /\ UNCHANGED <<rule, pc, copy, loaded, simulated, overlapped>>

RequestStep(r) ==
    \/ LoadForEdit(r) \/ LoadForSimulate(r) \/ LoadForDisable(r)
    \/ LoadForEnable(r) \/ AssistantLoad(r)
    \/ SaveEdit(r) \/ SaveSimulation(r) \/ AssistantSimulate(r)
    \/ SaveEnabled(r, TRUE) \/ SaveEnabled(r, FALSE)

ExecutorStep(e) == ExecuteLoad(e) \/ ExecutePause(e) \/ ExecuteRun(e)

Next ==
    \/ \E r \in Requests : RequestStep(r)
    \/ \E e \in Executors : ExecutorStep(e)

Spec == Init /\ [][Next]_vars

-----------------------------------------------------------------------------
TypeOK ==
    /\ rule \in Rows
    /\ pc \in [Requests -> PcValues]
    /\ copy \in [Requests -> Rows]
    /\ epc \in [Executors -> {"idle", "loaded"}]
    /\ loaded \in [Executors -> Configs]
    /\ simulated \subseteq Configs
    /\ ran \subseteq Configs
    /\ overlapped \in BOOLEAN

\* A rule that is on has been simulated with exactly the configuration it
\* would run (models.py:5).  An edit that overlaps another request breaks it.
OnlySimulatedRuns == rule.enabled => Simulated(rule)

\* As long as no edit overlapped another request, it holds, however the other
\* requests and the executors overlap.
SimulatedUnlessOverlapped == ~overlapped => OnlySimulatedRuns

\* And whatever the rule did, somebody was shown it first, edits and pauses
\* made while the queue was executing it included.
ActsOnSimulated == ~overlapped => ran \subseteq simulated

\* A recorded hash is the hash of something simulated, however the requests
\* that load, edit and simulate the row overlap.
HashMeansSimulated == rule.hash # NoHash => rule.hash \in simulated

\* What a rule does was shown before: SimulatedUnlessOverlapped, ActsOnSimulated
\* and HashMeansSimulated.
ShownBeforeUse == SimulatedUnlessOverlapped /\ ActsOnSimulated /\ HashMeansSimulated
=============================================================================
