------------------------------- MODULE Assistant -------------------------------
(***************************************************************************)
(* Actions the assistant or the connector (MCP) prepares and a person      *)
(* confirms (src/assistant): PendingAction, the personal tokens of the     *)
(* connector, its switch and its limit per minute.  A process is a request *)
(* of the person or of the connector; it loads what it decides on, and no  *)
(* row is locked.                                                          *)
(***************************************************************************)
EXTENDS Naturals, FiniteSets

CONSTANTS
    Nothing,    \* the action and the token of a request at rest
    Helpers,    \* requests being served
    Actions,    \* PendingAction rows
    Tokens,     \* PersonalToken rows
    RatePerMin, \* RATE_PER_MIN
    MaxTokens,  \* the limit of tokens of a person
    MaxChanges, \* bound: changes of the settings and of the person's rights
    MaxEffects  \* bound: times the tool of an action takes effect

ASSUME AsAssumption ==
    /\ IsFiniteSet(Helpers)
    /\ RatePerMin \in Nat /\ MaxTokens \in Nat /\ MaxChanges \in Nat /\ MaxEffects \in Nat

VARIABLES
    pending,   \* status per action: "none" (not created), ..., "gone" (its conversation was deleted)
    mayWrite,  \* the role and permissions of the person allow the tools
    mcpOn,     \* AssistantSettings.mcp_enabled
    token,     \* per token: "none", "leitura", "pedidos", "revoked"
    minute,    \* per token: calls counted in the cache for the running minute
    helper,    \* a request: pc, its action, what it loaded
    changes,
    effects,   \* history: times the tool of an action took effect
    consent,   \* history: actions their person confirmed while allowed to
    blurred,   \* history: actions decided by two requests at once, or whose tool raised or died
               \* after its effect, or whose conversation was deleted meanwhile
    served,    \* history, per token: connector calls served in the running minute
    wanted,    \* history: the last value somebody gave mcp_enabled on purpose
    crossed    \* history: two requests that change the settings, or one and a new token, overlapped

asVars == <<pending, mayWrite, mcpOn, token, minute, helper, changes, effects, consent, blurred, served, wanted, crossed>>

HelperRow ==
    [pc : {"idle", "asking", "rate", "run", "cancel", "done", "failed", "save", "revokeAll", "create"},
     action : Actions \cup {Nothing}, token : Tokens \cup {Nothing}, may : BOOLEAN, value : BOOLEAN, seen : Nat]
Resting == [pc |-> "idle", action |-> Nothing, token |-> Nothing,
            may |-> FALSE, value |-> FALSE, seen |-> 0]
Live(t) == token[t] \in {"leitura", "pedidos"}
Now(q, pc) == helper' = [helper EXCEPT ![q].pc = pc]
Rests(q) == helper' = [helper EXCEPT ![q] = Resting]
Deciding(a) == {q \in Helpers : helper[q].pc \in {"run", "cancel", "done", "failed"} /\ helper[q].action = a}
Changing == {q \in Helpers : helper[q].pc \in {"save", "revokeAll", "create"}}

AsInit ==
    /\ pending = [a \in Actions |-> "none"] /\ mayWrite = TRUE /\ mcpOn \in BOOLEAN /\ wanted = mcpOn
    /\ token = [t \in Tokens |-> "none"] /\ minute = [t \in Tokens |-> 0] /\ helper = [q \in Helpers |-> Resting]
    /\ changes = 0 /\ effects = [a \in Actions |-> 0] /\ consent = {} /\ blurred = {}
    /\ served = [t \in Tokens |-> 0] /\ crossed = FALSE

\* ask: the role is loaded when the request comes in, and the model may think for minutes.
StartAsk(q) ==
    /\ helper[q].pc = "idle"
    /\ helper' = [helper EXCEPT ![q] = [Resting EXCEPT !.pc = "asking", !.may = mayWrite]]
    /\ UNCHANGED <<pending, mayWrite, mcpOn, token, minute, changes, effects, consent, blurred, served, wanted, crossed>>

\* McpView.post: a live token of a connector that is on, then the limit per minute is read ...
EnterConnector(q, t) ==
    /\ helper[q].pc = "idle"
    /\ Live(t) /\ mcpOn
    /\ helper' = [helper EXCEPT ![q] = [Resting EXCEPT !.pc = "rate", !.token = t, !.seen = minute[t],
                                                       !.may = mayWrite /\ token[t] = "pedidos"]]
    /\ UNCHANGED <<pending, mayWrite, mcpOn, token, minute, changes, effects, consent, blurred, served, wanted, crossed>>

\* Mutant: > for >=.
RefusedLate(q) == helper[q].seen > RatePerMin

Refused(q) == helper[q].seen >= RatePerMin

\* ... and the call counted, or refused.
CountCall(q) ==
    LET t == helper[q].token IN
    /\ helper[q].pc = "rate"
    /\ IF Refused(q)
       THEN Rests(q) /\ UNCHANGED <<minute, served>>
       ELSE /\ Now(q, "asking")
            /\ minute' = [minute EXCEPT ![t] = minute[t] + 1]
            /\ served' = [served EXCEPT ![t] = served[t] + 1]
    /\ UNCHANGED <<pending, mayWrite, mcpOn, token, changes, effects, consent, blurred, wanted, crossed>>

\* _run_tool with a tool that acts: only a row is made, and only for who may write.  One request may
\* call several tools.
Propose(q, a) ==
    /\ helper[q].pc = "asking" /\ helper[q].may
    /\ pending[a] = "none"
    /\ pending' = [pending EXCEPT ![a] = "pending"]
    /\ UNCHANGED <<helper, mayWrite, mcpOn, token, minute, changes, effects, consent, blurred, served, wanted, crossed>>

\* A tool that only reads, a refusal, an answer without tools, or an error of the provider.
Answer(q) ==
    /\ helper[q].pc = "asking"
    /\ Rests(q)
    /\ UNCHANGED <<pending, mayWrite, mcpOn, token, minute, changes, effects, consent, blurred, served, wanted, crossed>>

\* Mutant: the status is not looked at.
UndecidedOrNot(a) == pending[a] \notin {"none", "gone"}

Undecided(a) == pending[a] = "pending"

\* ActionDecideView loads the action, and confirm refuses one that is not pending, or an acceptance
\* of who may not use the tool.
Decide(q, a, accept) ==
    /\ helper[q].pc = "idle"
    /\ Undecided(a) /\ effects[a] < MaxEffects
    /\ accept => mayWrite
    /\ helper' = [helper EXCEPT ![q] = [Resting EXCEPT !.pc = IF accept THEN "run" ELSE "cancel", !.action = a]]
    /\ consent' = IF accept THEN consent \cup {a} ELSE consent
    /\ blurred' = IF Deciding(a) = {} THEN blurred ELSE blurred \cup {a}
    /\ UNCHANGED <<pending, mayWrite, mcpOn, token, minute, changes, effects, served, wanted, crossed>>

\* A save with update_fields: an error when the row is gone.
Saved(a, status) == pending' = IF pending[a] = "gone" THEN pending ELSE [pending EXCEPT ![a] = status]

CancelAction(q) ==
    /\ helper[q].pc = "cancel"
    /\ Saved(helper[q].action, "canceled")
    /\ Rests(q)
    /\ UNCHANGED <<mayWrite, mcpOn, token, minute, changes, effects, consent, blurred, served, wanted, crossed>>

\* tool.run: it takes effect, or refuses (ToolError, TypeError), or raises anything else, or the
\* process dies, before or after its effect; then nothing is saved.
RunTool(q) ==
    LET a == helper[q].action IN
    /\ helper[q].pc = "run"
    /\ \/ Now(q, "failed") /\ UNCHANGED <<effects, blurred>>
       \/ Now(q, "done") /\ effects' = [effects EXCEPT ![a] = effects[a] + 1] /\ UNCHANGED blurred
       \/ Rests(q) /\ UNCHANGED <<effects, blurred>>
       \/ Rests(q) /\ effects' = [effects EXCEPT ![a] = effects[a] + 1] /\ blurred' = blurred \cup {a}
    /\ UNCHANGED <<pending, mayWrite, mcpOn, token, minute, changes, consent, served, wanted, crossed>>

SaveAction(q) ==
    /\ helper[q].pc \in {"done", "failed"}
    /\ Saved(helper[q].action, helper[q].pc)
    /\ Rests(q)
    /\ UNCHANGED <<mayWrite, mcpOn, token, minute, changes, effects, consent, blurred, served, wanted, crossed>>

\* ConversationDetailView.delete takes the actions with it.
DeleteConversation ==
    /\ changes < MaxChanges
    /\ changes' = changes + 1
    /\ pending' = [a \in Actions |-> IF pending[a] = "none" THEN "none" ELSE "gone"]
    /\ blurred' = blurred \cup {a \in Actions : Deciding(a) # {}}
    /\ UNCHANGED <<mayWrite, mcpOn, token, minute, helper, effects, consent, served, wanted, crossed>>

\* An administrator changes the role or the access group of the person.
ChangeRights ==
    /\ changes < MaxChanges
    /\ changes' = changes + 1
    /\ mayWrite' = ~mayWrite
    /\ UNCHANGED <<pending, mcpOn, token, minute, helper, effects, consent, blurred, served, wanted, crossed>>

\* SettingsView.patch loads the row, sets the fields the request names ("value" is the connector's,
\* which the request may not name) ...
LoadSettings(q) ==
    /\ helper[q].pc = "idle" /\ changes < MaxChanges
    /\ changes' = changes + 1
    /\ \E named \in BOOLEAN, value \in BOOLEAN :
        /\ ~named => value = mcpOn
        /\ helper' = [helper EXCEPT ![q] = [Resting EXCEPT !.pc = "save", !.value = value]]
        /\ wanted' = IF named THEN value ELSE wanted
    /\ crossed' = (crossed \/ Changing # {})
    /\ UNCHANGED <<pending, mayWrite, mcpOn, token, minute, effects, consent, blurred, served>>

\* ... saves every column of it ...
SaveSettings(q) ==
    /\ helper[q].pc = "save"
    /\ mcpOn' = helper[q].value
    /\ helper' = [helper EXCEPT ![q] = IF helper[q].value THEN Resting ELSE [helper[q] EXCEPT !.pc = "revokeAll"]]
    /\ UNCHANGED <<pending, mayWrite, token, minute, changes, effects, consent, blurred, served, wanted, crossed>>

\* ... and, with the connector off, revokes every token of the office.
RevokeAll(q) ==
    /\ helper[q].pc = "revokeAll"
    /\ token' = [t \in Tokens |-> IF Live(t) THEN "revoked" ELSE token[t]]
    /\ Rests(q)
    /\ UNCHANGED <<pending, mayWrite, mcpOn, minute, changes, effects, consent, blurred, served, wanted, crossed>>

\* TokenCreateView checks the switch, the role and the number of live tokens ...
CheckToken(q) ==
    /\ helper[q].pc = "idle" /\ changes < MaxChanges
    /\ mcpOn /\ Cardinality({t \in Tokens : Live(t)}) < MaxTokens
    /\ changes' = changes + 1
    /\ helper' = [helper EXCEPT ![q] = [Resting EXCEPT !.pc = "create", !.may = mayWrite]]
    /\ crossed' = (crossed \/ Changing # {})
    /\ UNCHANGED <<pending, mayWrite, mcpOn, token, minute, effects, consent, blurred, served, wanted>>

\* ... and creates.
CreateToken(q) ==
    /\ helper[q].pc = "create"
    /\ \E t \in Tokens, scope \in {"leitura", "pedidos"} :
        /\ token[t] = "none"
        /\ scope = "pedidos" => helper[q].may
        /\ token' = [token EXCEPT ![t] = scope]
    /\ Rests(q)
    /\ UNCHANGED <<pending, mayWrite, mcpOn, minute, changes, effects, consent, blurred, served, wanted, crossed>>

\* TokenRevokeView
RevokeToken(t) ==
    /\ Live(t) /\ changes < MaxChanges
    /\ changes' = changes + 1
    /\ token' = [token EXCEPT ![t] = "revoked"]
    /\ UNCHANGED <<pending, mayWrite, mcpOn, minute, helper, effects, consent, blurred, served, wanted, crossed>>

\* The key of the cache names the minute: a new one starts from nothing, and a call that has read
\* the old counter is counted, or refused, in the old one.
NextMinute ==
    /\ \E t \in Tokens : minute[t] > 0
    /\ minute' = [t \in Tokens |-> 0] /\ served' = [t \in Tokens |-> 0]
    /\ helper' = [q \in Helpers |->
                    IF helper[q].pc # "rate" THEN helper[q]
                    ELSE IF Refused(q) THEN Resting ELSE [helper[q] EXCEPT !.pc = "asking"]]
    /\ UNCHANGED <<pending, mayWrite, mcpOn, token, changes, effects, consent, blurred, wanted, crossed>>

AsNext ==
    \/ \E q \in Helpers :
        \/ StartAsk(q) \/ CountCall(q) \/ Answer(q) \/ CancelAction(q) \/ RunTool(q) \/ SaveAction(q)
        \/ LoadSettings(q) \/ SaveSettings(q) \/ RevokeAll(q) \/ CheckToken(q) \/ CreateToken(q)
        \/ \E a \in Actions : Propose(q, a) \/ Decide(q, a, TRUE) \/ Decide(q, a, FALSE)
        \/ \E t \in Tokens : EnterConnector(q, t)
    \/ \E t \in Tokens : RevokeToken(t)
    \/ DeleteConversation \/ ChangeRights \/ NextMinute

AsSpec == AsInit /\ [][AsNext]_asVars

-----------------------------------------------------------------------------
AsTypeOK ==
    /\ pending \in [Actions -> {"none", "pending", "done", "canceled", "failed", "gone"}]
    /\ token \in [Tokens -> {"none", "leitura", "pedidos", "revoked"}]
    /\ mayWrite \in BOOLEAN /\ mcpOn \in BOOLEAN /\ wanted \in BOOLEAN /\ minute \in [Tokens -> Nat]
    /\ helper \in [Helpers -> HelperRow]
    /\ served \in [Tokens -> Nat] /\ changes \in Nat /\ crossed \in BOOLEAN
    /\ effects \in [Actions -> Nat] /\ consent \subseteq Actions /\ blurred \subseteq Actions

\* What the assistant or the connector prepared takes effect only after its person confirmed it, once,
\* and never after a cancellation or a refusal of the tool that was saved; unless two decisions of
\* the same action overlapped, or its tool raised after its effect (src/assistant/engine.py:221).
ConfirmedOnce ==
    \A a \in Actions :
        /\ effects[a] > 0 => a \in consent
        /\ a \notin blurred =>
            /\ effects[a] <= 1
            /\ pending[a] \in {"canceled", "failed"} => effects[a] = 0
            /\ pending[a] = "done" => effects[a] = 1

\* With the connector switched off and the change finished, no token is left that would work when it
\* is switched on again, and it stays as it was last set; unless two changes of the settings, or one
\* and the creation of a token, overlapped (src/assistant/api.py:219).
OffMeansOff ==
    ~crossed /\ Changing = {} => mcpOn = wanted /\ (~mcpOn => \A t \in Tokens : ~Live(t))

\* In one minute the connector serves at most RatePerMin calls of a token and one for every other
\* request that had read the counter before (src/assistant/mcp.py:161).
RateKept == RatePerMin > 0 => \A t \in Tokens : served[t] <= RatePerMin + Cardinality(Helpers) - 1

\* The connector keeps what its switch and its limit say: OffMeansOff and RateKept.
ConnectorKept == OffMeansOff /\ RateKept

\* Neither the assistant nor the connector does what people did not want: ConfirmedOnce and ConnectorKept.
AssistantKept == ConfirmedOnce /\ ConnectorKept
=============================================================================
