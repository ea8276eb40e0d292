-------------------------------- MODULE AICalls --------------------------------
(***************************************************************************)
(* A request to an AI provider (src/aigov): the providers it may use are   *)
(* chosen (llm.py, routing.py), the guard admits it (guard.py), the chain  *)
(* is tried in order until one answers (llm.py), the breaker of each       *)
(* provider counts its failures (routing.py), and the request is logged.   *)
(* One office; meanwhile it may change its policy and its own keys, and    *)
(* the platform may throw the global switch.                               *)
(***************************************************************************)
EXTENDS Naturals, Sequences, FiniteSets, SequencesExt

CONSTANTS
    AiRequests,    \* requests being served
    NoAnswer,
    Chain,         \* the providers of the activity in order of preference, reserves included
    Configured,    \* providers the platform has a key for
    TrainsOnFree,  \* providers whose free plan trains on what it is sent
    PaidByUs,      \* providers of TrainsOnFree the platform pays for
    FailLimit,     \* FAIL_LIMIT
    DailyRequests, \* daily_ai_request_limit
    MaxOffice      \* bound: changes the office makes

ASSUME AiAssumption ==
    /\ FailLimit \in Nat \ {0} /\ DailyRequests \in Nat /\ MaxOffice \in Nat /\ IsFiniteSet(AiRequests)
    /\ Chain \in Seq(ToSet(Chain)) /\ PaidByUs \subseteq TrainsOnFree /\ TrainsOnFree \subseteq ToSet(Chain)

Providers == ToSet(Chain)

VARIABLES
    aiAsk,    \* a request: pc, its chain, the provider it tries, what it read
    policy,   \* AIGovernancePolicy: [enabled, allowed]
    ownKey,   \* OrgAIKey per provider: "none", "paid" or "free"
    globalOn, \* GlobalAISwitch.ai_enabled
    cached,   \* cache 'aigov:global': "none", "on" or "off"
    thrower,  \* set_global_switch: "idle", "saved" (the row, not yet the cache), "thrown"
    health,   \* per provider: [fails: cache of failures in a row, open: the breaker's key]
    aiLog,    \* AIActionLog rows of the day that were not blocked
    office,   \* changes the office has made
    sent,     \* history: how client data was sent: [trains, allowed, shadowed: with a free key of the
              \* office where the platform's own account is paid, changed: the office changed its
              \* settings since the request chose its providers]
    late,     \* history: the value in the cache was read before the switch was saved, and put after
    counted   \* history per provider: [run: failures since the last success, raced: two records overlapped]

aiVars == <<aiAsk, policy, ownKey, globalOn, cached, thrower, health, aiLog, office, sent, late, counted>>

\* may_train: the platform's own account
MayTrain(p) == p \in TrainsOnFree \ PaidByUs

\* The office's own keys come first and count as allowed; a free key of a provider that trains is
\* not for client data.
OwnUsable(p) == ownKey[p] # "none" /\ (p \notin TrainsOnFree \/ ownKey[p] = "paid")

\* Mutant: whether the provider trains is not asked.
PlatformTrainsOrNot(p) == p \in policy.allowed /\ p \in Configured

PlatformUsable(p) == p \in policy.allowed /\ p \in Configured /\ ~MayTrain(p)

\* [p for p in s if p in S], the k-th of them being the one with k of them up to it.
Only(s, S) ==
    LET picked == {i \in DOMAIN s : s[i] \in S}
    IN [k \in 1 .. Cardinality(picked) |-> s[CHOOSE i \in picked : Cardinality({j \in picked : j <= i}) = k]]

\* candidates(): the providers the office has a key of first, then the others, those whose breaker
\* is open last.
Candidates ==
    LET own == {p \in Providers : OwnUsable(p)}
        out == Only(Chain, own) \o Only(Chain, {p \in Providers \ own : PlatformUsable(p)})
        keyed == {p \in Providers : ownKey[p] # "none"}
        open == {p \in Providers : health[p].open}
    IN Only(out, keyed) \o Only(out, Providers \ (keyed \cup open)) \o Only(out, open \ keyed)

Idle == [pc |-> "idle", chain |-> <<>>, at |-> 0, read |-> 0, chosen |-> 0, answer |-> NoAnswer]

AiInit ==
    /\ aiAsk = [r \in AiRequests |-> Idle]
    /\ policy = [enabled |-> TRUE, allowed |-> Providers]
    /\ ownKey \in {[p \in Providers |-> "none"], [p \in Providers |-> "paid"]}
    /\ globalOn = TRUE /\ cached = "none" /\ thrower = "idle"
    /\ health = [p \in Providers |-> [fails |-> 0, open |-> FALSE]]
    /\ aiLog = 0 /\ office = 0 /\ sent = {} /\ late = FALSE
    /\ counted = [p \in Providers |-> [run |-> 0, raced |-> FALSE]]

Goes(r, pc) == aiAsk' = [aiAsk EXCEPT ![r].pc = pc]

\* ask, write and the other callers: no candidate, no request.
Choose(r) ==
    /\ aiAsk[r].pc = "idle"
    /\ aiAsk' = [aiAsk EXCEPT ![r] = [Idle EXCEPT !.pc = IF Candidates = <<>> THEN "ended" ELSE "chosen",
                                              !.chain = Candidates, !.at = 1, !.chosen = office]]
    /\ UNCHANGED <<policy, ownKey, globalOn, cached, thrower, health, aiLog, office, sent, late, counted>>

\* global_ai_enabled with the value in the cache.
GlobalCached(r) ==
    /\ aiAsk[r].pc = "chosen" /\ cached # "none"
    /\ Goes(r, IF cached = "on" THEN "checked" ELSE "ended")
    /\ UNCHANGED <<policy, ownKey, globalOn, cached, thrower, health, aiLog, office, sent, late, counted>>

\* global_ai_enabled reads the row ...
GlobalRead(r) ==
    /\ aiAsk[r].pc = "chosen" /\ cached = "none"
    /\ Goes(r, IF globalOn THEN "fillOn" ELSE "fillOff")
    /\ UNCHANGED <<policy, ownKey, globalOn, cached, thrower, health, aiLog, office, sent, late, counted>>

\* ... and puts what it read in the cache, whatever happened to it in between.
GlobalFill(r) ==
    /\ aiAsk[r].pc \in {"fillOn", "fillOff"}
    /\ cached' = IF aiAsk[r].pc = "fillOn" THEN "on" ELSE "off"
    /\ late' = (aiAsk[r].pc = "fillOn" /\ ~globalOn)
    /\ Goes(r, IF aiAsk[r].pc = "fillOn" THEN "checked" ELSE "ended")
    /\ UNCHANGED <<policy, ownKey, globalOn, thrower, health, aiLog, office, sent, counted>>

\* check(): the policy of the office, the first provider of the chain, the requests of the day.
Admits(r) ==
    LET p == aiAsk[r].chain[1]
    IN policy.enabled /\ (p \in policy.allowed \/ ownKey[p] # "none") /\ aiLog < DailyRequests

Check(r) ==
    /\ aiAsk[r].pc = "checked"
    /\ Goes(r, IF Admits(r) THEN "trying" ELSE "ended")
    /\ UNCHANGED <<policy, ownKey, globalOn, cached, thrower, health, aiLog, office, sent, late, counted>>

\* call() uses the key it finds now: the office's own, else the platform's.
Sending(p, changed) ==
    [trains |-> IF ownKey[p] # "none" THEN p \in TrainsOnFree /\ ownKey[p] = "free" ELSE MayTrain(p),
     allowed |-> ownKey[p] # "none" \/ p \in policy.allowed,
     shadowed |-> ownKey[p] = "free" /\ p \in PaidByUs,
     changed |-> changed]

\* The next provider of the chain, or the end: chat_with_fallback.
NextOf(r) == IF aiAsk[r].at = Len(aiAsk[r].chain) THEN [aiAsk[r] EXCEPT !.pc = "logging"]
             ELSE [aiAsk[r] EXCEPT !.pc = "trying", !.at = aiAsk[r].at + 1]

\* call(): the data leaves, the provider answers or fails; with the office's own key the breaker
\* is left alone, with no key at all nothing leaves.
Call(r) ==
    LET p == aiAsk[r].chain[aiAsk[r].at]
    IN /\ aiAsk[r].pc = "trying"
       /\ sent' = IF ownKey[p] = "none" /\ p \notin Configured THEN sent
                  ELSE sent \cup {Sending(p, aiAsk[r].chosen # office)}
       /\ \/ /\ ownKey[p] # "none"
             /\ \/ aiAsk' = [aiAsk EXCEPT ![r].pc = "logging", ![r].answer = p]
                \/ aiAsk' = [aiAsk EXCEPT ![r] = NextOf(r)]
             /\ UNCHANGED counted
          \/ /\ ownKey[p] = "none" /\ p \notin Configured
             /\ aiAsk' = [aiAsk EXCEPT ![r] = NextOf(r)]
             /\ UNCHANGED counted
          \/ /\ ownKey[p] = "none" /\ p \in Configured
             /\ \E ok \in BOOLEAN :
                   /\ aiAsk' = [aiAsk EXCEPT ![r].pc = IF ok THEN "succeeded" ELSE "failed",
                                         ![r].read = health[p].fails]
                   /\ counted' = [counted EXCEPT
                        ![p] = [run |-> IF ok THEN 0 ELSE counted[p].run + 1,
                                raced |-> counted[p].raced \/ \E q \in AiRequests :
                                    /\ aiAsk[q].pc \in {"succeeded", "failed"}
                                    /\ aiAsk[q].chain[aiAsk[q].at] = p]]
       /\ UNCHANGED <<policy, ownKey, globalOn, cached, thrower, health, aiLog, office, late>>

\* record(): the counter it read is written back, one more or zero; the third failure in a row
\* opens the breaker, and only time closes it.
Counted(fails, ok) == IF ok THEN 0 ELSE fails + 1
OpensLate(fails, ok) == ~ok /\ fails >= FailLimit  \* mutant: the counter before this failure
Opens(fails, ok) == ~ok /\ fails + 1 >= FailLimit

Record(r) ==
    LET p == aiAsk[r].chain[aiAsk[r].at]
        ok == aiAsk[r].pc = "succeeded"
    IN /\ aiAsk[r].pc \in {"succeeded", "failed"}
       /\ health' = [health EXCEPT ![p] = [fails |-> Counted(aiAsk[r].read, ok),
                                           open |-> health[p].open \/ Opens(aiAsk[r].read, ok)]]
       /\ aiAsk' = [aiAsk EXCEPT ![r] = IF ok THEN [aiAsk[r] EXCEPT !.pc = "logging", !.answer = p]
                                    ELSE NextOf(r)]
       /\ UNCHANGED <<policy, ownKey, globalOn, cached, thrower, aiLog, office, sent, late, counted>>

\* The finally of run_guarded: answered or not, the request is counted.
Log(r) ==
    /\ aiAsk[r].pc = "logging"
    /\ aiLog' = aiLog + 1
    /\ Goes(r, "ended")
    /\ UNCHANGED <<policy, ownKey, globalOn, cached, thrower, health, office, sent, late, counted>>

\* The same process serves another request.
Again(r) ==
    /\ aiAsk[r].pc = "ended" /\ aiLog <= DailyRequests
    /\ aiAsk' = [aiAsk EXCEPT ![r] = Idle]
    /\ UNCHANGED <<policy, ownKey, globalOn, cached, thrower, health, aiLog, office, sent, late, counted>>

\* AIGovernancePolicy.save: an empty list becomes all the providers.
OrDefault(allowed) == IF allowed = {} THEN Providers ELSE allowed

\* Governance screen and plug-ins screen of the office.
OfficeChanges ==
    /\ office < MaxOffice
    /\ office' = office + 1
    /\ \/ \E p \in Providers, k \in {"none", "paid", "free"} :
             ownKey[p] # k /\ ownKey' = [ownKey EXCEPT ![p] = k] /\ UNCHANGED policy
       \/ \E p \in policy.allowed : policy' = [policy EXCEPT !.allowed = OrDefault(policy.allowed \ {p})] /\ UNCHANGED ownKey
       \/ policy' = [policy EXCEPT !.enabled = ~policy.enabled] /\ UNCHANGED ownKey
    /\ UNCHANGED <<aiAsk, globalOn, cached, thrower, health, aiLog, sent, late, counted>>

\* set_global_switch saves the row and then drops the cache.
ThrowSwitch ==
    /\ thrower = "idle"
    /\ thrower' = "saved" /\ globalOn' = FALSE
    /\ UNCHANGED <<aiAsk, policy, ownKey, cached, health, aiLog, office, sent, late, counted>>

\* Mutant: the cache is left to expire.
LeaveCache ==
    /\ thrower = "saved"
    /\ thrower' = "thrown"
    /\ UNCHANGED <<aiAsk, policy, ownKey, globalOn, cached, health, aiLog, office, sent, late, counted>>

DropCache ==
    /\ thrower = "saved"
    /\ thrower' = "thrown" /\ cached' = "none" /\ late' = FALSE
    /\ UNCHANGED <<aiAsk, policy, ownKey, globalOn, health, aiLog, office, sent, counted>>

\* 15 seconds after it was put, and 300 seconds after a breaker opened.
CacheExpires ==
    /\ cached # "none" /\ cached' = "none"
    /\ late' = FALSE
    /\ UNCHANGED <<aiAsk, policy, ownKey, globalOn, thrower, health, aiLog, office, sent, counted>>

BreakerCloses(p) ==
    /\ health[p].open
    /\ health' = [health EXCEPT ![p].open = FALSE]
    /\ UNCHANGED <<aiAsk, policy, ownKey, globalOn, cached, thrower, aiLog, office, sent, late, counted>>

AiNext ==
    \/ \E r \in AiRequests : Choose(r) \/ GlobalCached(r) \/ GlobalRead(r) \/ GlobalFill(r) \/ Check(r)
                             \/ Call(r) \/ Record(r) \/ Log(r) \/ Again(r)
    \/ OfficeChanges \/ ThrowSwitch \/ DropCache \/ CacheExpires
    \/ \E p \in Providers : BreakerCloses(p)

AiSpec == AiInit /\ [][AiNext]_aiVars

-----------------------------------------------------------------------------
AiTypeOK ==
    /\ \A r \in AiRequests :
        /\ aiAsk[r].pc \in {"idle", "chosen", "fillOn", "fillOff", "checked", "trying", "succeeded", "failed",
                          "logging", "ended"}
        /\ aiAsk[r].chain \in Seq(Providers) /\ aiAsk[r].answer \in Providers \cup {NoAnswer}
        /\ aiAsk[r].pc \notin {"idle", "ended"} => aiAsk[r].at \in DOMAIN aiAsk[r].chain
    /\ policy.allowed \subseteq Providers /\ ownKey \in [Providers -> {"none", "paid", "free"}]
    /\ cached \in {"none", "on", "off"} /\ thrower \in {"idle", "saved", "thrown"}
    /\ health \in [Providers -> [fails : Nat, open : BOOLEAN]] /\ aiLog \in Nat

\* Client data never goes to a provider that trains on it (src/aigov/llm.py:11) or that the office
\* has not allowed, whatever falls back to whatever, as long as the office does not change its keys
\* or its policy under a request that has already chosen its providers, and no free key of its own
\* stands before an account the platform pays for (NeverTrains).
DataStaysPrivate == \A s \in sent : ~s.changed /\ ~s.shadowed => ~s.trains /\ s.allowed

\* The promise of src/aigov/llm.py:11 without the conditions.  candidates() passes over the office's
\* free key and then takes the provider for the platform's paid account; call() sends with the key.
NeverTrains == \A s \in sent : ~s.trains

\* Once set_global_switch has returned, the cache says "on" only if a reader had read the row before
\* it was saved and put its answer after the cache was dropped (src/aigov/guard.py:33).
SwitchCuts == thrower = "thrown" /\ cached = "on" => late

\* Requests that overlap may pass the daily limit together, but never by more than the number of
\* those that overlap less one (src/aigov/guard.py:73).
OverrunIsBounded ==
    aiLog + Cardinality({r \in AiRequests : aiAsk[r].pc \in {"trying", "succeeded", "failed", "logging"}})
        <= IF DailyRequests = 0 THEN 0 ELSE DailyRequests + Cardinality(AiRequests) - 1

\* The guard of every AI call: the switch cuts (SwitchCuts) and the daily limit is passed by no more
\* than the requests that overlap (OverrunIsBounded).
GuardHolds == SwitchCuts /\ OverrunIsBounded

\* A breaker opens at the FAIL_LIMITth failure in a row and not before, unless two requests
\* recorded the same provider at the same time (src/aigov/routing.py:87).
BreakerIsRight ==
    \A r \in AiRequests, p \in Providers :
        Record(r) /\ p = aiAsk[r].chain[aiAsk[r].at] /\ ~counted[p].raced =>
            (health'[p].open <=> health[p].open
                \/ (aiAsk[r].pc = "failed" /\ counted[p].run >= FailLimit))

\* The switch and the limit of the guard, and the breakers of the providers: every step leaves GuardHolds
\* (which an office without requests has) and takes BreakerIsRight.
AICallsKept == [][GuardHolds' /\ BreakerIsRight]_aiVars
=============================================================================
