----------------------------- MODULE CaseMonitor -----------------------------
(***************************************************************************)
(* The watch over one court case (src/research/monitor.py): a daily task   *)
(* and members who press "check now" ask the court's public source for the *)
(* movements of the case, store those that are not stored yet, tell the    *)
(* person in charge and tell the rules.  The first check only stores: the  *)
(* old movements are history, not news.  Nothing holds a lock; the unique  *)
(* key (case, digest) decides who stored a movement first, and only that   *)
(* check tells of it.                                                      *)
(***************************************************************************)
EXTENDS Naturals

CONSTANTS
    Movements,       \* digests of the movements the court may publish
    Checkers,        \* the daily task and the requests that check now
    MaxMonitorTrouble \* bound: deaths, notices and triggers that fail

ASSUME MonitorAssumption == MaxMonitorTrouble \in Nat

VARIABLES
    source,   \* movements the court has published
    case,     \* MonitoredCase: "new" (last_checked_at is null), "checked" or "removed"
    stored,   \* CaseMovement rows
    notified, \* those with notified = True
    check,    \* a check: [pc, first, todo: what is left of the answer, created]
    told,     \* notices that name the movement
    ruled,    \* times the rules were told of it
    troubles,
    history,  \* history: what the first answer of the court held, once there is one
    quiet,    \* history: movements stored by a first check
    failed,   \* history: a check failed before one had been saved
    unheard   \* history: movements whose news was cut off by a death or an error

monVars == <<source, case, stored, notified, check, told, ruled, troubles, history, quiet, failed, unheard>>

NotChecking == [pc |-> "idle", first |-> FALSE, todo |-> {}, created |-> {}]

MonInit ==
    /\ source \in SUBSET Movements /\ case = "new" /\ stored = {} /\ notified = {}
    /\ check = [c \in Checkers |-> NotChecking]
    /\ told = [m \in Movements |-> 0] /\ ruled = told
    /\ troubles = 0 /\ history = {} /\ quiet = {} /\ failed = FALSE /\ unheard = {}

MonTrouble == troubles < MaxMonitorTrouble /\ troubles' = troubles + 1

Doing(c, pc) == check[c].pc = pc
Stop(c) == check' = [check EXCEPT ![c] = NotChecking]
GoTo(c, pc) == check' = [check EXCEPT ![c].pc = pc]

-----------------------------------------------------------------------------
CourtPublishes(m) ==
    /\ source' = source \cup {m} /\ source' # source
    /\ UNCHANGED <<case, stored, notified, check, told, ruled, troubles, history, quiet, failed, unheard>>

\* check_all has loaded the case, or check_now has: "first" is decided on that copy.
LoadCase(c) ==
    /\ Doing(c, "idle") /\ case # "removed"
    /\ check' = [check EXCEPT ![c] = [NotChecking EXCEPT !.pc = "ask", !.first = case = "new"]]
    /\ UNCHANGED <<source, case, stored, notified, told, ruled, troubles, history, quiet, failed, unheard>>

\* datajud.search_case answers with everything it knows of the case.
CourtAnswers(c) ==
    /\ Doing(c, "ask")
    /\ check' = [check EXCEPT ![c].pc = "store", ![c].todo = source]
    /\ history' = IF history = {} THEN {source} ELSE history
    /\ UNCHANGED <<source, case, stored, notified, told, ruled, troubles, quiet, failed, unheard>>

\* An error, or a case the source does not know: that is saved as a check too.
CourtFails(c) ==
    /\ Doing(c, "ask")
    /\ case' = IF case = "removed" THEN case ELSE "checked"
    /\ failed' = (failed \/ case = "new")
    /\ Stop(c)
    /\ UNCHANGED <<source, stored, notified, told, ruled, troubles, history, quiet, unheard>>

\* get_or_create under uniq_movement_per_case.
IsNews(m) == m \notin stored

\* Mutant: every movement of the answer counts as created.
CreatedAll(c, m) == check[c].created \cup {m}
CreatedNow(c, m) == IF IsNews(m) THEN check[c].created \cup {m} ELSE check[c].created

StoreMovement(c, m) ==
    /\ Doing(c, "store") /\ m \in check[c].todo /\ case # "removed"
    /\ stored' = stored \cup {m}
    /\ notified' = IF IsNews(m) /\ check[c].first THEN notified \cup {m} ELSE notified
    /\ quiet' = IF IsNews(m) /\ check[c].first THEN quiet \cup {m} ELSE quiet
    /\ check' = [check EXCEPT ![c].todo = check[c].todo \ {m}, ![c].created = CreatedNow(c, m)]
    /\ UNCHANGED <<source, case, told, ruled, troubles, history, failed, unheard>>

\* case.save: only now is the case "checked".
SaveCheck(c) ==
    /\ Doing(c, "store") /\ check[c].todo = {} /\ case # "removed"
    /\ case' = "checked"
    /\ IF check[c].created = {} \/ check[c].first THEN Stop(c) ELSE GoTo(c, "tell")
    /\ UNCHANGED <<source, stored, notified, told, ruled, troubles, history, quiet, failed, unheard>>

\* The row is gone: the insert breaks its foreign key, or the update finds nothing, and raises.
CaseIsGone(c) ==
    /\ Doing(c, "store") /\ case = "removed"
    /\ Stop(c)
    /\ UNCHANGED <<source, case, stored, notified, told, ruled, troubles, history, quiet, failed, unheard>>

Once(count, set) == [m \in Movements |-> IF m \in set THEN count[m] + 1 ELSE count[m]]

\* One notice for all of them; notify swallows its errors.
TellPerson(c) ==
    /\ Doing(c, "tell")
    /\ \/ told' = Once(told, check[c].created) /\ UNCHANGED <<troubles, unheard>>
       \/ MonTrouble /\ unheard' = unheard \cup check[c].created /\ UNCHANGED told
    /\ GoTo(c, "mark")
    /\ UNCHANGED <<source, case, stored, notified, ruled, history, quiet, failed>>

MarkNotified(c) ==
    /\ Doing(c, "mark")
    /\ notified' = notified \cup (check[c].created \cap stored)
    /\ GoTo(c, "emit")
    /\ UNCHANGED <<source, case, stored, told, ruled, troubles, history, quiet, failed, unheard>>

\* emit('case_movement'), which swallows its errors as well.
TellRulesOfCase(c) ==
    /\ Doing(c, "emit")
    /\ \/ ruled' = Once(ruled, check[c].created) /\ UNCHANGED <<troubles, unheard>>
       \/ MonTrouble /\ unheard' = unheard \cup check[c].created /\ UNCHANGED ruled
    /\ Stop(c)
    /\ UNCHANGED <<source, case, stored, notified, told, history, quiet, failed>>

CheckerDies(c) ==
    /\ ~Doing(c, "idle") /\ MonTrouble
    /\ unheard' = IF check[c].first THEN unheard ELSE unheard \cup check[c].created
    /\ Stop(c)
    /\ UNCHANGED <<source, case, stored, notified, told, ruled, history, quiet, failed>>

\* CaseDetailView.delete takes the movements with it.
RemoveCase ==
    /\ case # "removed"
    /\ case' = "removed" /\ stored' = {} /\ notified' = {}
    /\ UNCHANGED <<source, check, told, ruled, troubles, history, quiet, failed, unheard>>

MonNext ==
    \/ \E m \in Movements : CourtPublishes(m)
    \/ RemoveCase
    \/ \E c \in Checkers :
        \/ LoadCase(c) \/ CourtAnswers(c) \/ CourtFails(c) \/ SaveCheck(c) \/ CaseIsGone(c)
        \/ \E m \in Movements : StoreMovement(c, m)
        \/ TellPerson(c) \/ MarkNotified(c) \/ TellRulesOfCase(c) \/ CheckerDies(c)

MonSpec == MonInit /\ [][MonNext]_monVars

-----------------------------------------------------------------------------
CheckPcs == {"idle", "ask", "store", "tell", "mark", "emit"}

MonTypeOK ==
    /\ source \subseteq Movements /\ case \in {"new", "checked", "removed"}
    /\ stored \subseteq Movements /\ notified \subseteq stored
    /\ check \in [Checkers -> [pc : CheckPcs, first : BOOLEAN, todo : SUBSET Movements, created : SUBSET Movements]]
    /\ told \in [Movements -> Nat] /\ ruled \in [Movements -> Nat] /\ troubles \in 0 .. MaxMonitorTrouble
    /\ history \subseteq SUBSET Movements /\ quiet \subseteq Movements /\ failed \in BOOLEAN /\ unheard \subseteq Movements

\* However checks overlap, fail and die, a movement is told of once (src/research/monitor.py:1); what
\* was history when the court first answered is never news, unless a check that failed was saved as
\* the first one (monitor.py:21, 28); and when nothing is going on, the person and the rules have been
\* told of every movement that was stored as news, except of those a death or an error cut off, which
\* no later check tells (monitor.py:34).
NewsToldOnce ==
    /\ \A m \in Movements : told[m] <= 1 /\ ruled[m] <= 1
    /\ failed \/ \A m \in UNION history : told[m] = 0 /\ ruled[m] = 0
    /\ (\A c \in Checkers : Doing(c, "idle")) =>
        \A m \in stored : m \in quiet \/ m \in unheard \/ (told[m] = 1 /\ ruled[m] = 1 /\ m \in notified)
=============================================================================
