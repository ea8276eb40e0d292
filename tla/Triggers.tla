------------------------------ MODULE Triggers ------------------------------
(***************************************************************************)
(* How time fires a rule: tick and _daily (src/automations/engine.py),     *)
(* called every 15 minutes.  A tick lists what is due, by the trigger of   *)
(* the rule, and executes the rule for one thing after the other; the      *)
(* dedupe key of the run is what keeps the next tick, or one that overlaps,*)
(* from firing again.  The builder of the trigger (context.py) reads the   *)
(* thing again.  What a run then does is RuleRuns.                         *)
(*                                                                         *)
(* A day has two slots, before and after the hour from which most triggers *)
(* are looked at.  monthly_goal goes as contact_birthday, a month a year,  *)
(* case_stale as opportunity_stale, and contract_ending as                 *)
(* receivable_before.                                                      *)
(***************************************************************************)
EXTENDS Integers, FiniteSets

CONSTANTS
    Things,       \* the tasks, appointments, receivables, ... one rule looks at
    Tickers,      \* queue workers that run tick
    LastDay,      \* bound: days are 0 .. LastDay
    RestDays,   \* days that are not business days
    Lead,         \* trigger_config: days before the date, after it, or without a change
    OverdueDays,  \* for how long an overdue task is looked at (7)
    YearDays,     \* days of a year
    MaxTouches, MaxTickTrouble \* bounds: changes by people, ticks that die or switches of the rule

CalDays == 0 .. LastDay
ASSUME TriggersAssumption ==
    /\ LastDay \in Nat /\ RestDays \subseteq CalDays /\ {Lead, OverdueDays, YearDays} \subseteq Nat \ {0}
    /\ MaxTouches \in Nat /\ MaxTickTrouble \in Nat

TimeTriggers == {"deadline_soon", "calendar_event", "task_overdue", "receivable_before", "receivable_after",
                 "opportunity_stale", "contact_birthday", "schedule"}

VARIABLES
    trigger,  \* Rule.trigger
    ruleOn,   \* Rule.enabled
    thing,    \* [date, live: open, not cancelled, not paid; stay: which stay in a stage]
    slot,      \* the time: two a day
    ticks,    \* a tick: [pc, at: its now, jobs: what it listed and has not executed]
    fired,    \* RuleRun rows: dedupe keys
    touches, tickTrouble,
    runs,     \* history: each run, with the thing as it was listed and as the builder read it
    untouched,    \* history: things nobody touched today
    sure      \* history: "on" since the late slot began, or "swept": and a tick of it has ended

trgVars == <<trigger, ruleOn, thing, slot, ticks, fired, touches, tickTrouble, runs, untouched, sure>>

ThingRow == [date : CalDays, live : BOOLEAN, stay : 0 .. MaxTouches]
JobRow == [of : Things, stamp : Nat, listed : ThingRow]

DayOf(now) == now \div 2
IsLate(now) == now % 2 = 1
NoTick == [pc |-> "idle", at |-> 0, jobs |-> {}]

TrgInit ==
    /\ trigger \in TimeTriggers /\ ruleOn = TRUE
    /\ \E dates \in [Things -> CalDays] : thing = [x \in Things |-> [date |-> dates[x], live |-> TRUE, stay |-> 0]]
    /\ slot = 0 /\ ticks = [w \in Tickers |-> NoTick] /\ fired = {}
    /\ touches = 0 /\ tickTrouble = 0 /\ runs = {} /\ untouched = Things /\ sure = "no"

-----------------------------------------------------------------------------
\* Calendar.add: the n-th business day after a day (CourtCalendar has the loop).
BusinessDays(from, to) == {d \in from + 1 .. to : d \notin RestDays}
IsAdded(day, n, to) == to > day /\ to \notin RestDays /\ Cardinality(BusinessDays(day, to)) = n

\* The triggers that are looked at only from 8 or 9 in the morning, or from the hour of the rule.
FromTheHour == TimeTriggers \ {"deadline_soon", "task_overdue"}

\* Overdue: scheduled before now minus Lead days, and not more than a week before that.
IsOverdue(date, now) == LET limit == now - 2 * Lead IN 2 * date < limit /\ 2 * date >= limit - 2 * OverdueDays

IsDue(x, now) ==
    LET today == DayOf(now)
        date == thing[x].date IN
    /\ thing[x].live
    /\ trigger \in FromTheHour => IsLate(now)
    /\ trigger = "deadline_soon" => IsAdded(today, Lead, date)
    /\ trigger \in {"calendar_event", "receivable_before"} => date = today + Lead
    /\ trigger = "receivable_after" => date = today - Lead
    /\ trigger = "task_overdue" => IsOverdue(date, now)
    /\ trigger = "opportunity_stale" => date <= today - Lead
    /\ trigger = "contact_birthday" => date % YearDays = today % YearDays
    /\ trigger = "schedule" => x = (CHOOSE y \in Things : TRUE) /\ today \notin RestDays

\* The dedupe key; mutant: the day of the tick is in every key.
StampByDay(x, now) == DayOf(now)
Stamp(x, now) ==
    CASE trigger = "schedule" -> DayOf(now)
      [] trigger = "contact_birthday" -> DayOf(now) \div YearDays
      [] trigger = "opportunity_stale" -> thing[x].stay
      [] OTHER -> 0
Job(x, now) == [of |-> x, stamp |-> Stamp(x, now), listed |-> thing[x]]

-----------------------------------------------------------------------------
\* tick: the rules that are on, and for this one what is due now.
TickStart(w) ==
    /\ ticks[w].pc = "idle" /\ ruleOn
    /\ ticks' = [ticks EXCEPT ![w] = [pc |-> "run", at |-> slot, jobs |-> {Job(x, slot) : x \in {y \in Things : IsDue(y, slot)}}]]
    /\ UNCHANGED <<trigger, ruleOn, thing, slot, fired, touches, tickTrouble, runs, untouched, sure>>

\* Builders that look again whether the thing is still open; mutant: none does.
RereadNever(x) == TRUE
Reread(x) == trigger \in {"deadline_soon", "calendar_event", "task_overdue"} => thing[x].live

KeyOf(job) == <<job.of, job.stamp>>
NthOf(x) == Cardinality({r \in runs : r.of = x}) + 1

\* execute: the rule is read again, the context is built and the run is inserted, if its key is new.
TickExecutes(w, job) ==
    /\ ticks[w].pc = "run" /\ job \in ticks[w].jobs
    /\ ticks' = [ticks EXCEPT ![w].jobs = ticks[w].jobs \ {job}]
    /\ IF ruleOn /\ Reread(job.of) /\ KeyOf(job) \notin fired
       THEN /\ fired' = fired \cup {KeyOf(job)}
            /\ runs' = runs \cup {[of |-> job.of, nth |-> NthOf(job.of), day |-> DayOf(ticks[w].at),
                                   listed |-> job.listed, read |-> thing[job.of]]}
       ELSE UNCHANGED <<fired, runs>>
    /\ UNCHANGED <<trigger, ruleOn, thing, slot, touches, tickTrouble, untouched, sure>>

TickEnds(w) ==
    /\ ticks[w].pc = "run" /\ ticks[w].jobs = {}
    /\ ticks' = [ticks EXCEPT ![w] = NoTick]
    /\ sure' = IF sure = "on" /\ ticks[w].at = slot THEN "swept" ELSE sure
    /\ UNCHANGED <<trigger, ruleOn, thing, slot, fired, touches, tickTrouble, runs, untouched>>

\* Over a minute, or the worker is restarted: the rest of the list waits for the next tick.
TickDies(w) ==
    /\ ticks[w].pc = "run" /\ tickTrouble < MaxTickTrouble /\ tickTrouble' = tickTrouble + 1
    /\ ticks' = [ticks EXCEPT ![w] = NoTick]
    /\ UNCHANGED <<trigger, ruleOn, thing, slot, fired, touches, runs, untouched, sure>>

-----------------------------------------------------------------------------
TouchesThing(x, new) ==
    /\ touches < MaxTouches /\ touches' = touches + 1
    /\ thing' = [thing EXCEPT ![x] = new] /\ untouched' = untouched \ {x}
    /\ UNCHANGED <<trigger, ruleOn, slot, ticks, fired, tickTrouble, runs, sure>>

\* Completed, cancelled, paid, won, lost, opted out; or open again.
OpensOrCloses(x) == trigger # "schedule" /\ TouchesThing(x, [thing[x] EXCEPT !.live = ~thing[x].live])

\* Another date; a receivable keeps its own, and a change of stage is made today.
Moves(x, d) ==
    /\ trigger \notin {"schedule", "receivable_before", "receivable_after"} /\ d # thing[x].date
    /\ trigger = "opportunity_stale" => d = DayOf(slot)
    /\ TouchesThing(x, [thing[x] EXCEPT !.date = d, !.stay = IF trigger = "opportunity_stale" THEN thing[x].stay + 1 ELSE 0])

SwitchesRule ==
    /\ tickTrouble < MaxTickTrouble \/ ~ruleOn
    /\ tickTrouble' = IF ruleOn THEN tickTrouble + 1 ELSE tickTrouble
    /\ ruleOn' = ~ruleOn /\ sure' = "no"
    /\ UNCHANGED <<trigger, thing, slot, ticks, fired, touches, runs, untouched>>

TimePasses ==
    /\ slot < 2 * LastDay + 1 /\ slot' = slot + 1
    /\ untouched' = IF IsLate(slot) THEN Things ELSE untouched
    /\ sure' = IF ruleOn /\ IsLate(slot + 1) THEN "on" ELSE "no"
    /\ UNCHANGED <<trigger, ruleOn, thing, ticks, fired, touches, tickTrouble, runs>>

TrgNext ==
    \/ \E w \in Tickers :
        \/ TickStart(w) \/ \E job \in ticks[w].jobs : TickExecutes(w, job)
        \/ TickEnds(w) \/ TickDies(w)
    \/ \E x \in Things : OpensOrCloses(x) \/ \E d \in CalDays : Moves(x, d)
    \/ SwitchesRule \/ TimePasses

TrgSpec == TrgInit /\ [][TrgNext]_trgVars

-----------------------------------------------------------------------------
TrgTypeOK ==
    /\ trigger \in TimeTriggers /\ ruleOn \in BOOLEAN /\ slot \in 0 .. 2 * LastDay + 1
    /\ thing \in [Things -> ThingRow]
    /\ ticks \in [Tickers -> [pc : {"idle", "run"}, at : 0 .. 2 * LastDay + 1, jobs : SUBSET JobRow]]
    /\ \A w \in Tickers : ticks[w].at <= slot
    /\ fired \subseteq Things \X Nat /\ touches \in 0 .. MaxTouches /\ tickTrouble \in 0 .. MaxTickTrouble
    /\ untouched \subseteq Things /\ sure \in {"no", "on", "swept"}

\* Two runs for one thing have different occasions: another day of the agenda, another birthday,
\* another stay in a stage; any other trigger fires once for a thing, whatever overlaps or is repeated.
DifferentOccasions(r, s) ==
    \/ trigger = "schedule" /\ r.day # s.day
    \/ trigger = "contact_birthday" /\ r.day \div YearDays # s.day \div YearDays
    \/ trigger = "opportunity_stale" /\ r.listed.stay # s.listed.stay
OncePerOccasion == \A r, s \in runs : r.of = s.of /\ r # s => DifferentOccasions(r, s)

\* A run is of a thing that is open when it is built.  The triggers of receivables, stages, contracts and
\* birthdays do not look again (src/automations/context.py:134): what was listed and then closed still runs.
StillOpen == \A r \in runs : r.listed.live /\ (trigger \in {"deadline_soon", "calendar_event", "task_overdue"} => r.read.live)

\* When a tick has ended in a late slot in which the rule stayed on, everything due that nobody touched today
\* has had its run, whatever died, overlapped or went before; but a thing that was moved after its run is
\* not told of again: its key does not have the date (src/automations/engine.py:656).
RunAt(x, now) ==
    \E r \in runs :
        /\ r.of = x
        /\ trigger \in {"opportunity_stale", "schedule"} => r.listed.date = thing[x].date
        /\ trigger = "schedule" => r.day = DayOf(now)
        /\ trigger = "contact_birthday" => r.day \div YearDays = DayOf(now) \div YearDays
        /\ trigger = "opportunity_stale" => r.listed.stay = thing[x].stay
NoneForgotten == sure = "swept" => \A x \in untouched : IsDue(x, slot) => RunAt(x, slot)

\* Time fires a rule for every due thing, once, and only while it is open.
RemindersKept == OncePerOccasion /\ StillOpen /\ NoneForgotten
=============================================================================
