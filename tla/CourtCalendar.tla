----------------------------- MODULE CourtCalendar -----------------------------
(***************************************************************************)
(* The court calendar and the counting of procedural deadlines             *)
(* (src/forense/calendar.py): which days are business days for a court,    *)
(* the day a deadline of n business days ends, and the day n business days *)
(* before it.  A day is its proleptic ordinal (datetime.date.toordinal).   *)
(* The loops of count and back are steps, so that their invariants are     *)
(* those of the code.                                                      *)
(***************************************************************************)
EXTENDS Integers, FiniteSets

CONSTANTS
    Courts,       \* tribunais asked for
    Federal,      \* those of the Justica Federal (trf...)
    AllCourts,    \* tribunal = '': holds for every court
    Years,        \* bound: years with a calendar; the loops of count and back stop where they end
    FeastYears,   \* bound: years whose Easter is computed, of those of the tables of EasterIsRight
    Starts,       \* bound: dates a deadline is counted from, <<year, month, day>>
    Lengths,      \* bound: days asked for
    MaxDays,      \* MAX_DAYS
    Fixed,        \* FIXED: <<month, day>>
    FederalExtra, \* FEDERAL_EXTRA
    Holidays,     \* Holiday rows of the office: [court, yearly, date: <<year, month, day>>]
    Suspensions   \* CourtSuspension rows: [court, whole: no comarca named, from, to: <<year, month, day>>]

ASSUME CourtAssumption ==
    Years \subseteq Nat \ {0} /\ FeastYears \subseteq 1900 .. 2199 /\ Lengths \subseteq Nat /\ MaxDays \in Nat /\ Federal \subseteq Courts

VARIABLES deadline  \* one call of count and back: [pc, court, start, days, eve, published, day, counted, skipped, year]

ccVars == <<deadline>>

-----------------------------------------------------------------------------
\* datetime.date: ordinals, and back.
Leap(y) == y % 4 = 0 /\ (y % 100 # 0 \/ y % 400 = 0)
MonthDays(y) == <<31, IF Leap(y) THEN 29 ELSE 28, 31, 30, 31, 30, 31, 31, 30, 31, 30, 31>>
DaysBefore(y) == [m \in 1 .. 13 |-> Cardinality({md \in (1 .. 12) \X (1 .. 31) : md[1] < m /\ md[2] <= MonthDays(y)[md[1]]})]
Before == [y \in Years \cup FeastYears |-> DaysBefore(y)]
Ordinal(y, m, d) == 365 * (y - 1) + (y - 1) \div 4 - (y - 1) \div 100 + (y - 1) \div 400 + Before[y][m] + d
Weekday(n) == (n + 6) % 7
Horizon == UNION {Ordinal(y, 1, 1) .. Ordinal(y, 12, 31) : y \in Years}
Civil == [n \in Horizon |->
    LET y == CHOOSE x \in Years : Ordinal(x, 1, 1) <= n /\ n <= Ordinal(x, 12, 31)
        m == CHOOSE x \in 1 .. 12 : Ordinal(y, x, 1) <= n /\ n < Ordinal(y, x, 1) + MonthDays(y)[x]
    IN <<y, m, n - Ordinal(y, m, 1) + 1>>]

IsDate(date) == date[1] \in Years /\ date[2] \in 1 .. 12 /\ date[3] \in 1 .. MonthDays(date[1])[date[2]]

\* The dates of the rows are dates, and those of calendar.py are dates of every year.
ASSUME DatesAssumption ==
    /\ \A md \in Fixed \cup FederalExtra : md[1] \in 1 .. 12 /\ md[2] \in 1 .. MonthDays(1)[md[1]]
    /\ \A h \in Holidays : IsDate(h.date)
    /\ \A s \in Suspensions : IsDate(s.from) /\ IsDate(s.to)
    /\ \A s \in Starts : IsDate(s)

\* easter: Meeus, Jones and Butcher.
Easter(y) ==
    LET a == y % 19            b == y \div 100       c == y % 100
        d == b \div 4          e == b % 4            f == (b + 8) \div 25
        g == (b - f + 1) \div 3
        h == (19 * a + b - d - g + 15) % 30
        i == c \div 4          k == c % 4
        l == (32 + 2 * e + 2 * i - h - k) % 7
        m == (a + 11 * h + 22 * l) \div 451
        r == h + l - 7 * m + 114
    IN Ordinal(y, r \div 31, (r % 31) + 1)

\* national_closures: the fixed holidays and the days the courts close around Easter.
NationalClosures(y, federal) ==
    {Ordinal(y, md[1], md[2]) : md \in Fixed} \cup {Easter(y) - 48, Easter(y) - 47, Easter(y) - 2, Easter(y) + 60}
    \cup IF federal THEN {Easter(y) - 4, Easter(y) - 3} \cup {Ordinal(y, md[1], md[2]) : md \in FederalExtra} ELSE {}

\* in_recess; mutant: the 20th of January is open.
RecessToThe19th(date) == (date[2] = 12 /\ date[3] >= 20) \/ (date[2] = 1 /\ date[3] < 20)
InRecess(date) == (date[2] = 12 /\ date[3] >= 20) \/ (date[2] = 1 /\ date[3] <= 20)

\* Calendar.__init__ and _suspensions: what the office registered for the court, and the suspensions of
\* the whole court.
HoldsFor(row, court) == row.court \in {AllCourts, court}
Registered(court, date) ==
    \/ \E h \in Holidays :
        HoldsFor(h, court) /\ h.date[2] = date[2] /\ h.date[3] = date[3] /\ (h.yearly \/ h.date[1] = date[1])
    \/ \E s \in Suspensions :
        /\ s.whole /\ HoldsFor(s, court)
        /\ Ordinal(date[1], date[2], date[3]) \in
              Ordinal(s.from[1], s.from[2], s.from[3]) .. Ordinal(s.to[1], s.to[2], s.to[3])

\* reason: why a day is not a business day.
Reason(court, n) ==
    \/ Weekday(n) \in {5, 6}
    \/ InRecess(Civil[n])
    \/ n \in NationalClosures(Civil[n][1], court \in Federal)
    \/ Registered(court, Civil[n])

ClosedDays == [court \in Courts |-> {n \in Horizon : Reason(court, n)}]
IsBusinessDay(court, n) == n \notin ClosedDays[court]

-----------------------------------------------------------------------------
NoDeadline == [pc |-> "none", court |-> AllCourts, start |-> 0, days |-> 0, eve |-> FALSE, published |-> 0, day |-> 0,
               counted |-> 0, skipped |-> {}, year |-> 0]

CcInit == deadline = NoDeadline

\* count is called; a number of days out of range is an error.
AskDeadline ==
    /\ deadline.pc = "none"
    /\ \E court \in Courts, s \in Starts, n \in Lengths, eve \in BOOLEAN :
        LET start == Ordinal(s[1], s[2], s[3])
        IN deadline' = [NoDeadline EXCEPT !.court = court, !.start = start, !.days = n, !.eve = eve,
                            !.pc = IF n \notin 1 .. MaxDays THEN "refused" ELSE IF eve THEN "publishing" ELSE "counting",
                            !.published = start, !.day = IF eve THEN start + 1 ELSE start]

\* next_business_day from the day after the gazette made it available.
PublishOn ==
    /\ deadline.pc = "publishing" /\ deadline.day \in Horizon
    /\ deadline' = IF IsBusinessDay(deadline.court, deadline.day)
                   THEN [deadline EXCEPT !.pc = "counting", !.published = deadline.day]
                   ELSE [deadline EXCEPT !.skipped = deadline.skipped \cup {deadline.day}, !.day = deadline.day + 1]

\* One turn of the loop of count.
CountDay ==
    LET next == deadline.day + 1
    IN /\ deadline.pc = "counting" /\ deadline.counted < deadline.days /\ next \in Horizon
       /\ deadline' = IF IsBusinessDay(deadline.court, next)
                      THEN [deadline EXCEPT !.day = next, !.counted = deadline.counted + 1]
                      ELSE [deadline EXCEPT !.day = next, !.skipped = deadline.skipped \cup {next}]

Answered == deadline.pc = "counting" /\ deadline.counted = deadline.days

\* back, from the day the deadline ends: the loop counts down the same number of business days.
BackDay ==
    /\ Answered \/ (deadline.pc = "back" /\ deadline.counted > 0)
    /\ deadline.day - 1 \in Horizon
    /\ deadline' = [deadline EXCEPT !.pc = "back", !.day = deadline.day - 1,
                        !.counted = IF IsBusinessDay(deadline.court, deadline.day - 1) THEN deadline.counted - 1
                                    ELSE deadline.counted]

\* easter is asked for a year.
AskEaster ==
    /\ deadline.pc = "none"
    /\ \E y \in FeastYears : deadline' = [NoDeadline EXCEPT !.pc = "feast", !.year = y, !.day = Easter(y)]

CcNext == AskDeadline \/ PublishOn \/ CountDay \/ BackDay \/ AskEaster

CcSpec == CcInit /\ [][CcNext]_ccVars

-----------------------------------------------------------------------------
CcTypeOK ==
    /\ deadline.pc \in {"none", "refused", "publishing", "counting", "back", "feast"}
    /\ deadline.start \in Nat /\ deadline.day \in Nat /\ deadline.counted \in 0 .. MaxDays
    /\ deadline.skipped \subseteq Horizon /\ deadline.pc \in {"counting", "back"} => deadline.days \in 1 .. MaxDays

\* The rules themselves, as src/forense/calendar.py:3-9 quotes them from the law, stated over whole
\* years instead of day by day: weekends, the recess from 20 December to 20 January as an interval, the
\* fixed and the moving closures, and what was registered.
Interval(from, to) == Ordinal(from[1], from[2], from[3]) .. Ordinal(to[1], to[2], to[3])
Weekends == {n \in Horizon : (n - 738891) % 7 \in {0, 1}}  \* 738891 is Saturday, 6 January 2024
Recesses == UNION {Interval(<<y, 12, 20>>, <<y, 12, 31>>) \cup Interval(<<y, 1, 1>>, <<y, 1, 20>>) : y \in Years}
ClosureDays(court) == UNION {NationalClosures(y, court \in Federal) : y \in Years}
\* What the office registered: a day of every year that has it, one day, and the days of a suspension.
RowDays(court) == {n \in Horizon :
    \/ \E h \in Holidays, y \in Years :
        /\ HoldsFor(h, court) /\ (h.yearly \/ h.date[1] = y)
        /\ h.date[3] <= MonthDays(y)[h.date[2]] /\ n = Ordinal(y, h.date[2], h.date[3])
    \/ \E s \in Suspensions : s.whole /\ HoldsFor(s, court) /\ n \in Interval(s.from, s.to)}
ByLaw == [court \in Courts |-> Horizon \ (Weekends \cup Recesses \cup ClosureDays(court) \cup RowDays(court))]
OpenIn(from, to) == ByLaw[deadline.court] \cap (from .. to)

\* A deadline ends on a business day, and that day and the publication are n business days apart:
\* the day of the publication does not count and the last one does; a text made available in the gazette
\* is published on the next business day; the days it was told were skipped are those that are closed
\* (src/forense/calendar.py:118).  The publication itself may be a closed day when it is given and not
\* computed: it is then left out as it is, and not moved to the next business day first.
CountIsRight ==
    LET d == deadline IN
    /\ d.pc = "counting" => Cardinality(OpenIn(d.published + 1, d.day)) = d.counted
    /\ d.pc = "counting" /\ d.eve => d.published \in OpenIn(d.start + 1, d.day) /\ OpenIn(d.start + 1, d.published - 1) = {}
    /\ Answered => d.day \in ByLaw[d.court] /\ d.skipped = (d.start + 1 .. d.day) \ ByLaw[d.court]

\* Counting back n business days from the end of a deadline of n gives the day it was counted from,
\* or the last business day before that one if it is closed.
BackReturns ==
    deadline.pc = "back" /\ deadline.counted = 0 =>
        /\ deadline.day \in ByLaw[deadline.court] /\ deadline.day <= deadline.published
        /\ OpenIn(deadline.day + 1, deadline.published) = {}

\* Easter is the first Sunday after the full moon that falls on 21 March or later.  By the tables of
\* 1900 to 2199 that moon comes (24 + 19 (y mod 19)) mod 30 days after 21 March, and a day earlier where
\* this would be 19 April, or 18 April in the second half of the cycle of 19 years
\* (src/forense/calendar.py:25).
PaschalMoon(y) ==
    LET late == (24 + 19 * (y % 19)) % 30
    IN Ordinal(y, 3, 21) + (IF late = 29 \/ (late = 28 /\ y % 19 > 10) THEN late - 1 ELSE late)
EasterIsRight ==
    deadline.pc = "feast" =>
        deadline.day = CHOOSE n \in PaschalMoon(deadline.year) + 1 .. PaschalMoon(deadline.year) + 7 : Weekday(n) = 6

\* What the calendar tells is right: CountIsRight, BackReturns and EasterIsRight.
DeadlinesAreRight == CountIsRight /\ BackReturns /\ EasterIsRight
=============================================================================
