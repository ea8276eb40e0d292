---------------------------- MODULE MCCourtCalendar ----------------------------
(* CourtCalendar: what the code and an office have registered. *)
EXTENDS CourtCalendar

FixedDays == {<<1, 1>>, <<4, 21>>, <<5, 1>>, <<9, 7>>, <<10, 12>>, <<11, 2>>, <<11, 15>>, <<11, 20>>, <<12, 25>>}
FederalDays == {<<8, 11>>, <<11, 1>>, <<12, 8>>}

CONSTANTS all, tjsp, trf3

\* A holiday of one court on one day, one of the city every year, one on a day that most years
\* do not have, a suspension of a court and one of a single comarca, which does not count.
OfficeHolidays ==
    {[court |-> tjsp, yearly |-> FALSE, date |-> <<2026, 3, 3>>], [court |-> all, yearly |-> TRUE, date |-> <<2020, 1, 26>>],
     [court |-> trf3, yearly |-> TRUE, date |-> <<2024, 2, 29>>]}
CourtClosures ==
    {[court |-> trf3, whole |-> TRUE, from |-> <<2026, 2, 25>>, to |-> <<2026, 2, 27>>],
     [court |-> all, whole |-> FALSE, from |-> <<2026, 3, 4>>, to |-> <<2026, 3, 4>>]}

\* Two weeks around Carnival, the end of a February with 29 days, Easter, the two ends of the recess and
\* the days of the federal courts.
SomeDays ==
    {<<2026, 2, d>> : d \in 11 .. 28} \cup {<<2026, 3, d>> : d \in 1 .. 10} \cup {<<2026, 3, 30>>, <<2026, 4, 1>>, <<2026, 4, 2>>}
    \cup {<<2024, 2, 28>>} \cup {<<2025, 12, d>> : d \in 17 .. 23} \cup {<<2026, 1, d>> : d \in 18 .. 27}
    \cup {<<2026, 8, 10>>, <<2026, 10, 30>>}
Centuries == 1900 .. 2199
=============================================================================
