----------------------------- MODULE Publications -----------------------------
(***************************************************************************)
(* The box of court publications of an office (src/publications): a job    *)
(* and a button consult the court gazette (DJEN) for one registered lawyer *)
(* page by page, up to a number of pages, and capture what is new; a       *)
(* person confirms, discards or reopens each publication, and a confirmed  *)
(* deadline becomes a task.  A missed publication is a missed deadline.    *)
(* Time is counted in days.                                                *)
(***************************************************************************)
EXTENDS Integers, FiniteSets

CONSTANTS
    NoPub,        \* the publication of a reviewer at rest
    Pubs,         \* publications of the gazette
    Whole,        \* those it gives with an id and a date the program can read
    Pollers,      \* processes that run poll_watch: the job and the button
    Reviewers,    \* requests that decide a publication
    FirstWindow,  \* FIRST_WINDOW_DAYS: 7
    Window,       \* WINDOW_DAYS: 3
    PageSize,     \* PAGE_SIZE: 100
    MaxPages,     \* MAX_PAGES: 5
    MaxDay,       \* bound: the last day
    MaxSaves,     \* bound: changes of the registration
    MaxDecisions  \* bound: decisions taken

ASSUME PubAssumption ==
    /\ IsFiniteSet(Pubs) /\ Whole \subseteq Pubs /\ PageSize \in Nat \ {0} /\ MaxPages \in Nat \ {0}
    /\ MaxDay \in Nat /\ FirstWindow \in 0 .. MaxDay /\ Window \in 0 .. FirstWindow
    /\ MaxSaves \in Nat /\ MaxDecisions \in Nat

VARIABLES
    today,
    gazette,   \* per publication: [day: disponibilizada_em (-1: none), seen: the day DJEN first shows it]
    saves,     \* changes of the registration so far
    checked,   \* OabWatch.last_checked_at is set
    box,       \* Publication.status, "none" before it is captured
    due,       \* publications whose review gave them a deadline
    tasksOf,   \* tasks made for each publication
    announced, \* times each publication went to the notice and to the rules
    poller,    \* poll_watch of each poller: [pc, day: of its search, first: nothing was checked before,
               \* page: pages read, items: read and still to ingest, created]
    reviewer,  \* a decision: [pc, pub]
    decisions,
    finished,  \* history: [day, first] of the consultations that answered and were ingested to the end
    died,      \* history: a poller stopped between its steps
    overlapped, \* history: publications two reviewers decided at once
    reopened   \* history: publications somebody reopened

pubVars == <<today, gazette, saves, checked, box, due, tasksOf, announced, poller, reviewer, decisions,
             finished, died, overlapped, reopened>>

NotShown == [day |-> -1, seen |-> -1]
PollRow == [pc : {"idle", "page", "ingest", "announce"}, day : 0 .. MaxDay, first : BOOLEAN, page : 0 .. MaxPages,
            items : SUBSET Pubs, created : SUBSET Pubs]
Waiting == [pc |-> "idle", day |-> 0, first |-> FALSE, page |-> 0, items |-> {}, created |-> {}]
Shown == {p \in Pubs : gazette[p].day >= 0}
ShownBetween(start, end) == {p \in Shown : gazette[p].day \in start .. end}

\* The lawyer is registered on day FirstWindow: the gazette has a past.
PubInit ==
    /\ today = FirstWindow /\ saves = 0 /\ checked = FALSE
    /\ gazette \in [Pubs -> {NotShown} \cup [day : 0 .. FirstWindow, seen : {FirstWindow}]]
    /\ box = [p \in Pubs |-> "none"] /\ due = {} /\ tasksOf = [p \in Pubs |-> 0] /\ announced = [p \in Pubs |-> 0]
    /\ poller = [c \in Pollers |-> Waiting]
    /\ reviewer = [r \in Reviewers |-> [pc |-> "idle", pub |-> NoPub]]
    /\ decisions = 0 /\ finished = {} /\ died = FALSE /\ overlapped = {} /\ reopened = {}

NextDay ==
    /\ today < MaxDay
    /\ today' = today + 1
    /\ UNCHANGED <<gazette, saves, checked, box, due, tasksOf, announced, poller, reviewer, decisions,
                   finished, died, overlapped, reopened>>

\* The gazette shows a publication with the day it was made available, which may be some days ago.
Publish(p) ==
    /\ gazette[p] = NotShown
    /\ \E day \in 0 .. today : today - day <= Window /\ gazette' = [gazette EXCEPT ![p] = [day |-> day, seen |-> today]]
    /\ UNCHANGED <<today, saves, checked, box, due, tasksOf, announced, poller, reviewer, decisions,
                   finished, died, overlapped, reopened>>

\* Mutant of Since: the first day of the window is left out.
SinceAfter(day, first) == day - (IF first THEN FirstWindow ELSE Window) + 1

\* poll_watch asks for the days of its window; both ends are in it.
Since(day, first) == day - (IF first THEN FirstWindow ELSE Window)

\* What the gazette lists, at this moment, for the search of a poller.
Listed(c) == ShownBetween(Since(poller[c].day, poller[c].first), poller[c].day)

StartSearch(c) ==
    /\ poller[c].pc = "idle"
    /\ poller' = [poller EXCEPT ![c] = [Waiting EXCEPT !.pc = "page", !.day = today, !.first = ~checked]]
    /\ UNCHANGED <<today, gazette, saves, checked, box, due, tasksOf, announced, reviewer, decisions,
                   finished, died, overlapped, reopened>>

\* A page of what was not read yet: a full one, or all that is left.
Pages(rest) == {items \in SUBSET rest : Cardinality(items) = PageSize \/ (items = rest /\ Cardinality(rest) <= PageSize)}

\* Mutant of LastPage: range(1, MAX_PAGES), which ends one page before.
LastPageEarly(items, n, total) == Cardinality(items) < PageSize \/ n * PageSize >= total \/ n + 1 >= MaxPages

\* The search stops at a page that is not full, at the count of the gazette, and at MAX_PAGES in any case.
LastPage(items, n, total) == Cardinality(items) < PageSize \/ n * PageSize >= total \/ n = MaxPages

\* The search of a poller once it has read page n.  An item without an id or a date is passed over
\* (normalize); a search cut at MAX_PAGES looks like one that is complete.
WithPage(row, items, n, total) ==
    IF LastPage(items, n, total)
    THEN [row EXCEPT !.pc = "ingest", !.page = n, !.items = (row.items \cup items) \cap Whole]
    ELSE [row EXCEPT !.page = n, !.items = row.items \cup items]

ReadPage(c) ==
    /\ poller[c].pc = "page"
    /\ \E items \in Pages(Listed(c) \ poller[c].items) :
        poller' = [poller EXCEPT ![c] = WithPage(poller[c], items, poller[c].page + 1, Cardinality(Listed(c)))]
    /\ UNCHANGED <<today, gazette, saves, checked, box, due, tasksOf, announced, reviewer, decisions,
                   finished, died, overlapped, reopened>>

\* ProviderError at any page: the error and the moment are saved, and nothing is captured.
SearchFails(c) ==
    /\ poller[c].pc = "page"
    /\ checked' = TRUE
    /\ poller' = [poller EXCEPT ![c] = Waiting]
    /\ UNCHANGED <<today, gazette, saves, box, due, tasksOf, announced, reviewer, decisions,
                   finished, died, overlapped, reopened>>

\* A change of the registration saves the whole row it loaded, perhaps before the first consultation.
SaveWatch ==
    /\ saves < MaxSaves /\ saves' = saves + 1
    /\ checked' \in {checked, FALSE}
    /\ UNCHANGED <<today, gazette, box, due, tasksOf, announced, poller, reviewer, decisions,
                   finished, died, overlapped, reopened>>

\* ingest: the row is unique per office and publication, so the second insert does nothing.
Insertable(p) == box[p] = "none"

Ingest(c) ==
    /\ poller[c].pc = "ingest"
    /\ \E p \in poller[c].items :
        /\ poller' = [poller EXCEPT ![c].items = poller[c].items \ {p},
                                    ![c].created = IF Insertable(p) THEN poller[c].created \cup {p}
                                                   ELSE poller[c].created]
        /\ box' = IF Insertable(p) THEN [box EXCEPT ![p] = "nova"] ELSE box
    /\ UNCHANGED <<today, gazette, saves, checked, due, tasksOf, announced, reviewer, decisions,
                   finished, died, overlapped, reopened>>

SaveChecked(c) ==
    /\ poller[c].pc = "ingest" /\ poller[c].items = {}
    /\ checked' = TRUE
    /\ finished' = finished \cup {[day |-> poller[c].day, first |-> poller[c].first]}
    /\ poller' = [poller EXCEPT ![c] = IF poller[c].created = {} THEN Waiting ELSE [poller[c] EXCEPT !.pc = "announce"]]
    /\ UNCHANGED <<today, gazette, saves, box, due, tasksOf, announced, reviewer, decisions, died, overlapped, reopened>>

\* The notice to the lawyer, and the trigger "publication_new" of each new one as far as the broker
\* takes it (emit swallows its errors).
Announce(c) ==
    /\ poller[c].pc = "announce"
    /\ announced' = [p \in Pubs |-> IF p \in poller[c].created THEN announced[p] + 1 ELSE announced[p]]
    /\ poller' = [poller EXCEPT ![c] = Waiting]
    /\ UNCHANGED <<today, gazette, saves, checked, box, due, tasksOf, reviewer, decisions,
                   finished, died, overlapped, reopened>>

\* The process is killed, the database fails in ingest, or the registration is deleted meanwhile.
PollerDies(c) ==
    /\ poller[c].pc # "idle"
    /\ poller' = [poller EXCEPT ![c] = Waiting]
    /\ died' = TRUE
    /\ UNCHANGED <<today, gazette, saves, checked, box, due, tasksOf, announced, reviewer, decisions,
                   finished, overlapped, reopened>>

\* PublicationActionView loads the publication; what is decided already is refused.
Reviewable(p, action) ==
    IF action = "reopen" THEN box[p] \in {"confirmada", "descartada"} ELSE box[p] = "nova"

DecideOn(r, p, action) ==
    /\ reviewer[r].pc = "idle" /\ decisions < MaxDecisions
    /\ Reviewable(p, action)
    /\ reviewer' = [reviewer EXCEPT ![r] = [pc |-> action, pub |-> p]]
    /\ decisions' = decisions + 1
    /\ overlapped' = IF \E q \in Reviewers \ {r} : reviewer[q].pc # "idle" /\ reviewer[q].pub = p
                     THEN overlapped \cup {p} ELSE overlapped
    /\ UNCHANGED <<today, gazette, saves, checked, box, due, tasksOf, announced, poller, finished, died, reopened>>

Ended(r) == reviewer' = [reviewer EXCEPT ![r] = [pc |-> "idle", pub |-> NoPub]]

\* confirm: the task of the deadline, if there is one, and the whole row, in one transaction.
Confirm(r) ==
    LET p == reviewer[r].pub IN
    /\ reviewer[r].pc = "confirm"
    /\ box' = [box EXCEPT ![p] = "confirmada"]
    /\ \/ due' = due \cup {p} /\ tasksOf' = [tasksOf EXCEPT ![p] = tasksOf[p] + 1]
       \/ due' = due \ {p} /\ UNCHANGED tasksOf
    /\ Ended(r)
    /\ UNCHANGED <<today, gazette, saves, checked, announced, poller, decisions, finished, died, overlapped, reopened>>

Discard(r) ==
    /\ reviewer[r].pc = "discard"
    /\ box' = [box EXCEPT ![reviewer[r].pub] = "descartada"]
    /\ Ended(r)
    /\ UNCHANGED <<today, gazette, saves, checked, due, tasksOf, announced, poller, decisions, finished, died, overlapped, reopened>>

\* reopen keeps the task.
Reopen(r) ==
    /\ reviewer[r].pc = "reopen"
    /\ box' = [box EXCEPT ![reviewer[r].pub] = "nova"]
    /\ reopened' = reopened \cup {reviewer[r].pub}
    /\ Ended(r)
    /\ UNCHANGED <<today, gazette, saves, checked, due, tasksOf, announced, poller, decisions, finished, died, overlapped>>

PubNext ==
    \/ NextDay \/ SaveWatch
    \/ \E p \in Pubs : Publish(p)
    \/ \E c \in Pollers : \/ StartSearch(c) \/ ReadPage(c) \/ SearchFails(c)
                           \/ Ingest(c) \/ SaveChecked(c) \/ Announce(c) \/ PollerDies(c)
    \/ \E r \in Reviewers, p \in Pubs, a \in {"confirm", "discard", "reopen"} : DecideOn(r, p, a)
    \/ \E r \in Reviewers : Confirm(r) \/ Discard(r) \/ Reopen(r)

PubSpec == PubInit /\ [][PubNext]_pubVars

-----------------------------------------------------------------------------
PubTypeOK ==
    /\ today \in 0 .. MaxDay /\ gazette \in [Pubs -> [day : -1 .. MaxDay, seen : -1 .. MaxDay]]
    /\ box \in [Pubs -> {"none", "nova", "confirmada", "descartada"}] /\ due \subseteq Pubs
    /\ tasksOf \in [Pubs -> Nat] /\ announced \in [Pubs -> Nat] /\ finished \subseteq [day : 0 .. MaxDay, first : BOOLEAN]
    /\ poller \in [Pollers -> PollRow]
    /\ reviewer \in [Reviewers -> [pc : {"idle", "confirm", "discard", "reopen"}, pub : Pubs \cup {NoPub}]]
    /\ saves \in 0 .. MaxSaves /\ decisions \in 0 .. MaxDecisions /\ overlapped \subseteq Pubs /\ reopened \subseteq Pubs
    /\ checked \in BOOLEAN /\ died \in BOOLEAN

\* The days a consultation answers for: seven before the first one, three before the others.
WindowOf(f) == ShownBetween(f.day - (IF f.first THEN FirstWindow ELSE Window), f.day)

\* A consultation that ran to its end has captured what its window held when its day began, whatever
\* failed, died or ran beside it: while the window fits in the pages a search reads, and for what the
\* gazette gives with an id and a date.  Beyond MAX_PAGES * PAGE_SIZE publications some may be missed and
\* the consultation is saved as finished all the same
\* (src/publications/providers/djen.py:77-97, src/publications/services.py:71, 78-80).
NothingMissed ==
    \A f \in finished : Cardinality(WindowOf(f)) <= MaxPages * PageSize =>
        \A p \in WindowOf(f) \cap Whole : gazette[p].seen < f.day => box[p] # "none"

\* Two consultations at once announce a publication once, and one that has been captured is announced
\* unless the process died before (src/publications/services.py:57-65, 81-88).
AnnouncedOnce ==
    \A p \in Pubs :
        /\ announced[p] <= 1
        /\ box[p] # "none" /\ ~died =>
              announced[p] = 1 \/ \E c \in Pollers : p \in poller[c].created

\* A confirmed deadline has its task, exactly one, and a discarded publication has none; unless two
\* people decided at once or somebody reopened it (src/publications/services.py:131, 149-168).
DeadlinesHaveTasks ==
    \A p \in Pubs \ (overlapped \cup reopened) :
        tasksOf[p] = IF box[p] = "confirmada" /\ p \in due THEN 1 ELSE 0

\* What fits in the pages of a search is captured, announced once and becomes one task: NothingMissed,
\* AnnouncedOnce and DeadlinesHaveTasks.
PublicationsHandled == NothingMissed /\ AnnouncedOnce /\ DeadlinesHaveTasks
=============================================================================
