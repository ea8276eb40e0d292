---------------------------- MODULE DeadlinesProofs ----------------------------
(***************************************************************************)
(* Proofs about what waits for a date, a person or an answer: the          *)
(* publications of the courts (Publications), the reminders of the scans   *)
(* (Triggers), the news of the cases (CaseMonitor), what the office is     *)
(* offered (Suggestions), the pieces of marketing (ContentPieces), the     *)
(* reading of a document (Documents), the person's calendar in Google      *)
(* (CalendarSync) and the court calendar (CourtCalendar).  Each section    *)
(* gives the inductive invariant of its component, lemmas for its steps,   *)
(* and the theorem that the component keeps the property the deadlines run *)
(* checks, for any number of actors, rows, days and attempts.              *)
(***************************************************************************)
EXTENDS MCDeadlines, FiniteSetTheorems, TLAPS

(* Publications. *)

\* A consultation under way has read what its pages hold and still has to ingest what it has to find.
DaysOK ==
    /\ \A f \in finished : f.day <= today
    /\ \A c \in Pollers : poller[c].day <= today
Fits(window) == Cardinality(window) <= MaxPages * PageSize
PageOK(c) ==
    poller[c].pc = "page" =>
        /\ poller[c].items \subseteq WindowOf(poller[c])
        /\ Cardinality(poller[c].items) = poller[c].page * PageSize
        /\ poller[c].page < MaxPages
SearchOK(c) ==
    poller[c].pc = "ingest" /\ Fits(WindowOf(poller[c])) =>
        \A p \in WindowOf(poller[c]) \cap Whole : gazette[p].seen < poller[c].day =>
            box[p] # "none" \/ p \in poller[c].items
ReadingOK(c) == PageOK(c) /\ SearchOK(c)

\* What a consultation captured is in the box, was not announced, and is its own.
CreatedOK(c) ==
    /\ poller[c].pc \in {"idle", "page"} => poller[c].created = {}
    /\ \A p \in poller[c].created :
        box[p] # "none" /\ announced[p] = 0 /\ \A d \in Pollers \ {c} : p \notin poller[d].created
BoxOK == \A p \in Pubs : announced[p] <= 1 /\ (box[p] = "none" => announced[p] = 0)

\* Unless two took it up, the one reviewer of a publication finds it as it was loaded.
ReviewOK(r) ==
    reviewer[r].pc # "idle" =>
        LET p == reviewer[r].pub IN
        /\ p \in Pubs /\ box[p] # "none"
        /\ p \notin overlapped =>
            /\ reviewer[r].pc \in {"confirm", "discard"} => box[p] = "nova"
            /\ \A q \in Reviewers \ {r} : reviewer[q].pc = "idle" \/ reviewer[q].pub # p

PubInv ==
    /\ DaysOK /\ NothingMissed /\ \A c \in Pollers : ReadingOK(c)
    /\ BoxOK /\ AnnouncedOnce /\ \A c \in Pollers : CreatedOK(c)
    /\ DeadlinesHaveTasks /\ \A r \in Reviewers : ReviewOK(r)

\* A search that stops has read the whole window, if the window fits in its pages; one that goes on has read
\* full pages.
LEMMA PageRead ==
    ASSUME NEW W, IsFiniteSet(W), NEW R, R \subseteq W, NEW n \in Nat, Cardinality(R) = n * PageSize, n < MaxPages,
           NEW I \in Pages(W \ R)
    PROVE  /\ R \cup I \subseteq W /\ I \subseteq W
           /\ LastPage(I, n + 1, Cardinality(W)) /\ Fits(W) => R \cup I = W
           /\ ~LastPage(I, n + 1, Cardinality(W)) => Cardinality(R \cup I) = (n + 1) * PageSize /\ n + 1 < MaxPages
<1>1. PageSize \in Nat \ {0} /\ MaxPages \in Nat \ {0}
  BY PubAssumption DEF PubAssumption
<1>2. I \subseteq W \ R /\ (Cardinality(I) = PageSize \/ (I = W \ R /\ Cardinality(W \ R) <= PageSize))
  BY DEF Pages
<1>3. R \cup I \subseteq W /\ I \subseteq W /\ I \cap R = {} /\ R \cap I = {}
  BY <1>2
<1>4. IsFiniteSet(I) /\ IsFiniteSet(R) /\ IsFiniteSet(R \cup I)
  BY <1>3, FS_Subset
<1>5. Cardinality(I) \in Nat /\ Cardinality(W) \in Nat
  BY <1>4, FS_CardinalityType
<1>6. Cardinality(R \cup I) = Cardinality(R) + Cardinality(I)
  <2>1. Cardinality(R \cup I) = Cardinality(R) + Cardinality(I) - Cardinality(R \cap I)
    BY <1>4, FS_Union
  <2>2. Cardinality(R \cap I) = 0
    BY <1>3, FS_EmptySet
  <2>3. Cardinality(R) \in Nat
    BY <1>4, FS_CardinalityType
  <2> QED
    BY <1>5, <2>1, <2>2, <2>3
<1>7. n * PageSize + PageSize = (n + 1) * PageSize /\ n * PageSize \in Nat
  BY <1>1
<1>8. ASSUME LastPage(I, n + 1, Cardinality(W)), Fits(W), Cardinality(I) = PageSize PROVE R \cup I = W
  <2>1. Cardinality(R \cup I) = (n + 1) * PageSize
    BY <1>6, <1>7, <1>8
  <2>2. Cardinality(W) <= (n + 1) * PageSize
    BY <1>1, <1>8 DEF LastPage, Fits
  <2>3. Cardinality(R \cup I) <= Cardinality(W)
    BY <1>3, FS_Subset
  <2>4. (n + 1) * PageSize \in Nat
    BY <1>1
  <2>5. Cardinality(R \cup I) = Cardinality(W)
    BY <1>5, <2>1, <2>2, <2>3, <2>4
  <2> QED
    BY <1>3, <2>5, FS_Subset
<1>9. I = W \ R => R \cup I = W
  OBVIOUS
<1>10. ASSUME ~LastPage(I, n + 1, Cardinality(W)) PROVE Cardinality(I) = PageSize /\ n + 1 < MaxPages
  BY <1>1, <1>2, <1>5, <1>10 DEF LastPage
<1> QED
  BY <1>2, <1>3, <1>6, <1>7, <1>8, <1>9, <1>10

LEMMA WithPageType ==
    ASSUME NEW row \in PollRow, NEW n \in 0 .. MaxPages, NEW I \in SUBSET Pubs, NEW total
    PROVE  WithPage(row, I, n, total) \in PollRow
<1> DEFINE read == row.items \cup I
           kept == read \cap Whole
<1>1. read \in SUBSET Pubs /\ kept \in SUBSET Pubs
  BY DEF PollRow
<1>2. WithPage(row, I, n, total) \in {[row EXCEPT !.pc = "ingest", !.page = n, !.items = kept], [row EXCEPT !.page = n, !.items = read]}
  BY DEF WithPage
<1> HIDE DEF read, kept
<1>3. [row EXCEPT !.pc = "ingest", !.page = n, !.items = kept] \in PollRow
  BY <1>1 DEF PollRow
<1>4. [row EXCEPT !.page = n, !.items = read] \in PollRow
  BY <1>1 DEF PollRow
<1> QED
  BY <1>2, <1>3, <1>4

LEMMA PubTypeStep == PubTypeOK /\ PubInv /\ [PubNext]_pubVars => PubTypeOK'
<1> SUFFICES ASSUME PubTypeOK, PubInv, [PubNext]_pubVars PROVE PubTypeOK'
  OBVIOUS
<1>0. PubAssumption /\ PubTypeOK /\ MaxDay \in Nat /\ today \in Nat /\ MaxDecisions \in Nat /\ decisions \in Nat
  BY PubAssumption DEF PubTypeOK, PubAssumption
<1>1. CASE NextDay
  <2>1. today' \in 0 .. MaxDay
    BY <1>0, <1>1 DEF NextDay
  <2> QED
    BY <1>1, <2>1 DEF NextDay, PubTypeOK
<1>2. ASSUME NEW p \in Pubs, Publish(p) PROVE PubTypeOK'
  <2>1. PICK day \in 0 .. today : gazette' = [gazette EXCEPT ![p] = [day |-> day, seen |-> today]]
    BY <1>2 DEF Publish
  <2>2. [day |-> day, seen |-> today] \in [day : -1 .. MaxDay, seen : -1 .. MaxDay]
    BY <1>0, <2>1 DEF PubTypeOK
  <2>3. gazette' \in [Pubs -> [day : -1 .. MaxDay, seen : -1 .. MaxDay]]
    BY <2>1, <2>2 DEF PubTypeOK
  <2> QED
    BY <1>2, <2>3 DEF Publish, PubTypeOK
<1>3. ASSUME NEW c \in Pollers, StartSearch(c) PROVE PubTypeOK'
  <2>1. [Waiting EXCEPT !.pc = "page", !.day = today, !.first = ~checked] \in PollRow
    <3>1. (~checked) \in BOOLEAN /\ today \in 0 .. MaxDay /\ 0 \in 0 .. MaxPages
      BY <1>0 DEF PubTypeOK, PubAssumption
    <3> QED
      BY <3>1 DEF Waiting, PollRow
  <2>2. poller' \in [Pollers -> PollRow]
    BY <1>3, <2>1 DEF StartSearch, PubTypeOK
  <2> QED
    BY <1>3, <2>2 DEF StartSearch, PubTypeOK
<1>4. ASSUME NEW c \in Pollers, ReadPage(c) PROVE PubTypeOK'
  <2> DEFINE n == poller[c].page + 1
  <2>1. PICK I \in Pages(Listed(c) \ poller[c].items) :
          poller' = [poller EXCEPT ![c] = WithPage(poller[c], I, n, Cardinality(Listed(c)))]
    BY <1>4 DEF ReadPage
  <2>2. poller[c] \in PollRow /\ poller[c].items \subseteq Pubs /\ I \subseteq Pubs
    BY DEF PubTypeOK, PollRow, Pages, Listed, ShownBetween, Shown
  <2>3. n \in 0 .. MaxPages
    BY <1>0, <1>4, <2>2 DEF ReadPage, PubInv, ReadingOK, PageOK, PubAssumption, PollRow
  <2>4. WithPage(poller[c], I, n, Cardinality(Listed(c))) \in PollRow
    BY <2>2, <2>3, WithPageType
  <2>5. poller' \in [Pollers -> PollRow]
    BY <2>1, <2>4 DEF PubTypeOK
  <2> QED
    BY <1>4, <2>5 DEF ReadPage, PubTypeOK
<1>5. ASSUME NEW c \in Pollers, Ingest(c) PROVE PubTypeOK'
  <2>1. PICK p \in poller[c].items :
          /\ poller' = [poller EXCEPT ![c].items = poller[c].items \ {p},
                                      ![c].created = IF Insertable(p) THEN poller[c].created \cup {p} ELSE poller[c].created]
          /\ box' = IF Insertable(p) THEN [box EXCEPT ![p] = "nova"] ELSE box
    BY <1>5 DEF Ingest
  <2>2. p \in Pubs /\ poller[c].created \subseteq Pubs /\ poller[c].items \subseteq Pubs
    BY DEF PubTypeOK, PollRow
  <2>3. poller' \in [Pollers -> PollRow]
    <3>0. poller[c] \in PollRow
      BY DEF PubTypeOK
    <3>2. poller' = [poller EXCEPT ![c] = [poller[c] EXCEPT !.items = poller[c].items \ {p},
                       !.created = IF Insertable(p) THEN poller[c].created \cup {p} ELSE poller[c].created]]
      BY <2>1
    <3> DEFINE left == poller[c].items \ {p}
               captured == IF Insertable(p) THEN poller[c].created \cup {p} ELSE poller[c].created
    <3>3. left \in SUBSET Pubs /\ captured \in SUBSET Pubs
      BY <2>2
    <3>4. poller' = [poller EXCEPT ![c] = [poller[c] EXCEPT !.items = left, !.created = captured]]
      BY <3>2
    <3> HIDE DEF left, captured
    <3>5. [poller[c] EXCEPT !.items = left, !.created = captured] \in PollRow
      BY <3>0, <3>3 DEF PollRow
    <3> QED
      BY <3>4, <3>5 DEF PubTypeOK
  <2>4. box' \in [Pubs -> {"none", "nova", "confirmada", "descartada"}]
    BY <2>1 DEF PubTypeOK
  <2> QED
    BY <1>5, <2>3, <2>4 DEF Ingest, PubTypeOK
<1>6. ASSUME NEW c \in Pollers, SaveChecked(c) PROVE PubTypeOK'
  <2>1. Waiting \in PollRow
    BY <1>0 DEF Waiting, PollRow
  <2>2. [poller[c] EXCEPT !.pc = "announce"] \in PollRow
    BY ZenonT(60) DEF PubTypeOK, PollRow
  <2>3. poller' \in [Pollers -> PollRow]
    BY <1>6, <2>1, <2>2 DEF SaveChecked, PubTypeOK
  <2>4. finished' \subseteq [day : 0 .. MaxDay, first : BOOLEAN]
    <3>1. poller[c].day \in 0 .. MaxDay /\ poller[c].first \in BOOLEAN
      BY DEF PubTypeOK, PollRow
    <3> QED
      BY <1>6, <3>1 DEF SaveChecked, PubTypeOK
  <2> QED
    BY <1>6, <2>3, <2>4 DEF SaveChecked, PubTypeOK
<1>7. ASSUME NEW c \in Pollers, SearchFails(c) \/ Announce(c) \/ PollerDies(c) PROVE PubTypeOK'
  <2>1. Waiting \in PollRow
    BY <1>0 DEF Waiting, PollRow
  <2>2. announced' \in [Pubs -> Nat]
    BY <1>7 DEF SearchFails, Announce, PollerDies, PubTypeOK
  <2> QED
    BY <1>7, <2>1, <2>2 DEF SearchFails, Announce, PollerDies, PubTypeOK
<1>8. ASSUME NEW r \in Reviewers, NEW p \in Pubs, NEW a \in {"confirm", "discard", "reopen"}, DecideOn(r, p, a) PROVE PubTypeOK'
  BY <1>0, <1>8 DEF DecideOn, PubTypeOK
<1>9. ASSUME NEW r \in Reviewers, Confirm(r) \/ Discard(r) \/ Reopen(r) PROVE PubTypeOK'
  <2>1. reviewer[r].pub \in Pubs
    BY <1>9 DEF Confirm, Discard, Reopen, PubInv, ReviewOK
  <2>2. reviewer' \in [Reviewers -> [pc : {"idle", "confirm", "discard", "reopen"}, pub : Pubs \cup {NoPub}]]
    BY <1>9 DEF Confirm, Discard, Reopen, Ended, PubTypeOK
  <2>3. box' \in [Pubs -> {"none", "nova", "confirmada", "descartada"}] /\ due' \subseteq Pubs /\ tasksOf' \in [Pubs -> Nat]
    <3>1. box' \in [Pubs -> {"none", "nova", "confirmada", "descartada"}]
      BY <1>9, <2>1 DEF Confirm, Discard, Reopen, PubTypeOK
    <3>2. due' \subseteq Pubs
      BY <1>9, <2>1 DEF Confirm, Discard, Reopen, PubTypeOK
    <3>3. tasksOf' \in [Pubs -> Nat]
      BY <1>9, <2>1 DEF Confirm, Discard, Reopen, PubTypeOK
    <3> QED
      BY <3>1, <3>2, <3>3
  <2> QED
    <3>1. reopened' \subseteq Pubs
      BY <1>9, <2>1 DEF Confirm, Discard, Reopen, PubTypeOK
    <3>2. UNCHANGED <<today, gazette, saves, checked, announced, poller, decisions, finished, died, overlapped>>
      BY <1>9 DEF Confirm, Discard, Reopen
    <3> QED
      BY <2>2, <2>3, <3>1, <3>2 DEF PubTypeOK
<1>10. CASE UNCHANGED pubVars
  BY <1>10 DEF pubVars, PubTypeOK
<1>11. CASE SaveWatch
  <2>1. saves' \in 0 .. MaxSaves
    BY <1>0, <1>11 DEF SaveWatch, PubTypeOK, PubAssumption
  <2> QED
    BY <1>11, <2>1 DEF SaveWatch, PubTypeOK
<1> QED
  BY <1>1, <1>2, <1>3, <1>4, <1>5, <1>6, <1>7, <1>8, <1>9, <1>10, <1>11 DEF PubNext

\* What changed in the search for publications, by the action.
LEMMA SearchStep ==
    ASSUME PubTypeOK, PubTypeOK', PubInv, [PubNext]_pubVars
    PROVE  DaysOK' /\ NothingMissed' /\ \A c \in Pollers : ReadingOK(c)'
<1>0. /\ PubAssumption /\ DaysOK /\ NothingMissed /\ (\A c \in Pollers : PageOK(c) /\ SearchOK(c))
      /\ today \in Nat /\ today' \in Nat
      /\ \A p \in Pubs : gazette[p].day \in Int /\ gazette[p].seen \in Int
      /\ \A c \in Pollers : poller[c].day \in Nat /\ poller[c].page \in Nat /\ poller[c].items \subseteq Pubs
      /\ \A f \in finished : f.day \in Nat
      /\ \A f : WindowOf(f) \subseteq Pubs /\ IsFiniteSet(WindowOf(f)) /\ Cardinality(WindowOf(f)) \in Nat
  <2>1. \A f : WindowOf(f) \subseteq Pubs
    BY DEF WindowOf, ShownBetween, Shown
  <2>2. \A f : IsFiniteSet(WindowOf(f)) /\ Cardinality(WindowOf(f)) \in Nat
    BY <2>1, PubAssumption, FS_Subset, FS_CardinalityType DEF PubAssumption
  <2> QED
    BY <2>1, <2>2, PubAssumption DEF PubInv, ReadingOK, PubTypeOK, PubAssumption, PollRow
<1>w. gazette' = gazette => \A f : WindowOf(f)' = WindowOf(f)
  BY DEF WindowOf, ShownBetween, Shown
<1>1. ASSUME UNCHANGED <<gazette, poller, finished>>, today' \in {today, today + 1}, \A p \in Pubs : box[p] # "none" => box'[p] # "none"
      PROVE  DaysOK' /\ NothingMissed' /\ \A c \in Pollers : ReadingOK(c)'
  <2>1. DaysOK'
    BY <1>0, <1>1 DEF DaysOK
  <2>2. NothingMissed'
    BY <1>0, <1>1, <1>w DEF NothingMissed
  <2>3. ASSUME NEW c \in Pollers PROVE ReadingOK(c)'
    <3>1. WindowOf(poller[c])' = WindowOf(poller[c])
      BY <1>1 DEF WindowOf, ShownBetween, Shown
    <3> QED
      BY <1>0, <1>1, <3>1 DEF ReadingOK, PageOK, SearchOK, Fits
  <2> QED
    BY <2>1, <2>2, <2>3
<1>2. CASE NextDay \/ SaveWatch \/ UNCHANGED pubVars
  BY <1>0, <1>1, <1>2 DEF NextDay, SaveWatch, pubVars
<1>3. ASSUME NEW r \in Reviewers, Confirm(r) \/ Discard(r) \/ Reopen(r) \/ \E p \in Pubs, a \in {"confirm", "discard", "reopen"} : DecideOn(r, p, a)
      PROVE  DaysOK' /\ NothingMissed' /\ \A c \in Pollers : ReadingOK(c)'
  <2>1. UNCHANGED <<today, gazette, poller, finished>>
    BY <1>3 DEF Confirm, Discard, Reopen, DecideOn
  <2>2. \A p \in Pubs : box[p] # "none" => box'[p] # "none"
    BY <1>3 DEF Confirm, Discard, Reopen, DecideOn, PubTypeOK
  <2> QED
    BY <1>1, <2>1, <2>2
<1>4. ASSUME NEW p \in Pubs, Publish(p) PROVE DaysOK' /\ NothingMissed' /\ \A c \in Pollers : ReadingOK(c)'
  <2>1. PICK day \in 0 .. today : gazette' = [gazette EXCEPT ![p] = [day |-> day, seen |-> today]]
    BY <1>4 DEF Publish
  <2>2. /\ gazette[p].day = -1 /\ gazette'[p].seen = today /\ (\A q \in Pubs \ {p} : gazette'[q] = gazette[q])
        /\ UNCHANGED <<today, box, poller, finished>>
    BY <1>4, <2>1 DEF Publish, PubTypeOK, NotShown
  <2>3. DaysOK'
    BY <1>0, <2>2 DEF DaysOK
  <2>4. ASSUME NEW f PROVE /\ WindowOf(f) \subseteq WindowOf(f)' /\ WindowOf(f)' \subseteq WindowOf(f) \cup {p}
                           /\ Fits(WindowOf(f)') => Fits(WindowOf(f))
    <3>1. WindowOf(f) \subseteq WindowOf(f)' /\ WindowOf(f)' \subseteq WindowOf(f) \cup {p} /\ WindowOf(f)' \subseteq Pubs
      BY <2>2 DEF WindowOf, ShownBetween, Shown
    <3>2. IsFiniteSet(WindowOf(f)')
      BY <1>0, <3>1, FS_Subset DEF PubAssumption
    <3>3. Cardinality(WindowOf(f)') \in Nat /\ Cardinality(WindowOf(f)) <= Cardinality(WindowOf(f)')
      BY <3>1, <3>2, FS_Subset, FS_CardinalityType
    <3>4. MaxPages * PageSize \in Nat
      BY <1>0 DEF PubAssumption
    <3> QED
      BY <1>0, <3>1, <3>3, <3>4 DEF Fits
  <2>5. NothingMissed'
    <3> SUFFICES ASSUME NEW f \in finished', Fits(WindowOf(f)'), NEW q \in WindowOf(f)', q \in Whole, gazette'[q].seen < f.day
                 PROVE  box'[q] # "none"
      BY DEF NothingMissed, Fits
    <3>1. f \in finished /\ f.day <= today /\ f.day \in Nat
      BY <1>0, <2>2 DEF DaysOK
    <3>2. q # p
      BY <1>0, <2>2, <3>1
    <3>3. q \in WindowOf(f) /\ Fits(WindowOf(f)) /\ q \in Pubs /\ gazette'[q] = gazette[q]
      BY <1>0, <2>2, <2>4, <3>2
    <3> QED
      BY <1>0, <2>2, <3>1, <3>3 DEF NothingMissed, Fits
  <2>6. ASSUME NEW c \in Pollers PROVE ReadingOK(c)'
    <3> DEFINE f == poller[c]
    <3>1. f \in PollRow /\ poller'[c] = f /\ f.day <= today /\ f.day \in Nat
      BY <1>0, <2>2 DEF DaysOK, PubTypeOK
    <3>2. WindowOf(poller[c])' = WindowOf(f)'
      BY <2>2
    <3>3. PageOK(c)'
      <4>1. WindowOf(poller[c]) \subseteq WindowOf(poller[c])'
        BY <2>2 DEF WindowOf, ShownBetween, Shown
      <4> QED
        BY <1>0, <3>1, <4>1 DEF PageOK
    <3>4. SearchOK(c)'
      <4>0. Fits(WindowOf(poller[c]))' <=> Fits(WindowOf(f)')
        BY <2>2 DEF Fits
      <4> SUFFICES ASSUME f.pc = "ingest", Fits(WindowOf(poller[c]))', NEW q \in WindowOf(poller[c])', q \in Whole, gazette'[q].seen < f.day
                   PROVE  box'[q] # "none" \/ q \in f.items
        BY <3>1 DEF SearchOK
      <4>1. /\ WindowOf(poller[c])' \subseteq WindowOf(poller[c]) \cup {p} /\ WindowOf(poller[c])' \subseteq Pubs
            /\ WindowOf(poller[c]) \subseteq WindowOf(poller[c])'
        BY <2>2 DEF WindowOf, ShownBetween, Shown
      <4>2. q # p
        BY <1>0, <2>2, <3>1
      <4>3. Fits(WindowOf(poller[c]))
        <5>1. IsFiniteSet(WindowOf(poller[c])')
          BY <1>0, <4>1, FS_Subset DEF PubAssumption
        <5>2. Cardinality(WindowOf(poller[c])') \in Nat /\ Cardinality(WindowOf(poller[c])) <= Cardinality(WindowOf(poller[c])')
          BY <4>1, <5>1, FS_Subset, FS_CardinalityType
        <5>3. MaxPages * PageSize \in Nat
          BY <1>0 DEF PubAssumption
        <5> QED
          BY <1>0, <5>2, <5>3 DEF Fits
      <4>4. q \in WindowOf(poller[c]) /\ q \in Pubs /\ gazette'[q] = gazette[q]
        BY <2>2, <4>1, <4>2
      <4> QED
        BY <1>0, <2>2, <4>3, <4>4 DEF SearchOK
    <3> QED
      BY <3>3, <3>4 DEF ReadingOK
  <2> QED
    BY <2>3, <2>5, <2>6
<1>5. ASSUME NEW c \in Pollers, UNCHANGED <<today, gazette, finished>>, \A p \in Pubs : box[p] # "none" => box'[p] # "none",
             poller'[c].day <= today, \A d \in Pollers \ {c} : poller'[d] = poller[d], ReadingOK(c)'
      PROVE  DaysOK' /\ NothingMissed' /\ \A d \in Pollers : ReadingOK(d)'
  <2>1. DaysOK'
    BY <1>0, <1>5 DEF DaysOK
  <2>2. NothingMissed'
    BY <1>0, <1>5, <1>w DEF NothingMissed
  <2>3. ASSUME NEW d \in Pollers \ {c} PROVE ReadingOK(d)'
    <3>1. WindowOf(poller[d])' = WindowOf(poller[d])
      BY <1>5 DEF WindowOf, ShownBetween, Shown
    <3> QED
      BY <1>0, <1>5, <3>1 DEF ReadingOK, PageOK, SearchOK, Fits
  <2> QED
    BY <1>5, <2>1, <2>2, <2>3
<1>6. ASSUME NEW c \in Pollers, StartSearch(c) PROVE DaysOK' /\ NothingMissed' /\ \A d \in Pollers : ReadingOK(d)'
  <2>1. /\ poller'[c].pc = "page" /\ poller'[c].day = today /\ poller'[c].items = {} /\ poller'[c].page = 0
        /\ (\A d \in Pollers \ {c} : poller'[d] = poller[d]) /\ UNCHANGED <<today, gazette, finished, box>>
    BY <1>6 DEF StartSearch, Waiting, PubTypeOK
  <2>2. ReadingOK(c)'
    BY <1>0, <2>1, FS_EmptySet DEF ReadingOK, PageOK, SearchOK, PubAssumption
  <2> QED
    BY <1>0, <1>5, <2>1, <2>2
<1>7. ASSUME NEW c \in Pollers, ReadPage(c) PROVE DaysOK' /\ NothingMissed' /\ \A d \in Pollers : ReadingOK(d)'
  <2> DEFINE W == WindowOf(poller[c])
             R == poller[c].items
             m == poller[c].page
             n == m + 1
  <2>1. Listed(c) = W
    BY DEF Listed, Since, WindowOf
  <2>2. PICK I \in Pages(W \ R) :
          poller' = [poller EXCEPT ![c] = WithPage(poller[c], I, n, Cardinality(W))]
    BY <1>7, <2>1 DEF ReadPage
  <2>3. /\ poller[c].pc = "page" /\ UNCHANGED <<today, gazette, finished, box>> /\ poller[c] \in PollRow
        /\ \A d \in Pollers \ {c} : poller'[d] = poller[d]
    BY <1>7, <2>2 DEF ReadPage, PubTypeOK
  <2>4. /\ R \cup I \subseteq W
        /\ LastPage(I, n, Cardinality(W)) /\ Fits(W) => R \cup I = W
        /\ ~LastPage(I, n, Cardinality(W)) => Cardinality(R \cup I) = n * PageSize /\ n < MaxPages
    <3>1. IsFiniteSet(W) /\ R \subseteq W /\ Cardinality(R) = m * PageSize /\ m < MaxPages /\ m \in Nat
      BY <1>0, <2>3 DEF PageOK
    <3> HIDE DEF W, R, m
    <3> QED
      BY <3>1, PageRead
  <2>5. poller'[c].day = poller[c].day /\ poller'[c].first = poller[c].first
    BY <2>2, <2>3 DEF WithPage, PubTypeOK, PollRow
  <2>6. WindowOf(poller[c])' = W
    BY <2>3, <2>5 DEF WindowOf, ShownBetween, Shown
  <2>7. CASE LastPage(I, n, Cardinality(W))
    <3>1. poller'[c].pc = "ingest" /\ poller'[c].items = (R \cup I) \cap Whole
      BY <2>2, <2>3, <2>7 DEF WithPage, PubTypeOK, PollRow
    <3>2. ReadingOK(c)'
      BY <2>4, <2>6, <2>7, <3>1 DEF ReadingOK, PageOK, SearchOK, Fits
    <3> QED
      BY <1>0, <1>5, <2>3, <2>5, <3>2 DEF DaysOK
  <2>8. CASE ~LastPage(I, n, Cardinality(W))
    <3>1. poller'[c].pc = "page" /\ poller'[c].items = R \cup I /\ poller'[c].page = n
      BY <2>2, <2>3, <2>8 DEF WithPage, PubTypeOK, PollRow
    <3>2. ReadingOK(c)'
      BY <2>4, <2>6, <2>8, <3>1 DEF ReadingOK, PageOK, SearchOK
    <3> QED
      BY <1>0, <1>5, <2>3, <2>5, <3>2 DEF DaysOK
  <2> QED
    BY <2>7, <2>8
<1>8. ASSUME NEW c \in Pollers, Ingest(c) PROVE DaysOK' /\ NothingMissed' /\ \A d \in Pollers : ReadingOK(d)'
  <2>1. PICK p \in poller[c].items :
          /\ poller' = [poller EXCEPT ![c].items = poller[c].items \ {p},
                                      ![c].created = IF Insertable(p) THEN poller[c].created \cup {p} ELSE poller[c].created]
          /\ box' = IF Insertable(p) THEN [box EXCEPT ![p] = "nova"] ELSE box
    BY <1>8 DEF Ingest
  <2>2. p \in Pubs /\ box'[p] # "none" /\ \A q \in Pubs : box[q] # "none" => box'[q] # "none"
    BY <1>0, <2>1 DEF PubTypeOK, Insertable
  <2>3. /\ poller'[c].day = poller[c].day /\ poller'[c].first = poller[c].first /\ poller'[c].items = poller[c].items \ {p}
        /\ poller[c].pc = "ingest" /\ poller'[c].pc = "ingest"
        /\ (\A d \in Pollers \ {c} : poller'[d] = poller[d]) /\ UNCHANGED <<today, gazette, finished>>
    BY <1>8, <2>1 DEF Ingest, PubTypeOK, PollRow
  <2>4. WindowOf(poller[c])' = WindowOf(poller[c])
    BY <2>3 DEF WindowOf, ShownBetween, Shown
  <2>5. ReadingOK(c)'
    BY <1>0, <2>2, <2>3, <2>4 DEF ReadingOK, PageOK, SearchOK, Fits
  <2> QED
    BY <1>0, <1>5, <2>2, <2>3, <2>5 DEF DaysOK
<1>9. ASSUME NEW c \in Pollers, SearchFails(c) \/ Announce(c) \/ PollerDies(c) PROVE DaysOK' /\ NothingMissed' /\ \A d \in Pollers : ReadingOK(d)'
  <2>1. poller'[c].pc = "idle" /\ poller'[c].day = 0 /\ (\A d \in Pollers \ {c} : poller'[d] = poller[d]) /\ UNCHANGED <<today, gazette, box, finished>>
    BY <1>9 DEF SearchFails, Announce, PollerDies, Waiting, PubTypeOK
  <2>2. ReadingOK(c)'
    BY <2>1 DEF ReadingOK, PageOK, SearchOK
  <2> QED
    BY <1>0, <1>5, <2>1, <2>2
<1>10. ASSUME NEW c \in Pollers, SaveChecked(c) PROVE DaysOK' /\ NothingMissed' /\ \A d \in Pollers : ReadingOK(d)'
  <2> DEFINE new == [day |-> poller[c].day, first |-> poller[c].first]
  <2>1. /\ poller[c].pc = "ingest" /\ poller[c].items = {} /\ UNCHANGED <<today, gazette, box>> /\ finished' = finished \cup {new}
        /\ (\A d \in Pollers \ {c} : poller'[d] = poller[d])
    BY <1>10 DEF SaveChecked, PubTypeOK
  <2>2. poller'[c].pc \in {"idle", "announce"} /\ poller'[c].day \in {0, poller[c].day}
    BY <1>10 DEF SaveChecked, Waiting, PubTypeOK, PollRow
  <2>3. DaysOK'
    BY <1>0, <2>1, <2>2 DEF DaysOK
  <2>4. NothingMissed'
    <3>1. WindowOf(new) = WindowOf(poller[c])
      BY DEF WindowOf
    <3>2. \A q \in WindowOf(new) \cap Whole : Fits(WindowOf(new)) /\ gazette[q].seen < new.day => box[q] # "none"
      BY <1>0, <2>1, <3>1 DEF SearchOK
    <3> QED
      BY <1>0, <1>w, <2>1, <3>2 DEF NothingMissed, Fits
  <2>5. ASSUME NEW d \in Pollers PROVE ReadingOK(d)'
    <3>1. CASE d = c
      BY <2>2, <3>1 DEF ReadingOK, PageOK, SearchOK
    <3>2. CASE d # c
      <4>1. WindowOf(poller[d])' = WindowOf(poller[d])
        BY <2>1, <3>2 DEF WindowOf, ShownBetween, Shown
      <4> QED
        BY <1>0, <2>1, <3>2, <4>1 DEF ReadingOK, PageOK, SearchOK, Fits
    <3> QED
      BY <3>1, <3>2
  <2> QED
    BY <2>3, <2>4, <2>5
<1> QED
  BY <1>2, <1>3, <1>4, <1>6, <1>7, <1>8, <1>9, <1>10 DEF PubNext

LEMMA AnnounceStep ==
    ASSUME PubTypeOK, PubTypeOK', PubInv, [PubNext]_pubVars
    PROVE  BoxOK' /\ AnnouncedOnce' /\ \A c \in Pollers : CreatedOK(c)'
<1>0. /\ BoxOK /\ AnnouncedOnce /\ (\A c \in Pollers : CreatedOK(c))
      /\ \A p \in Pubs : announced[p] \in Nat
      /\ \A c \in Pollers : poller[c].created \subseteq Pubs /\ poller[c].items \subseteq Pubs
  BY DEF PubInv, PubTypeOK, PollRow
<1>1. ASSUME announced' = announced, died' = died, \A p \in Pubs : box'[p] = "none" <=> box[p] = "none",
             \A d \in Pollers : poller'[d].created = poller[d].created /\ (poller'[d].pc \in {"idle", "page"} => poller[d].created = {})
      PROVE  BoxOK' /\ AnnouncedOnce' /\ \A c \in Pollers : CreatedOK(c)'
  <2>1. BoxOK'
    BY <1>0, <1>1 DEF BoxOK
  <2>2. AnnouncedOnce'
    BY <1>0, <1>1 DEF AnnouncedOnce
  <2>3. ASSUME NEW c \in Pollers PROVE CreatedOK(c)'
    BY <1>0, <1>1 DEF CreatedOK
  <2> QED
    BY <2>1, <2>2, <2>3
<1>2. ASSUME NextDay \/ SaveWatch \/ (\E p \in Pubs : Publish(p)) \/ UNCHANGED pubVars
      PROVE  BoxOK' /\ AnnouncedOnce' /\ \A c \in Pollers : CreatedOK(c)'
  <2>1. UNCHANGED <<announced, died, box, poller>>
    BY <1>2 DEF NextDay, SaveWatch, Publish, pubVars
  <2> QED
    BY <1>0, <1>1, <2>1 DEF CreatedOK
<1>3. ASSUME NEW r \in Reviewers, Confirm(r) \/ Discard(r) \/ Reopen(r) \/ \E p \in Pubs, a \in {"confirm", "discard", "reopen"} : DecideOn(r, p, a)
      PROVE  BoxOK' /\ AnnouncedOnce' /\ \A c \in Pollers : CreatedOK(c)'
  <2>1. UNCHANGED <<announced, died, poller>>
    BY <1>3 DEF Confirm, Discard, Reopen, DecideOn
  <2>2. \A p \in Pubs : box'[p] = "none" <=> box[p] = "none"
    BY <1>3 DEF Confirm, Discard, Reopen, DecideOn, PubTypeOK, PubInv, ReviewOK
  <2> QED
    BY <1>0, <1>1, <2>1, <2>2 DEF CreatedOK
<1>4. ASSUME NEW c \in Pollers, StartSearch(c) \/ ReadPage(c) \/ SearchFails(c) \/ SaveChecked(c) PROVE BoxOK' /\ AnnouncedOnce' /\ \A d \in Pollers : CreatedOK(d)'
  <2>1. UNCHANGED <<announced, died, box>> /\ \A d \in Pollers \ {c} : poller'[d] = poller[d]
    BY <1>4 DEF StartSearch, ReadPage, SearchFails, SaveChecked, PubTypeOK
  <2>2. poller'[c].created = poller[c].created /\ (poller'[c].pc \in {"idle", "page"} => poller[c].created = {})
    <3>1. CASE StartSearch(c)
      BY <1>0, <3>1 DEF StartSearch, Waiting, PubTypeOK, CreatedOK
    <3>4. CASE SearchFails(c)
      BY <1>0, <3>4 DEF SearchFails, Waiting, PubTypeOK, CreatedOK
    <3>3. CASE ReadPage(c)
      <4>1. poller[c].pc = "page" /\ poller[c].created = {} /\ poller[c] \in PollRow
        BY <1>0, <3>3 DEF ReadPage, CreatedOK, PubTypeOK
      <4>2. PICK I : poller'[c] = WithPage(poller[c], I, poller[c].page + 1, Cardinality(Listed(c)))
        BY <3>3 DEF ReadPage, PubTypeOK
      <4> QED
        BY <4>1, <4>2 DEF WithPage, PollRow
    <3>2. CASE SaveChecked(c)
      <4>1. poller'[c] = IF poller[c].created = {} THEN Waiting ELSE [poller[c] EXCEPT !.pc = "announce"]
        BY <3>2 DEF SaveChecked, PubTypeOK
      <4>2. poller[c] \in PollRow
        BY DEF PubTypeOK
      <4> QED
        BY <4>1, <4>2 DEF Waiting, PollRow
    <3> QED
      BY <1>4, <3>1, <3>2, <3>3, <3>4
  <2> QED
    BY <1>0, <1>1, <2>1, <2>2 DEF CreatedOK
<1>5. ASSUME NEW c \in Pollers, Ingest(c) PROVE BoxOK' /\ AnnouncedOnce' /\ \A d \in Pollers : CreatedOK(d)'
  <2>1. PICK p \in poller[c].items :
          /\ poller' = [poller EXCEPT ![c].items = poller[c].items \ {p},
                                      ![c].created = IF Insertable(p) THEN poller[c].created \cup {p} ELSE poller[c].created]
          /\ box' = IF Insertable(p) THEN [box EXCEPT ![p] = "nova"] ELSE box
    BY <1>5 DEF Ingest
  <2>2. /\ poller'[c].pc = "ingest" /\ poller[c].pc = "ingest" /\ UNCHANGED <<announced, died>> /\ p \in Pubs
        /\ poller'[c].created = (IF Insertable(p) THEN poller[c].created \cup {p} ELSE poller[c].created)
        /\ (\A d \in Pollers \ {c} : poller'[d] = poller[d])
        /\ \A q \in Pubs \ {p} : box'[q] = box[q]
    <3>1. poller[c].pc = "ingest" /\ UNCHANGED <<announced, died>> /\ p \in Pubs /\ \A q \in Pubs \ {p} : box'[q] = box[q]
      BY <1>0, <1>5, <2>1 DEF Ingest, PubTypeOK
    <3>2. \A d \in Pollers \ {c} : poller'[d] = poller[d]
      BY <2>1 DEF PubTypeOK
    <3>3. poller[c] \in PollRow /\ poller \in [Pollers -> PollRow]
      BY DEF PubTypeOK
    <3>4. poller'[c].pc = poller[c].pc /\ poller'[c].created = (IF Insertable(p) THEN poller[c].created \cup {p} ELSE poller[c].created)
      BY <2>1, <3>3 DEF PollRow
    <3> QED
      BY <3>1, <3>2, <3>4
  <2>3. CASE ~Insertable(p)
    <3>1. box' = box
      BY <2>1, <2>3
    <3>2. \A d \in Pollers : poller'[d].created = poller[d].created /\ (poller'[d].pc \in {"idle", "page"} => poller[d].created = {})
      BY <1>0, <2>2, <2>3 DEF CreatedOK
    <3> QED
      BY <1>1, <2>2, <3>1, <3>2
  <2>4. CASE Insertable(p)
    <3>1. box[p] = "none" /\ announced[p] = 0 /\ box'[p] = "nova" /\ \A d \in Pollers : p \notin poller[d].created
      BY <1>0, <2>1, <2>2, <2>4 DEF Insertable, BoxOK, CreatedOK, PubTypeOK
    <3>2. BoxOK'
      BY <1>0, <2>2, <3>1 DEF BoxOK
    <3>3. AnnouncedOnce'
      <4>1. p \in poller'[c].created
        BY <2>2, <2>4
      <4>2. ASSUME NEW q \in Pubs, NEW d \in Pollers, q \in poller[d].created PROVE q \in poller'[d].created
        BY <2>2, <4>2
      <4> QED
        BY <1>0, <2>2, <3>1, <4>1, <4>2 DEF AnnouncedOnce
    <3>4. ASSUME NEW d \in Pollers PROVE CreatedOK(d)'
      BY <1>0, <2>2, <3>1 DEF CreatedOK
    <3> QED
      BY <3>2, <3>3, <3>4
  <2> QED
    BY <2>3, <2>4
<1>6. ASSUME NEW c \in Pollers, Announce(c) PROVE BoxOK' /\ AnnouncedOnce' /\ \A d \in Pollers : CreatedOK(d)'
  <2>1. /\ poller'[c].created = {} /\ (\A d \in Pollers \ {c} : poller'[d] = poller[d]) /\ UNCHANGED <<died, box>>
        /\ \A p \in Pubs : announced'[p] = IF p \in poller[c].created THEN announced[p] + 1 ELSE announced[p]
    BY <1>6 DEF Announce, Waiting, PubTypeOK
  <2>2. BoxOK'
    BY <1>0, <2>1 DEF BoxOK, CreatedOK
  <2>3. AnnouncedOnce'
    <3>1. \A p \in Pubs : announced'[p] <= 1
      BY <1>0, <2>1 DEF AnnouncedOnce, CreatedOK
    <3>2. ASSUME NEW p \in Pubs, box[p] # "none", ~died PROVE announced'[p] = 1 \/ \E d \in Pollers : p \in poller'[d].created
      BY <1>0, <2>1, <3>2 DEF AnnouncedOnce, CreatedOK
    <3> QED
      BY <2>1, <3>1, <3>2 DEF AnnouncedOnce
  <2>4. ASSUME NEW d \in Pollers PROVE CreatedOK(d)'
    BY <1>0, <2>1 DEF CreatedOK
  <2> QED
    BY <2>2, <2>3, <2>4
<1>7. ASSUME NEW c \in Pollers, PollerDies(c) PROVE BoxOK' /\ AnnouncedOnce' /\ \A d \in Pollers : CreatedOK(d)'
  <2>1. /\ poller'[c].created = {} /\ (\A d \in Pollers \ {c} : poller'[d] = poller[d]) /\ UNCHANGED <<announced, box>> /\ died'
    BY <1>7 DEF PollerDies, Waiting, PubTypeOK
  <2>2. BoxOK' /\ AnnouncedOnce'
    BY <1>0, <2>1 DEF BoxOK, AnnouncedOnce
  <2>3. ASSUME NEW d \in Pollers PROVE CreatedOK(d)'
    BY <1>0, <2>1 DEF CreatedOK
  <2> QED
    BY <2>2, <2>3
<1> QED
  BY <1>2, <1>3, <1>4, <1>5, <1>6, <1>7 DEF PubNext

LEMMA ReviewStep ==
    ASSUME PubTypeOK, PubTypeOK', PubInv, [PubNext]_pubVars
    PROVE  DeadlinesHaveTasks' /\ \A r \in Reviewers : ReviewOK(r)'
<1>0. DeadlinesHaveTasks /\ (\A r \in Reviewers : ReviewOK(r)) /\ (\A p \in Pubs : tasksOf[p] \in Nat)
  BY DEF PubInv, PubTypeOK
<1>1. ASSUME UNCHANGED <<due, tasksOf, reviewer, overlapped, reopened>>, \A p \in Pubs : box'[p] = box[p] \/ (box[p] = "none" /\ box'[p] = "nova")
      PROVE  DeadlinesHaveTasks' /\ \A r \in Reviewers : ReviewOK(r)'
  <2>1. DeadlinesHaveTasks'
    BY <1>0, <1>1 DEF DeadlinesHaveTasks
  <2>2. ASSUME NEW r \in Reviewers PROVE ReviewOK(r)'
    BY <1>0, <1>1 DEF ReviewOK
  <2> QED
    BY <2>1, <2>2
<1>2. CASE NextDay \/ SaveWatch \/ (\E p \in Pubs : Publish(p)) \/ UNCHANGED pubVars
  BY <1>1, <1>2 DEF NextDay, SaveWatch, Publish, pubVars
<1>3. ASSUME NEW c \in Pollers, StartSearch(c) \/ ReadPage(c) \/ SearchFails(c) \/ SaveChecked(c) \/ Announce(c) \/ PollerDies(c)
      PROVE  DeadlinesHaveTasks' /\ \A r \in Reviewers : ReviewOK(r)'
  BY <1>1, <1>3 DEF StartSearch, ReadPage, SearchFails, SaveChecked, Announce, PollerDies
<1>4. ASSUME NEW c \in Pollers, Ingest(c) PROVE DeadlinesHaveTasks' /\ \A r \in Reviewers : ReviewOK(r)'
  <2>1. \A p \in Pubs : box'[p] = box[p] \/ (box[p] = "none" /\ box'[p] = "nova")
    BY <1>4 DEF Ingest, Insertable, PubTypeOK
  <2> QED
    BY <1>1, <1>4, <2>1 DEF Ingest
<1>5. ASSUME NEW r \in Reviewers, NEW p \in Pubs, NEW a \in {"confirm", "discard", "reopen"}, DecideOn(r, p, a)
      PROVE  DeadlinesHaveTasks' /\ \A q \in Reviewers : ReviewOK(q)'
  <2>1. /\ UNCHANGED <<box, due, tasksOf, reopened>> /\ reviewer[r].pc = "idle" /\ Reviewable(p, a)
        /\ reviewer'[r] = [pc |-> a, pub |-> p] /\ \A q \in Reviewers \ {r} : reviewer'[q] = reviewer[q]
    BY <1>5 DEF DecideOn, PubTypeOK
  <2>2. /\ overlapped \subseteq overlapped' /\ overlapped' \subseteq overlapped \cup {p}
        /\ (\E q \in Reviewers \ {r} : reviewer[q].pc # "idle" /\ reviewer[q].pub = p) => p \in overlapped'
    BY <1>5 DEF DecideOn
  <2>3. DeadlinesHaveTasks'
    BY <1>0, <2>1, <2>2 DEF DeadlinesHaveTasks
  <2>4. ReviewOK(r)'
    BY <2>1, <2>2 DEF ReviewOK, Reviewable
  <2>5. ASSUME NEW q \in Reviewers \ {r} PROVE ReviewOK(q)'
    BY <1>0, <2>1, <2>2 DEF ReviewOK
  <2> QED
    BY <2>3, <2>4, <2>5
<1>6. ASSUME NEW r \in Reviewers, Confirm(r) \/ Discard(r) \/ Reopen(r) PROVE DeadlinesHaveTasks' /\ \A q \in Reviewers : ReviewOK(q)'
  <2> DEFINE p == reviewer[r].pub
  <2>1. /\ reviewer[r].pc # "idle" /\ p \in Pubs /\ overlapped' = overlapped
        /\ reviewer'[r].pc = "idle" /\ \A q \in Reviewers \ {r} : reviewer'[q] = reviewer[q]
    BY <1>0, <1>6 DEF Confirm, Discard, Reopen, Ended, PubTypeOK, ReviewOK
  <2>2. box'[p] # "none" /\ \A q \in Pubs \ {p} : box'[q] = box[q] /\ tasksOf'[q] = tasksOf[q] /\ (q \in due' <=> q \in due)
    BY <1>6, <2>1 DEF Confirm, Discard, Reopen, PubTypeOK
  <2>3. DeadlinesHaveTasks'
    <3>1. ASSUME NEW q \in Pubs \ (overlapped \cup reopened'), q # p
          PROVE  tasksOf'[q] = IF box'[q] = "confirmada" /\ q \in due' THEN 1 ELSE 0
      <4>1. q \notin reopened
        BY <1>6, <3>1 DEF Confirm, Discard, Reopen
      <4> QED
        BY <1>0, <2>1, <2>2, <3>1, <4>1 DEF DeadlinesHaveTasks
    <3>2. ASSUME p \notin overlapped \cup reopened' PROVE tasksOf'[p] = IF box'[p] = "confirmada" /\ p \in due' THEN 1 ELSE 0
      <4>1. (Confirm(r) \/ Discard(r)) /\ p \notin reopened /\ box[p] = "nova"
        BY <1>0, <1>6, <2>1, <3>2 DEF Confirm, Discard, Reopen, ReviewOK
      <4>2. tasksOf[p] = 0
        BY <1>0, <2>1, <3>2, <4>1 DEF DeadlinesHaveTasks
      <4>3. CASE Confirm(r)
        BY <2>1, <4>2, <4>3 DEF Confirm, PubTypeOK
      <4>4. CASE Discard(r)
        BY <2>1, <4>2, <4>4 DEF Discard, PubTypeOK
      <4> QED
        BY <4>1, <4>3, <4>4
    <3> QED
      BY <2>1, <3>1, <3>2 DEF DeadlinesHaveTasks
  <2>4. ReviewOK(r)'
    BY <2>1 DEF ReviewOK
  <2>5. ASSUME NEW q \in Reviewers \ {r} PROVE ReviewOK(q)'
    <3>1. CASE reviewer[q].pc # "idle" /\ reviewer[q].pub = p
      BY <1>0, <2>1, <2>2, <3>1 DEF ReviewOK
    <3>2. CASE reviewer[q].pc # "idle" /\ reviewer[q].pub # p
      BY <1>0, <2>1, <2>2, <3>2 DEF ReviewOK
    <3>3. CASE reviewer[q].pc = "idle"
      BY <2>1, <3>3 DEF ReviewOK
    <3> QED
      BY <3>1, <3>2, <3>3
  <2> QED
    BY <2>3, <2>4, <2>5
<1> QED
  BY <1>2, <1>3, <1>4, <1>5, <1>6 DEF PubNext

LEMMA PubInvHolds == PubSpec => [](PubTypeOK /\ PubInv)
<1>1. PubInit => PubTypeOK /\ PubInv
  <2> SUFFICES ASSUME PubInit PROVE PubTypeOK /\ PubInv
    OBVIOUS
  <2>1. /\ today = FirstWindow /\ FirstWindow \in 0 .. MaxDay /\ saves = 0 /\ checked = FALSE /\ box = [p \in Pubs |-> "none"] /\ due = {}
        /\ gazette \in [Pubs -> {NotShown} \cup [day : 0 .. FirstWindow, seen : {FirstWindow}]]
        /\ tasksOf = [p \in Pubs |-> 0] /\ announced = [p \in Pubs |-> 0] /\ poller = [c \in Pollers |-> Waiting]
        /\ reviewer = [r \in Reviewers |-> [pc |-> "idle", pub |-> NoPub]]
        /\ decisions = 0 /\ finished = {} /\ died = FALSE /\ overlapped = {} /\ reopened = {}
    BY PubAssumption DEF PubInit, PubAssumption
  <2>2. PubTypeOK
    <3>1. Waiting \in PollRow /\ 0 \in 0 .. MaxDecisions /\ 0 \in 0 .. MaxSaves
      BY PubAssumption DEF PubAssumption, Waiting, PollRow
    <3>2. gazette \in [Pubs -> [day : -1 .. MaxDay, seen : -1 .. MaxDay]]
      <4>1. {NotShown} \cup [day : 0 .. FirstWindow, seen : {FirstWindow}] \subseteq [day : -1 .. MaxDay, seen : -1 .. MaxDay]
        BY <2>1, PubAssumption DEF PubAssumption, NotShown
      <4> QED
        BY <2>1, <4>1
    <3> QED
      BY <2>1, <3>1, <3>2 DEF PubTypeOK
  <2>3. DaysOK /\ NothingMissed /\ BoxOK /\ AnnouncedOnce /\ DeadlinesHaveTasks
    <3>1. \A c \in Pollers : poller[c].day = 0 /\ poller[c].pc = "idle" /\ poller[c].created = {}
      BY <2>1 DEF Waiting
    <3> QED
      BY <2>1, <3>1 DEF DaysOK, NothingMissed, BoxOK, AnnouncedOnce, DeadlinesHaveTasks
  <2>4. (\A c \in Pollers : ReadingOK(c) /\ CreatedOK(c)) /\ \A r \in Reviewers : ReviewOK(r)
    BY <2>1 DEF ReadingOK, PageOK, SearchOK, CreatedOK, ReviewOK, Waiting
  <2> QED
    BY <2>2, <2>3, <2>4 DEF PubInv
<1>2. PubTypeOK /\ PubInv /\ [PubNext]_pubVars => PubTypeOK' /\ PubInv'
  BY PubTypeStep, SearchStep, AnnounceStep, ReviewStep DEF PubInv
<1> QED
  BY <1>1, <1>2, PTL DEF PubSpec

\* What a window held is captured by a consultation that ran to its end, as long as the window fits in the
\* pages a search reads (MaxPages of PageSize); what is captured is announced once, and its confirmed deadline
\* becomes exactly one task (search, poll_watch, ingest, confirm of src/publications).
THEOREM NothingUnhandled == PubSpec => []PublicationsHandled
  BY PubInvHolds, PTL DEF PubInv, PublicationsHandled

-----------------------------------------------------------------------------
(* Triggers. *)

\* The occasion of a run, as its dedupe key has it; and what a job that is listed has.
RunStamp(r) ==
    CASE trigger = "schedule" -> r.day
      [] trigger = "contact_birthday" -> r.day \div YearDays
      [] trigger = "opportunity_stale" -> r.listed.stay
      [] OTHER -> 0
JobStamp(job, now) ==
    CASE trigger = "schedule" -> DayOf(now)
      [] trigger = "contact_birthday" -> DayOf(now) \div YearDays
      [] trigger = "opportunity_stale" -> job.listed.stay
      [] OTHER -> 0

\* A thing that was listed: the date is the one it has, as long as what the key counts is the same.
SameDate(x, listed) ==
    /\ trigger = "schedule" => listed.date = thing[x].date
    /\ trigger = "opportunity_stale" =>
        listed.stay <= thing[x].stay /\ (listed.stay = thing[x].stay => listed.date = thing[x].date)

JobsOK ==
    \A w \in Tickers : \A job \in ticks[w].jobs :
        job.stamp = JobStamp(job, ticks[w].at) /\ job.listed.live /\ SameDate(job.of, job.listed)
RunsOK ==
    /\ \A r \in runs : r.of \in Things /\ r.listed \in ThingRow /\ <<r.of, RunStamp(r)>> \in fired /\ SameDate(r.of, r.listed)
    /\ \A key \in fired : \E r \in runs : key = <<r.of, RunStamp(r)>>

\* A tick of this slot, whose rule stayed on, still has the jobs of what is due and has not run.
IsListed(w, x) == \E job \in ticks[w].jobs : job.of = x /\ job.stamp = Stamp(x, slot) /\ job.listed = thing[x]
SweepOK ==
    sure # "no" =>
        /\ ruleOn
        /\ \A w \in Tickers : ticks[w].pc = "run" /\ ticks[w].at = slot =>
            \A x \in untouched : IsDue(x, slot) => RunAt(x, slot) \/ IsListed(w, x)
StaysOK == \A x \in Things : thing[x].stay <= touches

TrgInv == StaysOK /\ JobsOK /\ RunsOK /\ OncePerOccasion /\ StillOpen /\ SweepOK /\ NoneForgotten

LEMMA StampNat ==
    ASSUME TrgTypeOK, NEW x \in Things
    PROVE  Stamp(x, slot) \in Nat /\ Job(x, slot) \in JobRow
<1>1. DayOf(slot) \in Nat /\ DayOf(slot) \div YearDays \in Nat
  BY TriggersAssumption DEF TrgTypeOK, DayOf
<1>2. thing[x] \in ThingRow /\ thing[x].stay \in Nat
  BY TriggersAssumption DEF TrgTypeOK, ThingRow
<1>3. Stamp(x, slot) \in Nat
  BY <1>1, <1>2 DEF Stamp
<1> QED
  BY <1>2, <1>3 DEF Job, JobRow

\* How a tick, and a thing, change.
LEMMA TickMoves ==
    ASSUME TrgTypeOK, NEW w \in Tickers, NEW job \in ticks[w].jobs, ticks' = [ticks EXCEPT ![w].jobs = ticks[w].jobs \ {job}]
    PROVE  /\ \A v \in Tickers \ {w} : ticks'[v] = ticks[v]
           /\ ticks'[w].pc = ticks[w].pc /\ ticks'[w].at = ticks[w].at /\ ticks'[w].jobs = ticks[w].jobs \ {job}
           /\ job \in JobRow
<1>1. ticks[w] \in [pc : {"idle", "run"}, at : 0 .. 2 * LastDay + 1, jobs : SUBSET JobRow]
  BY DEF TrgTypeOK
<1>2. ticks' = [ticks EXCEPT ![w] = [ticks[w] EXCEPT !.jobs = ticks[w].jobs \ {job}]]
  OBVIOUS
<1> QED
  BY <1>1, <1>2 DEF TrgTypeOK

LEMMA ThingMoves ==
    ASSUME TrgTypeOK, StaysOK, NEW x \in Things, OpensOrCloses(x) \/ \E d \in CalDays : Moves(x, d)
    PROVE  /\ thing' \in [Things -> ThingRow] /\ touches' \in 0 .. MaxTouches /\ touches' = touches + 1
           /\ thing'[x].stay <= touches' /\ \A y \in Things \ {x} : thing'[y] = thing[y]
           /\ trigger # "schedule" /\ untouched' = untouched \ {x}
           /\ UNCHANGED <<trigger, ruleOn, slot, ticks, fired, tickTrouble, runs, sure>>
           /\ trigger = "opportunity_stale" =>
                \/ thing'[x].stay = thing[x].stay /\ thing'[x].date = thing[x].date
                \/ thing'[x].stay = thing[x].stay + 1
<1>1. thing[x] \in ThingRow /\ thing[x].stay \in Nat /\ thing[x].stay <= touches /\ touches \in Nat /\ MaxTouches \in Nat
  BY TriggersAssumption DEF TrgTypeOK, StaysOK, ThingRow
<1>2. touches < MaxTouches /\ touches' = touches + 1 /\ untouched' = untouched \ {x}
      /\ UNCHANGED <<trigger, ruleOn, slot, ticks, fired, tickTrouble, runs, sure>>
  BY DEF OpensOrCloses, Moves, TouchesThing
<1>3. trigger # "schedule"
  BY DEF OpensOrCloses, Moves
<1>4. CASE OpensOrCloses(x)
  <2>1. thing' = [thing EXCEPT ![x] = [thing[x] EXCEPT !.live = ~thing[x].live]]
    BY <1>4 DEF OpensOrCloses, TouchesThing
  <2>2. (~thing[x].live) \in BOOLEAN
    BY <1>1 DEF ThingRow
  <2>3. [thing[x] EXCEPT !.live = ~thing[x].live] \in ThingRow
    BY <1>1, <2>2 DEF ThingRow
  <2>4. [thing[x] EXCEPT !.live = ~thing[x].live].stay = thing[x].stay /\ [thing[x] EXCEPT !.live = ~thing[x].live].date = thing[x].date
    BY <1>1 DEF ThingRow
  <2> HIDE DEF ThingRow
  <2>5. /\ thing' \in [Things -> ThingRow] /\ thing'[x].stay = thing[x].stay /\ thing'[x].date = thing[x].date
        /\ \A y \in Things \ {x} : thing'[y] = thing[y]
    BY <2>1, <2>3, <2>4 DEF TrgTypeOK
  <2> QED
    BY <1>1, <1>2, <1>3, <2>5
<1>5. ASSUME NEW d \in CalDays, Moves(x, d)
      PROVE  /\ thing' \in [Things -> ThingRow] /\ thing'[x].stay <= touches' /\ \A y \in Things \ {x} : thing'[y] = thing[y]
             /\ trigger = "opportunity_stale" => thing'[x].stay = thing[x].stay + 1
  <2> DEFINE stay == IF trigger = "opportunity_stale" THEN thing[x].stay + 1 ELSE 0
  <2>1. thing' = [thing EXCEPT ![x] = [thing[x] EXCEPT !.date = d, !.stay = stay]]
    BY <1>5 DEF Moves, TouchesThing
  <2>2. stay \in 0 .. MaxTouches /\ stay <= touches' /\ (trigger = "opportunity_stale" => stay = thing[x].stay + 1)
    BY <1>1, <1>2
  <2> HIDE DEF stay
  <2>3. [thing[x] EXCEPT !.date = d, !.stay = stay] \in ThingRow /\ [thing[x] EXCEPT !.date = d, !.stay = stay].stay = stay
    BY <1>1, <2>2 DEF ThingRow
  <2> QED
    BY <2>1, <2>2, <2>3 DEF TrgTypeOK
<1> QED
  BY <1>1, <1>2, <1>3, <1>4, <1>5

LEMMA TrgTypeStep == TrgTypeOK /\ StaysOK /\ [TrgNext]_trgVars => TrgTypeOK' /\ StaysOK'
<1> SUFFICES ASSUME TrgTypeOK, StaysOK, [TrgNext]_trgVars PROVE TrgTypeOK' /\ StaysOK'
  OBVIOUS
<1> DEFINE TickRow == [pc : {"idle", "run"}, at : 0 .. 2 * LastDay + 1, jobs : SUBSET JobRow]
<1>0. slot \in Nat /\ LastDay \in Nat /\ MaxTouches \in Nat /\ MaxTickTrouble \in Nat /\ tickTrouble \in Nat /\ NoTick \in TickRow
  BY TriggersAssumption DEF TrgTypeOK, NoTick
<1>1. ASSUME NEW w \in Tickers, TickStart(w) PROVE TrgTypeOK' /\ StaysOK'
  <2>1. {Job(x, slot) : x \in {y \in Things : IsDue(y, slot)}} \in SUBSET JobRow
    BY StampNat
  <2>2. [pc |-> "run", at |-> slot, jobs |-> {Job(x, slot) : x \in {y \in Things : IsDue(y, slot)}}] \in TickRow
    BY <2>1 DEF TrgTypeOK
  <2>3. /\ ticks' \in [Tickers -> TickRow] /\ \A v \in Tickers : ticks'[v].at <= slot
    BY <1>0, <1>1, <2>2 DEF TickStart, TrgTypeOK
  <2> QED
    BY <1>1, <2>3 DEF TickStart, TrgTypeOK, StaysOK
<1>2. ASSUME NEW w \in Tickers, NEW job \in ticks[w].jobs, TickExecutes(w, job) PROVE TrgTypeOK' /\ StaysOK'
  <2>1. ticks' = [ticks EXCEPT ![w].jobs = ticks[w].jobs \ {job}]
    BY <1>2 DEF TickExecutes
  <2>2. job \in JobRow /\ ticks[w] \in TickRow /\ ticks'[w].at = ticks[w].at /\ \A v \in Tickers \ {w} : ticks'[v] = ticks[v]
    BY <2>1, TickMoves DEF TrgTypeOK
  <2>3. [ticks[w] EXCEPT !.jobs = ticks[w].jobs \ {job}] \in TickRow
    BY <2>2
  <2>4. ticks' \in [Tickers -> TickRow] /\ \A v \in Tickers : ticks'[v].at <= slot
    BY <2>1, <2>2, <2>3 DEF TrgTypeOK
  <2>5. fired' \subseteq Things \X Nat
    BY <1>2, <2>2 DEF TickExecutes, KeyOf, JobRow, TrgTypeOK
  <2> QED
    BY <1>2, <2>4, <2>5 DEF TickExecutes, TrgTypeOK, StaysOK
<1>3. ASSUME NEW w \in Tickers, TickEnds(w) \/ TickDies(w) PROVE TrgTypeOK' /\ StaysOK'
  <2>1. ticks' = [ticks EXCEPT ![w] = NoTick]
    BY <1>3 DEF TickEnds, TickDies
  <2>2. ticks' \in [Tickers -> TickRow] /\ \A v \in Tickers : ticks'[v].at <= slot
    BY <1>0, <2>1 DEF TrgTypeOK, NoTick
  <2>3. tickTrouble' \in 0 .. MaxTickTrouble /\ sure' \in {"no", "on", "swept"}
    BY <1>0, <1>3 DEF TickEnds, TickDies, TrgTypeOK
  <2> QED
    BY <1>3, <2>2, <2>3 DEF TickEnds, TickDies, TrgTypeOK, StaysOK
<1>4. ASSUME NEW x \in Things, OpensOrCloses(x) \/ \E d \in CalDays : Moves(x, d) PROVE TrgTypeOK' /\ StaysOK'
  <2>1. /\ thing' \in [Things -> ThingRow] /\ touches' \in 0 .. MaxTouches /\ touches' = touches + 1
        /\ thing'[x].stay <= touches' /\ \A y \in Things \ {x} : thing'[y] = thing[y]
        /\ untouched' = untouched \ {x}
        /\ UNCHANGED <<trigger, ruleOn, slot, ticks, fired, tickTrouble, runs, sure>>
    BY <1>4, ThingMoves
  <2>2. \A y \in Things : thing[y].stay \in Int /\ thing[y].stay <= touches /\ touches \in Int
    BY DEF TrgTypeOK, StaysOK, ThingRow
  <2>3. StaysOK'
    BY <2>1, <2>2 DEF StaysOK
  <2> QED
    BY <2>1, <2>3 DEF TrgTypeOK
<1>5. CASE SwitchesRule
  <2>1. tickTrouble' \in 0 .. MaxTickTrouble /\ ruleOn' \in BOOLEAN
    BY <1>0, <1>5 DEF SwitchesRule, TrgTypeOK
  <2> QED
    BY <1>5, <2>1 DEF SwitchesRule, TrgTypeOK, StaysOK
<1>6. CASE TimePasses
  <2>1. slot' \in 0 .. 2 * LastDay + 1 /\ slot' = slot + 1
    BY <1>0, <1>6 DEF TimePasses
  <2>2. \A v \in Tickers : ticks'[v].at <= slot'
    BY <1>0, <1>6, <2>1 DEF TimePasses, TrgTypeOK
  <2> QED
    BY <1>6, <2>1, <2>2 DEF TimePasses, TrgTypeOK, StaysOK
<1>7. CASE UNCHANGED trgVars
  BY <1>7 DEF trgVars, TrgTypeOK, StaysOK
<1> QED
  BY <1>1, <1>2, <1>3, <1>4, <1>5, <1>6, <1>7 DEF TrgNext

-----------------------------------------------------------------------------
\* What was listed keeps its date, and its occasion.
LEMMA DateKept ==
    ASSUME TrgTypeOK, StaysOK, NEW x \in Things, OpensOrCloses(x) \/ \E d \in CalDays : Moves(x, d),
           NEW y \in Things, NEW listed \in ThingRow, SameDate(y, listed)
    PROVE  SameDate(y, listed)'
<1>1. /\ \A z \in Things \ {x} : thing'[z] = thing[z]
      /\ trigger # "schedule" /\ trigger' = trigger
      /\ trigger = "opportunity_stale" => \/ thing'[x].stay = thing[x].stay /\ thing'[x].date = thing[x].date
                                          \/ thing'[x].stay = thing[x].stay + 1
  BY ThingMoves
<1>2. listed.stay \in Int /\ thing[x].stay \in Int
  BY DEF TrgTypeOK, ThingRow
<1> QED
  BY <1>1, <1>2 DEF SameDate

\* The run a tick starts for a job.
NewRun(w, job) ==
    [of |-> job.of, nth |-> NthOf(job.of), day |-> DayOf(ticks[w].at), listed |-> job.listed, read |-> thing[job.of]]

LEMMA RunStarts ==
    ASSUME NEW w \in Tickers, NEW job \in ticks[w].jobs, TickExecutes(w, job), JobsOK
    PROVE  /\ UNCHANGED <<trigger, ruleOn, thing, slot, untouched, sure>>
           /\ RunStamp(NewRun(w, job)) = job.stamp
           /\ \/ /\ ruleOn /\ Reread(job.of) /\ <<job.of, job.stamp>> \notin fired
                 /\ fired' = fired \cup {<<job.of, job.stamp>>} /\ runs' = runs \cup {NewRun(w, job)}
              \/ /\ ~ruleOn \/ ~Reread(job.of) \/ <<job.of, job.stamp>> \in fired
                 /\ UNCHANGED <<fired, runs>>
<1>1. RunStamp(NewRun(w, job)) = job.stamp
  BY DEF RunStamp, NewRun, JobsOK, JobStamp
<1>2. UNCHANGED <<trigger, ruleOn, thing, slot, untouched, sure>>
  BY DEF TickExecutes
<1>3. CASE ruleOn /\ Reread(job.of) /\ <<job.of, job.stamp>> \notin fired
  <2>1. fired' = fired \cup {<<job.of, job.stamp>>} /\ runs' = runs \cup {NewRun(w, job)}
    BY <1>3 DEF TickExecutes, KeyOf, NewRun
  <2> QED
    BY <1>1, <1>2, <1>3, <2>1
<1>4. CASE ~(ruleOn /\ Reread(job.of) /\ <<job.of, job.stamp>> \notin fired)
  <2>1. UNCHANGED <<fired, runs>>
    BY <1>4 DEF TickExecutes, KeyOf
  <2> QED
    BY <1>1, <1>2, <1>4, <2>1
<1> QED
  BY <1>3, <1>4

LEMMA JobsStep == TrgTypeOK /\ TrgInv /\ [TrgNext]_trgVars => JobsOK'
<1> SUFFICES ASSUME TrgTypeOK, StaysOK, JobsOK, [TrgNext]_trgVars PROVE JobsOK'
  BY DEF TrgInv
<1>1. ASSUME trigger' = trigger, thing' = thing,
             \A w \in Tickers : ticks'[w].jobs = {} \/ (ticks'[w].jobs \subseteq ticks[w].jobs /\ ticks'[w].at = ticks[w].at)
      PROVE  JobsOK'
  <2> SUFFICES ASSUME NEW w \in Tickers, NEW job \in ticks'[w].jobs
               PROVE  (job.stamp = JobStamp(job, ticks[w].at) /\ job.listed.live /\ SameDate(job.of, job.listed))'
    BY DEF JobsOK
  <2>1. job \in ticks[w].jobs /\ ticks'[w].at = ticks[w].at
    BY <1>1
  <2> QED
    BY <1>1, <2>1 DEF JobsOK, JobStamp, SameDate
<1>2. ASSUME NEW w \in Tickers, TickStart(w) PROVE JobsOK'
  <2>1. /\ UNCHANGED <<trigger, thing>> /\ \A v \in Tickers \ {w} : ticks'[v] = ticks[v]
        /\ ticks'[w].at = slot /\ ticks'[w].jobs = {Job(x, slot) : x \in {y \in Things : IsDue(y, slot)}}
    BY <1>2 DEF TickStart, TrgTypeOK
  <2>2. ASSUME NEW job \in ticks'[w].jobs PROVE (job.stamp = JobStamp(job, ticks[w].at) /\ job.listed.live /\ SameDate(job.of, job.listed))'
    <3>1. PICK x \in Things : IsDue(x, slot) /\ job = Job(x, slot)
      BY <2>1
    <3>2. job.of = x /\ job.stamp = Stamp(x, slot) /\ job.listed = thing[x] /\ job.listed.live
      BY <3>1 DEF Job, IsDue
    <3>3. thing[x].stay \in Int
      BY DEF TrgTypeOK, ThingRow
    <3> QED
      BY <2>1, <3>2, <3>3 DEF JobStamp, Stamp, SameDate
  <2>3. ASSUME NEW v \in Tickers \ {w}, NEW job \in ticks'[v].jobs
        PROVE  (job.stamp = JobStamp(job, ticks[v].at) /\ job.listed.live /\ SameDate(job.of, job.listed))'
    BY <2>1 DEF JobsOK, JobStamp, SameDate
  <2> QED
    BY <2>2, <2>3 DEF JobsOK
<1>3. ASSUME NEW w \in Tickers, NEW job \in ticks[w].jobs, TickExecutes(w, job) PROVE JobsOK'
  <2>1. ticks' = [ticks EXCEPT ![w].jobs = ticks[w].jobs \ {job}] /\ UNCHANGED <<trigger, thing>>
    BY <1>3 DEF TickExecutes
  <2>2. \A v \in Tickers : ticks'[v].jobs \subseteq ticks[v].jobs /\ ticks'[v].at = ticks[v].at
    BY <2>1, TickMoves
  <2> QED
    BY <1>1, <2>1, <2>2
<1>4. ASSUME NEW w \in Tickers, TickEnds(w) \/ TickDies(w) PROVE JobsOK'
  <2>1. ticks' = [ticks EXCEPT ![w] = NoTick] /\ UNCHANGED <<trigger, thing>>
    BY <1>4 DEF TickEnds, TickDies
  <2>2. \A v \in Tickers : ticks'[v].jobs = {} \/ ticks'[v] = ticks[v]
    BY <2>1 DEF NoTick, TrgTypeOK
  <2> QED
    BY <1>1, <2>1, <2>2
<1>5. ASSUME NEW x \in Things, OpensOrCloses(x) \/ \E d \in CalDays : Moves(x, d) PROVE JobsOK'
  <2>1. UNCHANGED <<trigger, ticks>>
    BY <1>5, ThingMoves
  <2>2. ASSUME NEW w \in Tickers, NEW job \in ticks[w].jobs PROVE SameDate(job.of, job.listed)'
    <3>1. job \in JobRow
      BY DEF TrgTypeOK
    <3>2. job.of \in Things /\ job.listed \in ThingRow
      BY <3>1 DEF JobRow
    <3> QED
      BY <1>5, <3>2, DateKept DEF JobsOK
  <2> QED
    BY <2>1, <2>2 DEF JobsOK, JobStamp
<1>6. CASE SwitchesRule \/ TimePasses \/ UNCHANGED trgVars
  BY <1>1, <1>6 DEF SwitchesRule, TimePasses, trgVars
<1> QED
  BY <1>2, <1>3, <1>4, <1>5, <1>6 DEF TrgNext

LEMMA RunsStep == TrgTypeOK /\ TrgInv /\ [TrgNext]_trgVars => RunsOK' /\ OncePerOccasion' /\ StillOpen'
<1> SUFFICES ASSUME TrgTypeOK, StaysOK, JobsOK, RunsOK, OncePerOccasion, StillOpen, [TrgNext]_trgVars
             PROVE  RunsOK' /\ OncePerOccasion' /\ StillOpen'
  BY DEF TrgInv
<1>1. ASSUME UNCHANGED <<trigger, runs, fired>>, \A r \in runs : SameDate(r.of, r.listed)'
      PROVE  RunsOK' /\ OncePerOccasion' /\ StillOpen'
  <2>1. RunsOK'
    BY <1>1 DEF RunsOK, RunStamp
  <2>2. OncePerOccasion' /\ StillOpen'
    BY <1>1 DEF OncePerOccasion, DifferentOccasions, StillOpen
  <2> QED
    BY <2>1, <2>2
<1>2. ASSUME UNCHANGED <<trigger, runs, fired, thing>> PROVE RunsOK' /\ OncePerOccasion' /\ StillOpen'
  BY <1>1, <1>2 DEF RunsOK, SameDate
<1>3. ASSUME NEW w \in Tickers, NEW job \in ticks[w].jobs, TickExecutes(w, job) PROVE RunsOK' /\ OncePerOccasion' /\ StillOpen'
  <2>0. PICK new : new = NewRun(w, job)
    OBVIOUS
  <2>1. /\ trigger' = trigger /\ thing' = thing
        /\ RunStamp(new) = job.stamp
        /\ \/ /\ Reread(job.of) /\ <<job.of, job.stamp>> \notin fired
              /\ fired' = fired \cup {<<job.of, job.stamp>>} /\ runs' = runs \cup {new}
           \/ UNCHANGED <<fired, runs>>
    BY <1>3, <2>0, RunStarts
  <2>2. job \in JobRow /\ job.listed.live /\ SameDate(job.of, job.listed)
    BY DEF TrgTypeOK, JobsOK
  <2>3. job.of \in Things /\ job.listed \in ThingRow
    BY <2>2 DEF JobRow
  <2>4. new.of = job.of /\ new.listed = job.listed /\ new.read = thing[job.of]
    BY <2>0 DEF NewRun
  <2>5. CASE UNCHANGED <<fired, runs>>
    BY <1>2, <2>1, <2>5
  <2>6. CASE /\ Reread(job.of) /\ <<job.of, job.stamp>> \notin fired
             /\ fired' = fired \cup {<<job.of, job.stamp>>} /\ runs' = runs \cup {new}
    <3>1. RunsOK'
      <4>1. ASSUME NEW r \in runs' PROVE (r.of \in Things /\ r.listed \in ThingRow /\ <<r.of, RunStamp(r)>> \in fired /\ SameDate(r.of, r.listed))'
        <5>1. RunStamp(r)' = RunStamp(r) /\ SameDate(r.of, r.listed)' = SameDate(r.of, r.listed)
          BY <2>1 DEF RunStamp, SameDate
        <5> QED
          BY <2>1, <2>2, <2>3, <2>4, <2>6, <5>1 DEF RunsOK
      <4>2. ASSUME NEW key \in fired' PROVE \E r \in runs' : key = <<r.of, RunStamp(r)'>>
        <5>1. \A r : RunStamp(r)' = RunStamp(r)
          BY <2>1 DEF RunStamp
        <5>2. CASE key \in fired
          BY <2>6, <5>1, <5>2 DEF RunsOK
        <5>3. CASE key = <<job.of, job.stamp>>
          BY <2>1, <2>4, <2>6, <5>1, <5>3
        <5> QED
          BY <2>6, <5>2, <5>3
      <4> QED
        BY <4>1, <4>2 DEF RunsOK
    <3>2. OncePerOccasion'
      <4>1. ASSUME NEW r \in runs, r.of = new.of PROVE DifferentOccasions(r, new)' /\ DifferentOccasions(new, r)'
        <5>1. RunStamp(r) # RunStamp(new)
          BY <2>1, <2>4, <2>6, <4>1 DEF RunsOK
        <5> QED
          BY <2>1, <5>1 DEF DifferentOccasions, RunStamp
      <4>2. ASSUME NEW r \in runs, NEW s \in runs, r.of = s.of, r # s PROVE DifferentOccasions(r, s)'
        BY <2>1, <4>2 DEF OncePerOccasion, DifferentOccasions
      <4> QED
        BY <2>6, <4>1, <4>2 DEF OncePerOccasion
    <3>3. StillOpen'
      BY <2>1, <2>2, <2>4, <2>6 DEF StillOpen, Reread
    <3> QED
      BY <3>1, <3>2, <3>3
  <2> QED
    BY <2>1, <2>5, <2>6
<1>4. ASSUME NEW x \in Things, OpensOrCloses(x) \/ \E d \in CalDays : Moves(x, d) PROVE RunsOK' /\ OncePerOccasion' /\ StillOpen'
  <2>1. UNCHANGED <<trigger, fired, runs>>
    BY <1>4, ThingMoves
  <2>2. ASSUME NEW r \in runs PROVE SameDate(r.of, r.listed)'
    BY <1>4, DateKept DEF RunsOK
  <2> QED
    BY <1>1, <2>1, <2>2
<1>5. ASSUME NEW w \in Tickers, TickStart(w) \/ TickEnds(w) \/ TickDies(w) PROVE RunsOK' /\ OncePerOccasion' /\ StillOpen'
  BY <1>2, <1>5 DEF TickStart, TickEnds, TickDies
<1>6. CASE SwitchesRule \/ TimePasses \/ UNCHANGED trgVars
  BY <1>2, <1>6 DEF SwitchesRule, TimePasses, trgVars
<1> QED
  BY <1>3, <1>4, <1>5, <1>6 DEF TrgNext

-----------------------------------------------------------------------------
\* A thing nobody touches stays due as it was, and told of.
LEMMA SameInSlot ==
    ASSUME UNCHANGED <<trigger, slot>>, runs \subseteq runs', NEW x \in Things, thing'[x] = thing[x]
    PROVE  /\ IsDue(x, slot)' <=> IsDue(x, slot)
           /\ RunAt(x, slot) => RunAt(x, slot)'
           /\ \A w \in Tickers : IsListed(w, x) /\ ticks[w].jobs \subseteq ticks'[w].jobs => IsListed(w, x)'
<1>1. IsDue(x, slot)' <=> IsDue(x, slot)
  BY DEF IsDue
<1>2. RunAt(x, slot) => RunAt(x, slot)'
  BY DEF RunAt
<1>3. Stamp(x, slot)' = Stamp(x, slot)
  BY DEF Stamp
<1>4. \A w \in Tickers : IsListed(w, x) /\ ticks[w].jobs \subseteq ticks'[w].jobs => IsListed(w, x)'
  BY <1>3 DEF IsListed
<1> QED
  BY <1>1, <1>2, <1>4

\* A run with the key of what is due is its run.
LEMMA RanNow ==
    ASSUME NEW x \in Things, NEW r \in runs', r.of = x, RunStamp(r) = Stamp(x, slot), SameDate(x, r.listed),
           UNCHANGED <<trigger, thing, slot>>
    PROVE  RunAt(x, slot)'
BY DEF RunAt, RunStamp, Stamp, SameDate

LEMMA SweepStep == TrgTypeOK /\ TrgTypeOK' /\ TrgInv /\ [TrgNext]_trgVars => SweepOK' /\ NoneForgotten'
<1> SUFFICES ASSUME TrgTypeOK, TrgTypeOK', TrgInv, [TrgNext]_trgVars PROVE SweepOK' /\ NoneForgotten'
  OBVIOUS
<1>0. untouched \subseteq Things /\ untouched' \subseteq Things /\ sure \in {"no", "on", "swept"}
  BY DEF TrgTypeOK
<1> DEFINE Told(w, x) == RunAt(x, slot) \/ IsListed(w, x)
<1>1. ASSUME NEW w \in Tickers, TickStart(w) PROVE SweepOK' /\ NoneForgotten'
  <2>1. /\ UNCHANGED <<trigger, ruleOn, thing, slot, runs, untouched, sure>> /\ \A v \in Tickers \ {w} : ticks'[v] = ticks[v]
        /\ ticks'[w].at = slot /\ ticks'[w].jobs = {Job(x, slot) : x \in {y \in Things : IsDue(y, slot)}}
    BY <1>1 DEF TickStart, TrgTypeOK
  <2>2. NoneForgotten'
    BY <1>0, <2>1, SameInSlot DEF NoneForgotten, TrgInv
  <2>3. ASSUME NEW x \in untouched, IsDue(x, slot) PROVE IsListed(w, x)'
    <3>1. Job(x, slot) \in ticks'[w].jobs
      BY <1>0, <2>1, <2>3
    <3>2. Job(x, slot).of = x /\ Job(x, slot).stamp = Stamp(x, slot) /\ Job(x, slot).listed = thing[x]
      BY DEF Job
    <3>3. Stamp(x, slot)' = Stamp(x, slot)
      BY <2>1 DEF Stamp
    <3> QED
      BY <2>1, <3>1, <3>2, <3>3 DEF IsListed
  <2>4. ASSUME NEW v \in Tickers \ {w}, NEW x \in untouched, RunAt(x, slot) \/ IsListed(v, x) PROVE RunAt(x, slot)' \/ IsListed(v, x)'
    BY <1>0, <2>1, <2>4, SameInSlot
  <2>5. \A x \in untouched : IsDue(x, slot)' <=> IsDue(x, slot)
    BY <1>0, <2>1, SameInSlot
  <2>6. SweepOK'
    BY <2>1, <2>3, <2>4, <2>5 DEF SweepOK, TrgInv
  <2> QED
    BY <2>2, <2>6
<1>2. ASSUME NEW w \in Tickers, NEW job \in ticks[w].jobs, TickExecutes(w, job) PROVE SweepOK' /\ NoneForgotten'
  <2>0. PICK new : new = NewRun(w, job)
    OBVIOUS
  <2>1. /\ UNCHANGED <<trigger, ruleOn, thing, slot, untouched, sure>>
        /\ RunStamp(new) = job.stamp
        /\ \/ runs' = runs \cup {new}
           \/ runs' = runs /\ (~ruleOn \/ ~Reread(job.of) \/ <<job.of, job.stamp>> \in fired)
    BY <1>2, <2>0, RunStarts DEF TrgInv
  <2>2. runs \subseteq runs'
    BY <2>1
  <2>3. NoneForgotten'
    BY <1>0, <2>1, <2>2, SameInSlot DEF NoneForgotten, TrgInv
  <2>4. ticks' = [ticks EXCEPT ![w].jobs = ticks[w].jobs \ {job}]
    BY <1>2 DEF TickExecutes
  <2>5. /\ \A v \in Tickers \ {w} : ticks'[v] = ticks[v]
        /\ ticks'[w].pc = ticks[w].pc /\ ticks'[w].at = ticks[w].at /\ ticks'[w].jobs = ticks[w].jobs \ {job}
    BY <2>4, TickMoves
  <2>6. ASSUME NEW v \in Tickers \ {w}, NEW x \in untouched, RunAt(x, slot) \/ IsListed(v, x) PROVE RunAt(x, slot)' \/ IsListed(v, x)'
    BY <1>0, <2>1, <2>2, <2>5, <2>6, SameInSlot
  <2>7. ASSUME NEW x \in untouched, IsDue(x, slot), ruleOn, RunAt(x, slot) \/ IsListed(w, x) PROVE RunAt(x, slot)' \/ IsListed(w, x)'
    <3>0. x \in Things
      BY <1>0
    <3>1. CASE RunAt(x, slot)
      BY <2>1, <2>2, <3>0, <3>1, SameInSlot
    <3>2. CASE IsListed(w, x)
      <4>1. PICK j \in ticks[w].jobs : j.of = x /\ j.stamp = Stamp(x, slot) /\ j.listed = thing[x]
        BY <3>2 DEF IsListed
      <4>2. CASE j # job
        <5>1. j \in ticks'[w].jobs
          BY <2>5, <4>2
        <5>2. Stamp(x, slot)' = Stamp(x, slot)
          BY <2>1 DEF Stamp
        <5> QED
          BY <2>1, <4>1, <5>1, <5>2 DEF IsListed
      <4>3. CASE j = job
        <5>1. Reread(job.of)
          BY <2>7, <4>1, <4>3 DEF Reread, IsDue
        <5>2. CASE runs' = runs \cup {new}
          <6>1. new \in runs' /\ new.of = x /\ RunStamp(new) = Stamp(x, slot) /\ new.listed = job.listed
            BY <2>0, <2>1, <4>1, <4>3, <5>2 DEF NewRun
          <6>2. SameDate(x, new.listed)
            BY <4>1, <4>3, <6>1 DEF TrgInv, JobsOK
          <6> QED
            BY <2>1, <3>0, <6>1, <6>2, RanNow
        <5>3. CASE runs' = runs /\ <<job.of, job.stamp>> \in fired
          <6>1. PICK r \in runs : <<job.of, job.stamp>> = <<r.of, RunStamp(r)>>
            BY <5>3 DEF TrgInv, RunsOK
          <6>2. r \in runs' /\ r.of = x /\ RunStamp(r) = Stamp(x, slot) /\ SameDate(x, r.listed)
            BY <4>1, <4>3, <5>3, <6>1 DEF TrgInv, RunsOK
          <6> QED
            BY <2>1, <3>0, <6>2, RanNow
        <5> QED
          BY <2>1, <2>7, <5>1, <5>2, <5>3
      <4> QED
        BY <4>2, <4>3
    <3> QED
      BY <2>7, <3>1, <3>2
  <2>8. \A x \in untouched : IsDue(x, slot)' <=> IsDue(x, slot)
    BY <1>0, <2>1, <2>2, SameInSlot
  <2>9. SweepOK'
    BY <2>1, <2>5, <2>6, <2>7, <2>8 DEF SweepOK, TrgInv
  <2> QED
    BY <2>3, <2>9
<1>3. ASSUME NEW w \in Tickers, TickEnds(w) \/ TickDies(w) PROVE SweepOK' /\ NoneForgotten'
  <2>1. /\ UNCHANGED <<trigger, ruleOn, thing, slot, runs, untouched>>
        /\ \A v \in Tickers : ticks'[v] = ticks[v] \/ ticks'[v].pc = "idle"
    BY <1>3 DEF TickEnds, TickDies, NoTick, TrgTypeOK
  <2>2. /\ sure' # "no" => sure # "no"
        /\ sure' = "swept" => sure = "swept" \/ (sure = "on" /\ ticks[w].pc = "run" /\ ticks[w].at = slot /\ ticks[w].jobs = {})
    BY <1>3 DEF TickEnds, TickDies
  <2>3. ASSUME NEW v \in Tickers, ticks'[v] = ticks[v], NEW x \in untouched, RunAt(x, slot) \/ IsListed(v, x)
        PROVE  RunAt(x, slot)' \/ IsListed(v, x)'
    BY <1>0, <2>1, <2>3, SameInSlot
  <2>4. \A x \in untouched : /\ IsDue(x, slot)' <=> IsDue(x, slot)
                             /\ RunAt(x, slot) => RunAt(x, slot)'
    BY <1>0, <2>1, SameInSlot
  <2>5. SweepOK'
    BY <2>1, <2>2, <2>3, <2>4 DEF SweepOK, TrgInv
  <2>6. \A x \in untouched : ticks[w].jobs = {} => ~IsListed(w, x)
    BY DEF IsListed
  <2>7. NoneForgotten'
    BY <2>1, <2>2, <2>4, <2>6 DEF SweepOK, NoneForgotten, TrgInv
  <2> QED
    BY <2>5, <2>7
<1>4. ASSUME NEW x \in Things, OpensOrCloses(x) \/ \E d \in CalDays : Moves(x, d) PROVE SweepOK' /\ NoneForgotten'
  <2>1. /\ \A y \in Things \ {x} : thing'[y] = thing[y]
        /\ untouched' = untouched \ {x}
        /\ UNCHANGED <<trigger, ruleOn, slot, ticks, runs, sure>>
    BY <1>4, ThingMoves DEF TrgInv
  <2>2. ASSUME NEW y \in untouched'
        PROVE  /\ IsDue(y, slot)' <=> IsDue(y, slot)
               /\ RunAt(y, slot) => RunAt(y, slot)'
               /\ \A w \in Tickers : IsListed(w, y) => IsListed(w, y)'
    <3>1. y \in Things /\ thing'[y] = thing[y]
      BY <1>0, <2>1
    <3> QED
      BY <2>1, <3>1, SameInSlot
  <2>3. SweepOK'
    BY <2>1, <2>2 DEF SweepOK, TrgInv
  <2>4. NoneForgotten'
    BY <2>1, <2>2 DEF NoneForgotten, TrgInv
  <2> QED
    BY <2>3, <2>4
<1>5. CASE SwitchesRule
  BY <1>5 DEF SwitchesRule, SweepOK, NoneForgotten
<1>6. CASE TimePasses
  <2>1. slot' = slot + 1 /\ sure' # "swept" /\ ruleOn' = ruleOn /\ (sure' # "no" => ruleOn) /\ ticks' = ticks
    BY <1>6 DEF TimePasses
  <2>2. slot \in Int /\ \A w \in Tickers : ticks[w].at \in Int /\ ticks[w].at <= slot
    BY TriggersAssumption DEF TrgTypeOK
  <2>3. \A w \in Tickers : ticks'[w].at # slot'
    BY <2>1, <2>2
  <2> QED
    BY <2>1, <2>3 DEF SweepOK, NoneForgotten
<1>7. CASE UNCHANGED trgVars
  <2>1. UNCHANGED <<trigger, ruleOn, thing, slot, ticks, runs, untouched, sure>>
    BY <1>7 DEF trgVars
  <2>2. \A x \in untouched : /\ IsDue(x, slot)' <=> IsDue(x, slot)
                             /\ RunAt(x, slot) => RunAt(x, slot)'
                             /\ \A w \in Tickers : IsListed(w, x) => IsListed(w, x)'
    BY <1>0, <2>1, SameInSlot
  <2> QED
    BY <2>1, <2>2 DEF SweepOK, NoneForgotten, TrgInv
<1> QED
  BY <1>1, <1>2, <1>3, <1>4, <1>5, <1>6, <1>7 DEF TrgNext

LEMMA TrgStarts == TrgInit => TrgTypeOK /\ TrgInv
<1> SUFFICES ASSUME TrgInit PROVE TrgTypeOK /\ TrgInv
  OBVIOUS
<1>1. /\ trigger \in TimeTriggers /\ ruleOn = TRUE /\ slot = 0 /\ ticks = [w \in Tickers |-> NoTick] /\ fired = {}
      /\ touches = 0 /\ tickTrouble = 0 /\ runs = {} /\ untouched = Things /\ sure = "no"
  BY DEF TrgInit
<1>2. thing \in [Things -> ThingRow] /\ StaysOK
  <2>1. PICK dates \in [Things -> CalDays] : thing = [x \in Things |-> [date |-> dates[x], live |-> TRUE, stay |-> 0]]
    BY DEF TrgInit
  <2>2. \A x \in Things : [date |-> dates[x], live |-> TRUE, stay |-> 0] \in ThingRow
    BY TriggersAssumption DEF ThingRow
  <2> QED
    BY <1>1, <2>1, <2>2 DEF StaysOK
<1>3. NoTick \in [pc : {"idle", "run"}, at : 0 .. 2 * LastDay + 1, jobs : SUBSET JobRow] /\ NoTick.at <= 0 /\ NoTick.jobs = {}
  BY TriggersAssumption DEF NoTick
<1>4. /\ ticks \in [Tickers -> [pc : {"idle", "run"}, at : 0 .. 2 * LastDay + 1, jobs : SUBSET JobRow]]
      /\ \A w \in Tickers : ticks[w].at <= slot /\ ticks[w].jobs = {}
  BY <1>1, <1>3
<1>5. TrgTypeOK
  BY <1>1, <1>2, <1>4, TriggersAssumption DEF TrgTypeOK
<1>6. JobsOK /\ RunsOK /\ OncePerOccasion /\ StillOpen /\ SweepOK /\ NoneForgotten
  BY <1>1, <1>4 DEF JobsOK, RunsOK, OncePerOccasion, StillOpen, SweepOK, NoneForgotten
<1> QED
  BY <1>2, <1>5, <1>6 DEF TrgInv

LEMMA TrgInvHolds == TrgSpec => [](TrgTypeOK /\ TrgInv)
<1>1. TrgTypeOK /\ TrgInv /\ [TrgNext]_trgVars => TrgTypeOK' /\ TrgInv'
  BY TrgTypeStep, JobsStep, RunsStep, SweepStep DEF TrgInv
<1> QED
  BY <1>1, TrgStarts, PTL DEF TrgSpec

\* A due thing is told of on every occasion, once, whatever ticks overlap, die or come late, and only while it is
\* open (tick, execute, _daily of src/automations/engine.py and the builders of context.py).
THEOREM RemindersObeyed == TrgSpec => []RemindersKept
  BY TrgInvHolds, PTL DEF TrgInv, RemindersKept

-----------------------------------------------------------------------------
(* CaseMonitor. *)

\* What a check has created is stored, its own, and not told of yet; a first check tells nobody.
CheckOK(c) ==
    /\ check[c].pc \in {"idle", "ask"} => check[c].created = {}
    /\ check[c].pc \in {"tell", "mark", "emit"} => ~check[c].first
    /\ check[c].pc \notin {"idle", "ask"} => history # {}
    /\ check[c].first => check[c].created \subseteq quiet
    /\ case # "removed" => check[c].created \subseteq stored
    /\ \A m \in check[c].created : ruled[m] = 0 /\ (check[c].pc \in {"store", "tell"} => told[m] = 0)
ChecksOK == \A c \in Checkers : CheckOK(c)
ChecksApart == \A c, d \in Checkers : c # d => check[c].created \cap check[d].created = {}

ToldOK ==
    /\ case = "removed" => stored = {}
    /\ \A m \in Movements :
        /\ told[m] \in {0, 1} /\ ruled[m] \in {0, 1}
        /\ history = {} \/ (case # "removed" /\ m \notin stored) => told[m] = 0 /\ ruled[m] = 0

\* Unless a failed check was saved as the first: until a check is saved all are first ones, and from then on
\* what was history is stored, so that no other check creates it.
HistoryOK ==
    /\ UNION history \subseteq source
    /\ ~failed =>
        /\ case = "new" => \A c \in Checkers : check[c].pc = "idle" \/ check[c].first
        /\ case = "checked" => history # {} /\ UNION history \subseteq stored
        /\ \A c \in Checkers :
            /\ check[c].pc = "store" /\ case # "removed" => UNION history \subseteq check[c].todo \cup stored
            /\ ~check[c].first => check[c].created \cap UNION history = {}
        /\ \A m \in UNION history : told[m] = 0 /\ ruled[m] = 0

\* Some check still has to tell of a movement, or the rest of it.
StillTells(c, m) ==
    /\ m \in check[c].created /\ ~check[c].first
    /\ \/ check[c].pc \in {"store", "tell"}
       \/ check[c].pc = "mark" /\ told[m] = 1
       \/ check[c].pc = "emit" /\ told[m] = 1 /\ m \in notified
HeardOK ==
    \A m \in stored :
        \/ m \in quiet \/ m \in unheard
        \/ told[m] = 1 /\ ruled[m] = 1 /\ m \in notified
        \/ \E c \in Checkers : StillTells(c, m)

MonInv == ChecksOK /\ ChecksApart /\ ToldOK /\ HistoryOK /\ HeardOK

CheckRow == [pc : CheckPcs, first : BOOLEAN, todo : SUBSET Movements, created : SUBSET Movements]

\* How one check goes on, and the others do not.
LEMMA CheckMoves ==
    ASSUME MonTypeOK, NEW c \in Checkers
    PROVE  /\ check[c] \in CheckRow
           /\ \A row \in CheckRow : check' = [check EXCEPT ![c] = row] =>
                check' \in [Checkers -> CheckRow] /\ check'[c] = row /\ \A d \in Checkers \ {c} : check'[d] = check[d]
           /\ \A pc \in CheckPcs : check' = [check EXCEPT ![c].pc = pc] =>
                /\ check' \in [Checkers -> CheckRow] /\ \A d \in Checkers \ {c} : check'[d] = check[d]
                /\ check'[c].pc = pc /\ check'[c].first = check[c].first
                /\ check'[c].todo = check[c].todo /\ check'[c].created = check[c].created
           /\ NotChecking \in CheckRow
<1>1. check \in [Checkers -> CheckRow] /\ check[c] \in CheckRow
  BY DEF MonTypeOK, CheckRow
<1>2. NotChecking \in CheckRow
  BY DEF NotChecking, CheckRow, CheckPcs
<1>3. ASSUME NEW row \in CheckRow, check' = [check EXCEPT ![c] = row]
      PROVE  check' \in [Checkers -> CheckRow] /\ check'[c] = row /\ \A d \in Checkers \ {c} : check'[d] = check[d]
  BY <1>1, <1>3
<1>4. ASSUME NEW pc \in CheckPcs, check' = [check EXCEPT ![c].pc = pc]
      PROVE  /\ check' \in [Checkers -> CheckRow] /\ \A d \in Checkers \ {c} : check'[d] = check[d]
             /\ check'[c].pc = pc /\ check'[c].first = check[c].first
             /\ check'[c].todo = check[c].todo /\ check'[c].created = check[c].created
  <2>1. check' = [check EXCEPT ![c] = [check[c] EXCEPT !.pc = pc]]
    BY <1>4
  <2>2. PICK row : row = [check[c] EXCEPT !.pc = pc]
    OBVIOUS
  <2>3. row \in CheckRow /\ row.pc = pc /\ row.first = check[c].first /\ row.todo = check[c].todo /\ row.created = check[c].created
    BY <1>1, <2>2 DEF CheckRow
  <2> QED
    BY <1>3, <2>1, <2>2, <2>3
<1> QED
  BY <1>1, <1>2, <1>3, <1>4

LEMMA AsksMoves ==
    ASSUME MonTypeOK, NEW c \in Checkers
    PROVE  /\ LoadCase(c) =>
                /\ check' \in [Checkers -> CheckRow] /\ \A d \in Checkers \ {c} : check'[d] = check[d]
                /\ check'[c].pc = "ask" /\ (check'[c].first <=> case = "new") /\ check'[c].todo = {} /\ check'[c].created = {}
           /\ CourtAnswers(c) =>
                /\ check' \in [Checkers -> CheckRow] /\ \A d \in Checkers \ {c} : check'[d] = check[d]
                /\ check'[c].pc = "store" /\ check'[c].first = check[c].first /\ check'[c].todo = source
                /\ check'[c].created = check[c].created
           /\ \A m \in Movements : StoreMovement(c, m) =>
                /\ check' \in [Checkers -> CheckRow] /\ \A d \in Checkers \ {c} : check'[d] = check[d]
                /\ check'[c].pc = "store" /\ check'[c].first = check[c].first /\ check'[c].todo = check[c].todo \ {m}
                /\ check'[c].created = CreatedNow(c, m)
<1>0. check[c] \in CheckRow /\ check \in [Checkers -> CheckRow]
  BY DEF MonTypeOK, CheckRow
<1>1. ASSUME LoadCase(c) PROVE /\ check' \in [Checkers -> CheckRow] /\ \A d \in Checkers \ {c} : check'[d] = check[d]
                               /\ check'[c].pc = "ask" /\ (check'[c].first <=> case = "new") /\ check'[c].todo = {} /\ check'[c].created = {}
  <2>1. PICK row : row = [NotChecking EXCEPT !.pc = "ask", !.first = case = "new"]
    OBVIOUS
  <2>2. (case = "new") \in BOOLEAN
    OBVIOUS
  <2>3. row \in CheckRow /\ row.pc = "ask" /\ (row.first <=> case = "new") /\ row.todo = {} /\ row.created = {}
    BY <2>1, <2>2 DEF NotChecking, CheckRow, CheckPcs
  <2>4. check' = [check EXCEPT ![c] = row]
    BY <1>1, <2>1 DEF LoadCase
  <2> QED
    BY <2>3, <2>4, CheckMoves
<1>2. ASSUME CourtAnswers(c) PROVE /\ check' \in [Checkers -> CheckRow] /\ \A d \in Checkers \ {c} : check'[d] = check[d]
                                   /\ check'[c].pc = "store" /\ check'[c].first = check[c].first /\ check'[c].todo = source
                                   /\ check'[c].created = check[c].created
  <2>1. PICK row : row = [check[c] EXCEPT !.pc = "store", !.todo = source]
    OBVIOUS
  <2>2. row \in CheckRow /\ row.pc = "store" /\ row.first = check[c].first /\ row.todo = source /\ row.created = check[c].created
    BY <1>0, <2>1 DEF CheckRow, CheckPcs, MonTypeOK
  <2>3. check' = [check EXCEPT ![c] = row]
    BY <1>0, <1>2, <2>1 DEF CourtAnswers
  <2> QED
    BY <2>2, <2>3, CheckMoves
<1>3. ASSUME NEW m \in Movements, StoreMovement(c, m)
      PROVE  /\ check' \in [Checkers -> CheckRow] /\ \A d \in Checkers \ {c} : check'[d] = check[d]
             /\ check'[c].pc = "store" /\ check'[c].first = check[c].first /\ check'[c].todo = check[c].todo \ {m}
             /\ check'[c].created = CreatedNow(c, m)
  <2>0. PICK found : found = CreatedNow(c, m)
    OBVIOUS
  <2>1. PICK row : row = [check[c] EXCEPT !.todo = check[c].todo \ {m}, !.created = found]
    OBVIOUS
  <2>2. found \in SUBSET Movements
    BY <1>0, <2>0 DEF CheckRow, CreatedNow
  <2>3. row \in CheckRow /\ row.pc = check[c].pc /\ row.first = check[c].first /\ row.todo = check[c].todo \ {m} /\ row.created = found
    BY <1>0, <2>1, <2>2 DEF CheckRow
  <2>4. check' = [check EXCEPT ![c] = row] /\ check[c].pc = "store"
    BY <1>0, <1>3, <2>0, <2>1 DEF StoreMovement, Doing
  <2> QED
    BY <2>0, <2>3, <2>4, CheckMoves
<1> QED
  BY <1>1, <1>2, <1>3

LEMMA MonTypeStep == MonTypeOK /\ MonInv /\ [MonNext]_monVars => MonTypeOK'
<1> SUFFICES ASSUME MonTypeOK, MonInv, [MonNext]_monVars PROVE MonTypeOK'
  OBVIOUS
<1>0. /\ check \in [Checkers -> CheckRow] /\ troubles \in Nat /\ MaxMonitorTrouble \in Nat
      /\ \A c \in Checkers : check[c].created \subseteq Movements /\ check[c].todo \subseteq Movements
      /\ MonTypeOK' <=>
            /\ source' \subseteq Movements /\ case' \in {"new", "checked", "removed"}
            /\ stored' \subseteq Movements /\ notified' \subseteq stored' /\ check' \in [Checkers -> CheckRow]
            /\ told' \in [Movements -> Nat] /\ ruled' \in [Movements -> Nat] /\ troubles' \in 0 .. MaxMonitorTrouble
            /\ history' \subseteq SUBSET Movements /\ quiet' \subseteq Movements /\ failed' \in BOOLEAN /\ unheard' \subseteq Movements
  BY MonitorAssumption DEF MonTypeOK, CheckRow
<1>1. ASSUME NEW c \in Checkers, LoadCase(c) \/ CourtAnswers(c) PROVE MonTypeOK'
  <2>1. check' \in [Checkers -> CheckRow]
    BY <1>1, AsksMoves
  <2> QED
    BY <1>0, <1>1, <2>1 DEF LoadCase, CourtAnswers, MonTypeOK
<1>2. ASSUME NEW c \in Checkers, NEW m \in Movements, StoreMovement(c, m) PROVE MonTypeOK'
  <2>1. check' \in [Checkers -> CheckRow]
    BY <1>2, AsksMoves
  <2> QED
    BY <1>0, <1>2, <2>1 DEF StoreMovement, MonTypeOK
<1>3. ASSUME NEW c \in Checkers, CourtFails(c) \/ CaseIsGone(c) \/ CheckerDies(c) \/ SaveCheck(c) PROVE MonTypeOK'
  <2>1. check' \in [Checkers -> CheckRow]
    BY <1>3, CheckMoves DEF CourtFails, CaseIsGone, CheckerDies, SaveCheck, Stop, GoTo, CheckPcs
  <2>2. troubles' \in 0 .. MaxMonitorTrouble /\ unheard' \subseteq Movements
    BY <1>0, <1>3 DEF CourtFails, CaseIsGone, CheckerDies, SaveCheck, MonTrouble, MonTypeOK
  <2> QED
    BY <1>0, <1>3, <2>1, <2>2 DEF CourtFails, CaseIsGone, CheckerDies, SaveCheck, MonTypeOK
<1>4. ASSUME NEW c \in Checkers, TellPerson(c) \/ MarkNotified(c) \/ TellRulesOfCase(c) PROVE MonTypeOK'
  <2>1. check' \in [Checkers -> CheckRow]
    BY <1>4, CheckMoves DEF TellPerson, MarkNotified, TellRulesOfCase, Stop, GoTo, CheckPcs
  <2>2. troubles' \in 0 .. MaxMonitorTrouble /\ unheard' \subseteq Movements
    BY <1>0, <1>4 DEF TellPerson, MarkNotified, TellRulesOfCase, MonTrouble, MonTypeOK
  <2>3. told' \in [Movements -> Nat] /\ ruled' \in [Movements -> Nat]
    BY <1>0, <1>4 DEF TellPerson, MarkNotified, TellRulesOfCase, Once, MonTypeOK
  <2> QED
    BY <1>0, <1>4, <2>1, <2>2, <2>3 DEF TellPerson, MarkNotified, TellRulesOfCase, MonTypeOK
<1>5. ASSUME NEW m \in Movements, CourtPublishes(m) PROVE MonTypeOK'
  BY <1>5 DEF CourtPublishes, MonTypeOK
<1>6. CASE RemoveCase
  BY <1>6 DEF RemoveCase, MonTypeOK
<1>7. CASE UNCHANGED monVars
  BY <1>7 DEF monVars, MonTypeOK
<1> QED
  BY <1>1, <1>2, <1>3, <1>4, <1>5, <1>6, <1>7 DEF MonNext

-----------------------------------------------------------------------------
\* A check that stops, with nothing of its own left to tell.
LEMMA CheckStops ==
    ASSUME MonTypeOK, MonInv, NEW c \in Checkers, check' = [check EXCEPT ![c] = NotChecking],
           case' = case \/ (case' = "checked" /\ case # "removed" /\ (failed' \/ (history # {} /\ UNION history \subseteq stored))),
           failed' = (failed \/ (case = "new" /\ case' = "checked" /\ failed')), failed' \in BOOLEAN,
           UNCHANGED <<source, stored, notified, told, ruled, history, quiet>>,
           unheard \subseteq unheard', \A m \in check[c].created \cap stored : m \in quiet \/ m \in unheard'
    PROVE  MonInv'
<1>1. /\ check'[c].pc = "idle" /\ check'[c].created = {} /\ ~check'[c].first /\ \A d \in Checkers \ {c} : check'[d] = check[d]
  BY CheckMoves DEF NotChecking
<1>2. \A d \in Checkers : CheckOK(d)'
  <2>1. CheckOK(c)'
    BY <1>1 DEF CheckOK
  <2>2. ASSUME NEW d \in Checkers \ {c} PROVE CheckOK(d)'
    <3>1. CheckOK(d) /\ check'[d] = check[d]
      BY <1>1 DEF MonInv, ChecksOK
    <3>2. case' # "removed" => case # "removed"
      OBVIOUS
    <3> QED
      BY <3>1, <3>2 DEF CheckOK
  <2> QED
    BY <2>1, <2>2
<1>3. ChecksApart'
  BY <1>1 DEF MonInv, ChecksApart
<1>4. ToldOK'
  BY DEF MonInv, ToldOK
<1>5. HistoryOK'
  <2>1. ~failed' => ~failed
    OBVIOUS
  <2>2. ~failed' /\ case' # case => history # {} /\ UNION history \subseteq stored
    OBVIOUS
  <2> QED
    BY <1>1, <2>1, <2>2 DEF MonInv, HistoryOK
<1>6. HeardOK'
  <2> SUFFICES ASSUME NEW m \in stored
               PROVE  \/ m \in quiet \/ m \in unheard'
                      \/ told[m] = 1 /\ ruled[m] = 1 /\ m \in notified
                      \/ \E d \in Checkers : StillTells(d, m)'
    BY DEF HeardOK
  <2>1. CASE \E d \in Checkers : StillTells(d, m)
    <3>1. PICK d \in Checkers : StillTells(d, m)
      BY <2>1
    <3>2. CASE d = c
      BY <3>1, <3>2 DEF StillTells
    <3>3. CASE d # c
      BY <1>1, <3>1, <3>3 DEF StillTells
    <3> QED
      BY <3>2, <3>3
  <2> QED
    BY <2>1 DEF MonInv, HeardOK
<1> QED
  BY <1>2, <1>3, <1>4, <1>5, <1>6 DEF MonInv, ChecksOK

LEMMA StopsStep ==
    ASSUME MonTypeOK, MonInv, NEW c \in Checkers,
           \/ CourtFails(c) \/ CaseIsGone(c) \/ CheckerDies(c)
           \/ SaveCheck(c) /\ (check[c].created = {} \/ check[c].first)
    PROVE  MonInv'
<1>0. CheckOK(c) /\ failed \in BOOLEAN /\ ToldOK
  BY DEF MonInv, ChecksOK, MonTypeOK
<1>1. CASE CourtFails(c)
  <2>1. check[c].created = {} /\ check' = [check EXCEPT ![c] = NotChecking]
    BY <1>0, <1>1 DEF CourtFails, Doing, Stop, CheckOK
  <2>2. case' = case \/ (case' = "checked" /\ case # "removed" /\ failed')
    BY <1>1 DEF CourtFails, MonTypeOK
  <2>3. failed' = (failed \/ (case = "new" /\ case' = "checked" /\ failed')) /\ failed' \in BOOLEAN
    BY <1>0, <1>1 DEF CourtFails
  <2> QED
    BY <1>1, <2>1, <2>2, <2>3, CheckStops DEF CourtFails
<1>2. CASE CaseIsGone(c)
  <2>1. stored = {}
    BY <1>0, <1>2 DEF CaseIsGone, ToldOK
  <2>2. failed' = (failed \/ (case = "new" /\ case' = "checked" /\ failed')) /\ failed' \in BOOLEAN
    BY <1>0, <1>2 DEF CaseIsGone
  <2> QED
    BY <1>2, <2>1, <2>2, CheckStops DEF CaseIsGone, Stop
<1>3. CASE CheckerDies(c)
  <2>1. unheard \subseteq unheard' /\ \A m \in check[c].created : m \in quiet \/ m \in unheard'
    BY <1>0, <1>3 DEF CheckerDies, CheckOK
  <2>2. failed' = (failed \/ (case = "new" /\ case' = "checked" /\ failed')) /\ failed' \in BOOLEAN
    BY <1>0, <1>3 DEF CheckerDies
  <2> QED
    BY <1>3, <2>1, <2>2, CheckStops DEF CheckerDies, Stop
<1>4. CASE SaveCheck(c) /\ (check[c].created = {} \/ check[c].first)
  <2>1. check' = [check EXCEPT ![c] = NotChecking] /\ \A m \in check[c].created : m \in quiet
    BY <1>0, <1>4 DEF SaveCheck, Stop, CheckOK
  <2>2. failed \/ (history # {} /\ UNION history \subseteq stored)
    BY <1>0, <1>4 DEF SaveCheck, Doing, CheckOK, MonInv, HistoryOK
  <2>3. failed' = (failed \/ (case = "new" /\ case' = "checked" /\ failed')) /\ failed' \in BOOLEAN
    BY <1>0, <1>4 DEF SaveCheck
  <2>4. case' = "checked" /\ case # "removed" /\ unheard' = unheard /\ failed' = failed
    BY <1>4 DEF SaveCheck
  <2> QED
    BY <1>4, <2>1, <2>2, <2>3, <2>4, CheckStops DEF SaveCheck
<1> QED
  BY <1>1, <1>2, <1>3, <1>4

LEMMA AsksStep ==
    ASSUME MonTypeOK, MonInv, NEW c \in Checkers, LoadCase(c) \/ CourtAnswers(c)
    PROVE  MonInv'
<1>0. CheckOK(c) /\ check[c].created = {}
  BY DEF LoadCase, CourtAnswers, Doing, MonInv, ChecksOK, CheckOK
<1>1. /\ check'[c].created = {} /\ \A d \in Checkers \ {c} : check'[d] = check[d]
      /\ UNCHANGED <<source, case, stored, notified, told, ruled, quiet, failed, unheard>>
      /\ history' \in {history, {source}} /\ (history # {} => history' = history)
  BY <1>0, AsksMoves DEF LoadCase, CourtAnswers
<1>2. CASE LoadCase(c)
  <2>1. check'[c].pc = "ask" /\ (check'[c].first <=> case = "new") /\ history' = history /\ case # "removed"
    BY <1>2, AsksMoves DEF LoadCase
  <2>2. CheckOK(c)' /\ \A d \in Checkers \ {c} : CheckOK(d)'
    BY <1>1, <2>1 DEF MonInv, ChecksOK, CheckOK
  <2>3. ChecksApart' /\ ToldOK'
    BY <1>1, <2>1 DEF MonInv, ChecksApart, ToldOK
  <2>4. HistoryOK'
    BY <1>1, <2>1 DEF MonInv, HistoryOK
  <2>5. HeardOK'
    <3>1. ASSUME NEW m, NEW d \in Checkers, StillTells(d, m) PROVE StillTells(d, m)'
      BY <1>0, <1>1, <3>1 DEF StillTells
    <3> QED
      BY <1>1, <3>1 DEF MonInv, HeardOK
  <2> QED
    BY <2>2, <2>3, <2>4, <2>5 DEF MonInv, ChecksOK
<1>3. CASE CourtAnswers(c)
  <2>1. /\ check[c].pc = "ask" /\ check'[c].pc = "store" /\ check'[c].first = check[c].first /\ check'[c].todo = source
        /\ history' = IF history = {} THEN {source} ELSE history
    BY <1>3, AsksMoves DEF CourtAnswers, Doing
  <2>2. history' # {} /\ UNION history' \subseteq source
    BY <2>1 DEF MonInv, HistoryOK
  <2>3. CheckOK(c)' /\ \A d \in Checkers \ {c} : CheckOK(d)'
    BY <1>1, <2>1, <2>2 DEF MonInv, ChecksOK, CheckOK
  <2>4. ChecksApart' /\ ToldOK'
    BY <1>1, <2>1, <2>2 DEF MonInv, ChecksApart, ToldOK
  <2>5. HistoryOK'
    <3>1. CASE history = {}
      <4>1. ASSUME NEW d \in Checkers \ {c} PROVE check[d].created = {} /\ check[d].pc # "store"
        BY <3>1 DEF MonInv, ChecksOK, CheckOK
      <4>2. \A m \in Movements : told[m] = 0 /\ ruled[m] = 0
        BY <3>1 DEF MonInv, ToldOK
      <4>3. UNION history' = source /\ source \subseteq Movements
        BY <2>1, <3>1 DEF MonTypeOK
      <4>4. failed \/ case # "checked"
        BY <3>1 DEF MonInv, HistoryOK
      <4> QED
        BY <1>1, <2>1, <4>1, <4>2, <4>3, <4>4 DEF MonInv, HistoryOK
    <3>2. CASE history # {}
      BY <1>1, <2>1, <2>2, <3>2 DEF MonInv, HistoryOK
    <3> QED
      BY <3>1, <3>2
  <2>6. HeardOK'
    <3>1. ASSUME NEW m, NEW d \in Checkers, StillTells(d, m) PROVE StillTells(d, m)'
      BY <1>0, <1>1, <3>1 DEF StillTells
    <3> QED
      BY <1>1, <3>1 DEF MonInv, HeardOK
  <2> QED
    BY <2>3, <2>4, <2>5, <2>6 DEF MonInv, ChecksOK
<1> QED
  BY <1>2, <1>3

LEMMA StoresStep ==
    ASSUME MonTypeOK, MonInv, NEW c \in Checkers, NEW m \in Movements, StoreMovement(c, m)
    PROVE  MonInv'
<1>0. /\ CheckOK(c) /\ check[c].pc = "store" /\ m \in check[c].todo /\ case # "removed"
      /\ check[c].first \in BOOLEAN /\ check[c].created \subseteq stored
  BY CheckMoves DEF StoreMovement, Doing, MonInv, ChecksOK, CheckOK, CheckRow
<1>1. /\ \A d \in Checkers \ {c} : check'[d] = check[d]
      /\ check'[c].pc = "store" /\ check'[c].first = check[c].first /\ check'[c].todo = check[c].todo \ {m}
      /\ check'[c].created = IF m \notin stored THEN check[c].created \cup {m} ELSE check[c].created
  BY AsksMoves DEF CreatedNow, IsNews
<1>2. /\ stored' = stored \cup {m} /\ UNCHANGED <<source, case, told, ruled, history, failed, unheard>>
      /\ notified \subseteq notified' /\ quiet \subseteq quiet'
      /\ m \notin stored /\ check[c].first => m \in quiet'
      /\ \A n \in quiet' : n \in quiet \/ n = m
  BY DEF StoreMovement, IsNews
<1>3. ASSUME NEW d \in Checkers \ {c} PROVE CheckOK(d)'
  BY <1>0, <1>1, <1>2 DEF MonInv, ChecksOK, CheckOK
<1>4. CheckOK(c)'
  <2>1. m \notin stored => told[m] = 0 /\ ruled[m] = 0
    BY <1>0 DEF MonInv, ToldOK
  <2> QED
    BY <1>0, <1>1, <1>2, <2>1 DEF CheckOK
<1>5. ChecksApart'
  <2>1. \A d \in Checkers \ {c} : check[d].created \subseteq stored
    BY <1>0 DEF MonInv, ChecksOK, CheckOK
  <2> QED
    BY <1>1, <2>1 DEF MonInv, ChecksApart
<1>6. ToldOK'
  BY <1>0, <1>2 DEF MonInv, ToldOK
<1>7. HistoryOK'
  <2>1. ~failed /\ m \notin stored /\ ~check[c].first => m \notin UNION history
    <3>1. ~failed /\ ~check[c].first => case # "new"
      BY <1>0 DEF MonInv, HistoryOK
    <3>2. case \in {"new", "checked", "removed"}
      BY DEF MonTypeOK
    <3> QED
      BY <1>0, <3>1, <3>2 DEF MonInv, HistoryOK
  <2>2. ~failed => \A d \in Checkers : ~check'[d].first => check'[d].created \cap UNION history = {}
    BY <1>1, <2>1 DEF MonInv, HistoryOK
  <2>3. ~failed => \A d \in Checkers : check'[d].pc = "store" => UNION history \subseteq check'[d].todo \cup stored'
    BY <1>0, <1>1, <1>2 DEF MonInv, HistoryOK
  <2>4. \A d \in Checkers : check'[d].pc = check[d].pc /\ check'[d].first = check[d].first
    BY <1>0, <1>1
  <2> QED
    BY <1>2, <2>2, <2>3, <2>4 DEF MonInv, HistoryOK
<1>8. HeardOK'
  <2>1. ASSUME NEW n, NEW d \in Checkers, StillTells(d, n) PROVE StillTells(d, n)'
    BY <1>0, <1>1, <1>2, <2>1 DEF StillTells
  <2>2. m \notin stored /\ ~check[c].first => StillTells(c, m)'
    BY <1>0, <1>1 DEF StillTells
  <2> QED
    BY <1>0, <1>2, <2>1, <2>2 DEF MonInv, HeardOK
<1> QED
  BY <1>3, <1>4, <1>5, <1>6, <1>7, <1>8 DEF MonInv, ChecksOK

LEMMA TellsStep ==
    ASSUME MonTypeOK, MonInv, NEW c \in Checkers,
           \/ SaveCheck(c) /\ ~(check[c].created = {} \/ check[c].first)
           \/ TellPerson(c) \/ MarkNotified(c)
    PROVE  MonInv'
<1>0. /\ CheckOK(c) /\ check[c].pc \in {"store", "tell", "mark"} /\ ~check[c].first
      /\ check[c].created \subseteq Movements
  <2>1. CheckOK(c) /\ check[c] \in CheckRow
    BY CheckMoves DEF MonInv, ChecksOK
  <2> QED
    BY <2>1 DEF SaveCheck, TellPerson, MarkNotified, Doing, CheckOK, CheckRow
<1>1. /\ \A d \in Checkers \ {c} : check'[d] = check[d]
      /\ check'[c].first = check[c].first /\ check'[c].created = check[c].created
      /\ SaveCheck(c) => check'[c].pc = "tell"
      /\ TellPerson(c) => check'[c].pc = "mark"
      /\ MarkNotified(c) => check'[c].pc = "emit"
  <2>1. ~(SaveCheck(c) /\ TellPerson(c)) /\ ~(SaveCheck(c) /\ MarkNotified(c)) /\ ~(TellPerson(c) /\ MarkNotified(c))
    BY DEF SaveCheck, TellPerson, MarkNotified, Doing
  <2>2. PICK next \in CheckPcs : /\ check' = [check EXCEPT ![c].pc = next]
                                 /\ SaveCheck(c) => next = "tell"
                                 /\ TellPerson(c) => next = "mark"
                                 /\ MarkNotified(c) => next = "emit"
    BY <2>1 DEF SaveCheck, TellPerson, MarkNotified, GoTo, CheckPcs
  <2> QED
    BY <2>2, CheckMoves
<1>2. ChecksApart'
  BY <1>1 DEF MonInv, ChecksApart
<1>3. CASE SaveCheck(c) /\ ~(check[c].created = {} \/ check[c].first)
  <2>1. /\ check[c].pc = "store" /\ check[c].todo = {} /\ case # "removed" /\ case' = "checked" /\ check'[c].pc = "tell"
        /\ UNCHANGED <<source, stored, notified, told, ruled, history, quiet, failed, unheard>>
    BY <1>1, <1>3 DEF SaveCheck, Doing
  <2>2. \A d \in Checkers : CheckOK(d)'
    BY <1>0, <1>1, <2>1 DEF MonInv, ChecksOK, CheckOK
  <2>3. ToldOK'
    BY <2>1 DEF MonInv, ToldOK
  <2>4. HistoryOK'
    <3>1. ~failed => history # {} /\ UNION history \subseteq stored
      BY <1>0, <2>1 DEF MonInv, HistoryOK, CheckOK
    <3> QED
      BY <1>1, <2>1, <3>1 DEF MonInv, HistoryOK
  <2>5. HeardOK'
    <3>1. ASSUME NEW n, NEW d \in Checkers, StillTells(d, n) PROVE StillTells(d, n)'
      BY <1>1, <2>1, <3>1 DEF StillTells
    <3> QED
      BY <2>1, <3>1 DEF MonInv, HeardOK
  <2> QED
    BY <1>2, <2>2, <2>3, <2>4, <2>5 DEF MonInv, ChecksOK
<1>4. CASE TellPerson(c)
  <2>1. /\ check[c].pc = "tell" /\ check'[c].pc = "mark"
        /\ UNCHANGED <<source, case, stored, notified, ruled, history, quiet, failed>>
        /\ unheard \subseteq unheard'
        /\ \/ told' = Once(told, check[c].created)
           \/ told' = told /\ check[c].created \subseteq unheard'
    BY <1>1, <1>4 DEF TellPerson, Doing
  <2>2. /\ \A m \in Movements \ check[c].created : told'[m] = told[m]
        /\ \A m \in check[c].created : told[m] = 0 /\ (told'[m] = 1 \/ (told'[m] = told[m] /\ m \in unheard'))
    BY <1>0, <2>1 DEF Once, CheckOK
  <2>3. ASSUME NEW d \in Checkers PROVE CheckOK(d)'
    <3>1. CASE d = c
      BY <1>0, <1>1, <2>1, <3>1 DEF CheckOK
    <3>2. CASE d # c
      <4>1. check[d].created \cap check[c].created = {} /\ CheckOK(d) /\ check[d].created \subseteq Movements
        BY <3>2, CheckMoves DEF MonInv, ChecksOK, ChecksApart, CheckRow
      <4> QED
        BY <1>1, <2>1, <2>2, <3>2, <4>1 DEF CheckOK
    <3> QED
      BY <3>1, <3>2
  <2>4. ToldOK'
    <3>1. \A m \in check[c].created : history # {} /\ (case = "removed" \/ m \in stored)
      BY <1>0, <2>1 DEF CheckOK
    <3>2. \A m \in Movements : told'[m] \in {0, 1}
      BY <2>2 DEF MonInv, ToldOK
    <3> QED
      BY <2>1, <2>2, <3>1, <3>2 DEF MonInv, ToldOK
  <2>5. HistoryOK'
    <3>1. ~failed => check[c].created \cap UNION history = {}
      BY <1>0 DEF MonInv, HistoryOK
    <3>2. UNION history \subseteq Movements
      BY DEF MonInv, HistoryOK, MonTypeOK
    <3>3. ~failed => \A m \in UNION history : told'[m] = told[m]
      BY <2>2, <3>1, <3>2
    <3> QED
      BY <1>1, <2>1, <3>3 DEF MonInv, HistoryOK
  <2>6. HeardOK'
    <3>1. ASSUME NEW n \in stored, NEW d \in Checkers, StillTells(d, n), d # c PROVE StillTells(d, n)'
      <4>1. n \in Movements /\ n \notin check[c].created
        BY <3>1 DEF MonInv, ChecksApart, StillTells, MonTypeOK
      <4> QED
        BY <1>1, <2>1, <2>2, <3>1, <4>1 DEF StillTells
    <3>2. ASSUME NEW n \in check[c].created PROVE n \in unheard' \/ StillTells(c, n)'
      BY <1>0, <1>1, <2>1, <2>2, <3>2 DEF StillTells
    <3>3. ASSUME NEW n \in stored, told[n] = 1, ruled[n] = 1, n \in notified PROVE told'[n] = 1
      <4>1. n \notin check[c].created
        BY <1>0, <2>1, <3>3 DEF CheckOK
      <4> QED
        BY <2>2, <3>3, <4>1 DEF MonTypeOK
    <3>4. ASSUME NEW n \in stored PROVE \/ n \in quiet' \/ n \in unheard'
                                        \/ told'[n] = 1 /\ ruled'[n] = 1 /\ n \in notified'
                                        \/ \E d \in Checkers : StillTells(d, n)'
      <4>1. CASE \E d \in Checkers : StillTells(d, n)
        <5>1. PICK d \in Checkers : StillTells(d, n)
          BY <4>1
        <5>2. CASE d = c
          BY <3>2, <5>1, <5>2 DEF StillTells
        <5> QED
          BY <3>1, <5>1, <5>2
      <4> QED
        BY <2>1, <3>3, <4>1 DEF MonInv, HeardOK
    <3> QED
      BY <2>1, <3>4 DEF HeardOK
  <2> QED
    BY <1>2, <2>3, <2>4, <2>5, <2>6 DEF MonInv, ChecksOK
<1>5. CASE MarkNotified(c)
  <2>1. /\ check[c].pc = "mark" /\ check'[c].pc = "emit"
        /\ UNCHANGED <<source, case, stored, told, ruled, history, quiet, failed, unheard>>
        /\ notified' = notified \cup (check[c].created \cap stored)
    BY <1>1, <1>5 DEF MarkNotified, Doing
  <2>2. \A d \in Checkers : CheckOK(d)'
    BY <1>0, <1>1, <2>1 DEF MonInv, ChecksOK, CheckOK
  <2>3. ToldOK' /\ HistoryOK'
    BY <1>1, <2>1 DEF MonInv, ToldOK, HistoryOK
  <2>4. HeardOK'
    <3>1. ASSUME NEW n \in stored, NEW d \in Checkers, StillTells(d, n) PROVE StillTells(d, n)'
      BY <1>1, <2>1, <3>1 DEF StillTells
    <3> QED
      BY <2>1, <3>1 DEF MonInv, HeardOK
  <2> QED
    BY <1>2, <2>2, <2>3, <2>4 DEF MonInv, ChecksOK
<1> QED
  BY <1>3, <1>4, <1>5

LEMMA RulesToldStep ==
    ASSUME MonTypeOK, MonInv, NEW c \in Checkers, TellRulesOfCase(c)
    PROVE  MonInv'
<1>0. CheckOK(c) /\ check[c].pc = "emit" /\ ~check[c].first /\ check[c].created \subseteq Movements
  BY CheckMoves DEF TellRulesOfCase, Doing, MonInv, ChecksOK, CheckOK, CheckRow
<1>1. /\ check'[c].pc = "idle" /\ check'[c].created = {} /\ ~check'[c].first /\ \A d \in Checkers \ {c} : check'[d] = check[d]
  BY CheckMoves DEF NotChecking, TellRulesOfCase, Stop
<1>2. /\ UNCHANGED <<source, case, stored, notified, told, history, quiet, failed>>
      /\ unheard \subseteq unheard'
      /\ \/ ruled' = Once(ruled, check[c].created)
         \/ ruled' = ruled /\ check[c].created \subseteq unheard'
  BY DEF TellRulesOfCase
<1>3. /\ \A m \in Movements \ check[c].created : ruled'[m] = ruled[m]
      /\ \A m \in check[c].created : ruled[m] = 0 /\ (ruled'[m] = 1 \/ (ruled'[m] = ruled[m] /\ m \in unheard'))
  BY <1>0, <1>2 DEF Once, CheckOK
<1>4. ASSUME NEW d \in Checkers PROVE CheckOK(d)'
  <2>1. CASE d = c
    BY <1>1, <2>1 DEF CheckOK
  <2>2. CASE d # c
    <3>1. check[d].created \cap check[c].created = {} /\ CheckOK(d) /\ check[d].created \subseteq Movements
      BY <2>2, CheckMoves DEF MonInv, ChecksOK, ChecksApart, CheckRow
    <3> QED
      BY <1>1, <1>2, <1>3, <2>2, <3>1 DEF CheckOK
  <2> QED
    BY <2>1, <2>2
<1>5. ChecksApart'
  BY <1>1 DEF MonInv, ChecksApart
<1>6. ToldOK'
  <2>1. \A m \in check[c].created : history # {} /\ (case = "removed" \/ m \in stored)
    BY <1>0 DEF CheckOK
  <2>2. \A m \in Movements : ruled'[m] \in {0, 1}
    BY <1>3 DEF MonInv, ToldOK
  <2> QED
    BY <1>2, <1>3, <2>1, <2>2 DEF MonInv, ToldOK
<1>7. HistoryOK'
  <2>1. ~failed => check[c].created \cap UNION history = {}
    BY <1>0 DEF MonInv, HistoryOK
  <2>2. UNION history \subseteq Movements
    BY DEF MonInv, HistoryOK, MonTypeOK
  <2>3. ~failed => \A m \in UNION history : ruled'[m] = ruled[m]
    BY <1>3, <2>1, <2>2
  <2> QED
    BY <1>1, <1>2, <2>3 DEF MonInv, HistoryOK
<1>8. HeardOK'
  <2>1. ASSUME NEW n \in stored, NEW d \in Checkers, StillTells(d, n), d # c PROVE StillTells(d, n)'
    BY <1>1, <1>2, <2>1 DEF StillTells
  <2>2. ASSUME NEW n \in stored, StillTells(c, n) PROVE n \in unheard' \/ (told[n] = 1 /\ ruled'[n] = 1 /\ n \in notified)
    BY <1>0, <1>3, <2>2 DEF StillTells
  <2>3. ASSUME NEW n \in stored, told[n] = 1, ruled[n] = 1, n \in notified PROVE ruled'[n] = 1
    <3>1. n \notin check[c].created
      BY <1>0, <2>3 DEF CheckOK
    <3> QED
      BY <1>3, <2>3, <3>1 DEF MonTypeOK
  <2>4. ASSUME NEW n \in stored PROVE \/ n \in quiet' \/ n \in unheard'
                                      \/ told'[n] = 1 /\ ruled'[n] = 1 /\ n \in notified'
                                      \/ \E d \in Checkers : StillTells(d, n)'
    <3>1. CASE \E d \in Checkers : StillTells(d, n)
      <4>1. PICK d \in Checkers : StillTells(d, n)
        BY <3>1
      <4> QED
        BY <1>2, <2>1, <2>2, <4>1
    <3> QED
      BY <1>2, <2>3, <3>1 DEF MonInv, HeardOK
  <2> QED
    BY <1>2, <2>4 DEF HeardOK
<1> QED
  BY <1>4, <1>5, <1>6, <1>7, <1>8 DEF MonInv, ChecksOK

LEMMA MonStep == MonTypeOK /\ MonInv /\ [MonNext]_monVars => MonInv'
<1> SUFFICES ASSUME MonTypeOK, MonInv, [MonNext]_monVars PROVE MonInv'
  OBVIOUS
<1>1. ASSUME NEW m \in Movements, CourtPublishes(m) PROVE MonInv'
  <2>1. source \subseteq source' /\ UNCHANGED <<case, stored, notified, check, told, ruled, history, quiet, failed, unheard>>
    BY <1>1 DEF CourtPublishes
  <2>2. ChecksOK' /\ ChecksApart' /\ ToldOK' /\ HistoryOK'
    BY <2>1 DEF MonInv, ChecksOK, CheckOK, ChecksApart, ToldOK, HistoryOK
  <2>3. HeardOK'
    BY <2>1 DEF MonInv, HeardOK, StillTells
  <2> QED
    BY <2>2, <2>3 DEF MonInv
<1>2. CASE RemoveCase
  <2>1. case' = "removed" /\ stored' = {} /\ UNCHANGED <<source, check, told, ruled, history, quiet, failed, unheard>>
    BY <1>2 DEF RemoveCase
  <2>2. ChecksOK' /\ ChecksApart' /\ ToldOK' /\ HistoryOK'
    BY <2>1 DEF MonInv, ChecksOK, CheckOK, ChecksApart, ToldOK, HistoryOK
  <2>3. HeardOK'
    BY <2>1 DEF HeardOK
  <2> QED
    BY <2>2, <2>3 DEF MonInv
<1>3. CASE UNCHANGED monVars
  <2>1. UNCHANGED <<source, case, stored, notified, check, told, ruled, history, quiet, failed, unheard>>
    BY <1>3 DEF monVars
  <2>2. ChecksOK' /\ ChecksApart' /\ ToldOK' /\ HistoryOK'
    BY <2>1 DEF MonInv, ChecksOK, CheckOK, ChecksApart, ToldOK, HistoryOK
  <2>3. HeardOK'
    BY <2>1 DEF MonInv, HeardOK, StillTells
  <2> QED
    BY <2>2, <2>3 DEF MonInv
<1>4. ASSUME NEW c \in Checkers, SaveCheck(c) PROVE MonInv'
  BY <1>4, StopsStep, TellsStep
<1> QED
  BY <1>1, <1>2, <1>3, <1>4, StopsStep, AsksStep, StoresStep, TellsStep, RulesToldStep DEF MonNext

LEMMA MonStarts == MonInit => MonTypeOK /\ MonInv
<1> SUFFICES ASSUME MonInit PROVE MonTypeOK /\ MonInv
  OBVIOUS
<1>1. /\ source \subseteq Movements /\ case = "new" /\ stored = {} /\ notified = {} /\ troubles = 0
      /\ history = {} /\ quiet = {} /\ failed = FALSE /\ unheard = {}
      /\ \A m \in Movements : told[m] = 0 /\ ruled[m] = 0
      /\ told \in [Movements -> Nat] /\ ruled \in [Movements -> Nat]
  BY DEF MonInit
<1>2. /\ check \in [Checkers -> [pc : CheckPcs, first : BOOLEAN, todo : SUBSET Movements, created : SUBSET Movements]]
      /\ \A c \in Checkers : check[c].pc = "idle" /\ ~check[c].first /\ check[c].created = {}
  BY DEF MonInit, NotChecking, CheckPcs
<1>3. MonTypeOK
  <2>1. 0 \in 0 .. MaxMonitorTrouble
    BY MonitorAssumption
  <2>2. /\ stored \subseteq Movements /\ notified \subseteq stored /\ history \subseteq SUBSET Movements
        /\ quiet \subseteq Movements /\ unheard \subseteq Movements
    BY <1>1
  <2> QED
    BY <1>1, <1>2, <2>1, <2>2, Zenon DEF MonTypeOK
<1>4. MonInv
  BY <1>1, <1>2 DEF MonInv, ChecksOK, CheckOK, ChecksApart, ToldOK, HistoryOK, HeardOK
<1> QED
  BY <1>3, <1>4

LEMMA MonInvHolds == MonSpec => [](MonTypeOK /\ MonInv)
<1>1. MonTypeOK /\ MonInv /\ [MonNext]_monVars => MonTypeOK' /\ MonInv'
  BY MonTypeStep, MonStep
<1> QED
  BY <1>1, MonStarts, PTL DEF MonSpec

\* However checks of a case overlap, fail or die, the person and the rules are told of each new movement once, and
\* never of what was there when the watch began (check, check_all of src/research/monitor.py).
THEOREM NewsObeyed == MonSpec => []NewsToldOnce
<1>1. MonTypeOK /\ MonInv => NewsToldOnce
  <2> SUFFICES ASSUME MonTypeOK, MonInv PROVE NewsToldOnce
    OBVIOUS
  <2>1. \A m \in Movements : told[m] <= 1 /\ ruled[m] <= 1
    BY DEF MonInv, ToldOK
  <2>2. failed \/ \A m \in UNION history : told[m] = 0 /\ ruled[m] = 0
    BY DEF MonInv, HistoryOK
  <2>3. ASSUME \A c \in Checkers : Doing(c, "idle"), NEW m \in stored
        PROVE  m \in quiet \/ m \in unheard \/ (told[m] = 1 /\ ruled[m] = 1 /\ m \in notified)
    BY <2>3 DEF MonInv, HeardOK, StillTells, Doing
  <2> QED
    BY <2>1, <2>2, <2>3 DEF NewsToldOnce
<1> QED
  BY <1>1, MonInvHolds, PTL

-----------------------------------------------------------------------------
(* Suggestions. *)

\* No handler holds a row that was accepted, and none decides on one that is not there.
CopiesOpen ==
    /\ offer.id = 0 => offer.status = "open"
    /\ \A h \in Deciders :
        /\ work[h].copy.status # "accepted" /\ work[h].copy.rule = 0
        /\ work[h].pc \in {"accept", "dismiss"} => work[h].copy.id # 0

\* While handlers do not cross: one is at work at most, what it holds is the row, and what it reopens may be.
AloneOK ==
    ~crossing =>
        /\ \A g, h \in Deciders : g = h \/ work[g].pc = "idle" \/ work[h].pc = "idle"
        /\ \A h \in Deciders :
            /\ work[h].pc \in {"write", "accept", "dismiss"} => work[h].copy = offer
            /\ work[h].pc = "write" => offer.status = "open" \/ Again(offer)
            /\ work[h].pc \in {"accept", "dismiss"} => offer.status = "open" /\ offer.id # 0
        /\ offer.status = "dismissed" => dismissed = {offer.day}

SugInv == NamesItsRule /\ AnsweredOnce /\ CopiesOpen /\ AloneOK

WorkRow == [pc : WorkPcs, copy : OfferRow]

LEMMA NoOfferRow == NoOffer \in OfferRow /\ NoWork \in WorkRow /\ \A i \in Nat : [NoOffer EXCEPT !.id = i] \in OfferRow
<1>1. NoOffer \in OfferRow
  BY SuggestionsAssumption DEF NoOffer, OfferRow
<1>2. NoWork \in WorkRow
  BY <1>1 DEF NoWork, WorkRow, WorkPcs
<1>3. \A i \in Nat : [NoOffer EXCEPT !.id = i] \in OfferRow
  BY SuggestionsAssumption DEF NoOffer, OfferRow
<1> QED
  BY <1>1, <1>2, <1>3

LEMMA WorkMoves ==
    ASSUME SugTypeOK, NEW h \in Deciders, NEW row \in WorkRow, work' = [work EXCEPT ![h] = row]
    PROVE  work' \in [Deciders -> WorkRow] /\ work'[h] = row /\ \A g \in Deciders \ {h} : work'[g] = work[g]
BY DEF SugTypeOK, WorkRow

\* A handler takes the row up.
LEMMA TakesUpStep ==
    ASSUME SugTypeOK, SugInv, NEW h \in Deciders, NEW pc \in WorkPcs, NEW copy \in OfferRow, TakesUp(h, pc, copy),
           UNCHANGED <<offeredBy, pattern, offer, lastId, madeRules, night, shifts, dismissed>>,
           copy.status # "accepted", copy.rule = 0,
           pc = "write" => copy = offer /\ offer.status = "open",
           pc \in {"accept", "dismiss"} => copy = offer /\ offer.status = "open" /\ offer.id # 0
    PROVE  SugTypeOK' /\ SugInv'
<1>1. PICK row : row = [pc |-> pc, copy |-> copy]
  OBVIOUS
<1>2. row \in WorkRow /\ row.pc = pc /\ row.copy = copy
  BY <1>1 DEF WorkRow
<1>3. /\ work' \in [Deciders -> WorkRow] /\ work'[h] = row /\ \A g \in Deciders \ {h} : work'[g] = work[g]
      /\ crossing' \in BOOLEAN /\ takes' \in 0 .. MaxTakes
      /\ ~crossing' => ~crossing /\ \A g \in Deciders \ {h} : work[g].pc = "idle"
  <2>1. work' = [work EXCEPT ![h] = row]
    BY <1>1 DEF TakesUp
  <2>2. crossing' \in BOOLEAN /\ (~crossing' => ~crossing /\ \A g \in Deciders \ {h} : work[g].pc = "idle")
    BY DEF TakesUp, SugTypeOK
  <2>3. takes' \in 0 .. MaxTakes
    BY SuggestionsAssumption DEF TakesUp, SugTypeOK
  <2> QED
    BY <1>2, <2>1, <2>2, <2>3, WorkMoves
<1>4. SugTypeOK'
  BY <1>3 DEF SugTypeOK, WorkRow
<1>5. NamesItsRule' /\ AnsweredOnce' /\ CopiesOpen'
  BY <1>2, <1>3 DEF SugInv, NamesItsRule, AnsweredOnce, CopiesOpen
<1>6. AloneOK'
  <2>1. Again(offer)' <=> Again(offer)
    BY DEF Again
  <2> QED
    BY <1>2, <1>3, <2>1 DEF SugInv, AloneOK
<1> QED
  BY <1>4, <1>5, <1>6 DEF SugInv

LEMMA LoadsStep ==
    ASSUME SugTypeOK, SugInv, NEW h \in Deciders,
           RefreshDetects(h) \/ InterviewLooks(h) \/ \E pc \in {"accept", "dismiss"} : Decides(h, pc)
    PROVE  SugTypeOK' /\ SugInv'
<1>1. offer \in OfferRow /\ (offer.status = "open" => offer.status # "accepted" /\ offer.rule = 0)
  BY DEF SugTypeOK, SugInv, NamesItsRule
<1>2. CASE RefreshDetects(h)
  <2>1. NoOffer.status # "accepted" /\ NoOffer.rule = 0
    BY DEF NoOffer
  <2>2. PICK pc \in {"look", "sweep"} : TakesUp(h, pc, NoOffer)
    BY <1>2 DEF RefreshDetects
  <2> QED
    BY <1>2, <2>1, <2>2, NoOfferRow, TakesUpStep DEF RefreshDetects, WorkPcs
<1>3. CASE InterviewLooks(h)
  BY <1>1, <1>3, TakesUpStep DEF InterviewLooks, WorkPcs
<1>4. ASSUME NEW pc \in {"accept", "dismiss"}, Decides(h, pc) PROVE SugTypeOK' /\ SugInv'
  BY <1>1, <1>4, TakesUpStep DEF Decides, WorkPcs
<1> QED
  BY <1>2, <1>3, <1>4

\* A handler that is done leaves the row it saved.
LEMMA PutsStep ==
    ASSUME SugTypeOK, SugInv, NEW h \in Deciders, work[h].pc # "idle", Puts(h),
           UNCHANGED <<offeredBy, pattern, night, takes, shifts, crossing>>,
           offer' \in OfferRow, lastId' \in Nat, madeRules' \in Nat, dismissed' \subseteq 0 .. LastNight,
           NamesItsRule', AnsweredOnce',
           offer'.id = 0 => offer'.status = "open",
           ~crossing => (offer'.status = "dismissed" => dismissed' = {offer'.day})
    PROVE  SugTypeOK' /\ SugInv'
<1>1. work' \in [Deciders -> WorkRow] /\ work'[h] = NoWork /\ \A g \in Deciders \ {h} : work'[g] = work[g]
  BY NoOfferRow, WorkMoves DEF Puts
<1>2. NoWork.pc = "idle" /\ NoWork.copy.status = "open" /\ NoWork.copy.rule = 0
  BY DEF NoWork, NoOffer
<1>3. SugTypeOK'
  BY <1>1 DEF SugTypeOK, WorkRow
<1>4. CopiesOpen'
  BY <1>1, <1>2 DEF SugInv, CopiesOpen
<1>5. AloneOK'
  <2>1. ~crossing => \A g \in Deciders : work'[g].pc = "idle"
    BY <1>1, <1>2 DEF SugInv, AloneOK
  <2> QED
    BY <2>1 DEF AloneOK
<1> QED
  BY <1>3, <1>4, <1>5 DEF SugInv

LEMMA SweepsStep ==
    ASSUME SugTypeOK, SugInv, NEW h \in Deciders, RefreshSweeps(h)
    PROVE  SugTypeOK' /\ SugInv'
<1>1. /\ work[h].pc # "idle" /\ Puts(h) /\ UNCHANGED <<offeredBy, pattern, lastId, madeRules, night, takes, shifts, dismissed, crossing>>
      /\ offer' = offer \/ (offer.status = "open" /\ offer' = NoOffer)
  BY DEF RefreshSweeps, Sweeps
<1>2. NoOffer.id = 0 /\ NoOffer.status = "open" /\ NoOffer.rule = 0
  BY DEF NoOffer
<1>3. offer' \in OfferRow /\ lastId \in Nat /\ madeRules \in Nat /\ dismissed \subseteq 0 .. LastNight
  BY <1>1, NoOfferRow DEF SugTypeOK
<1>4. NamesItsRule' /\ AnsweredOnce'
  BY <1>1, <1>2, <1>3 DEF SugInv, NamesItsRule, AnsweredOnce
<1>5. (offer'.id = 0 => offer'.status = "open") /\ (~crossing => (offer'.status = "dismissed" => dismissed = {offer'.day}))
  BY <1>1, <1>2 DEF SugInv, AloneOK, CopiesOpen
<1> QED
  BY <1>1, <1>3, <1>4, <1>5, PutsStep

LEMMA LooksStep ==
    ASSUME SugTypeOK, SugInv, NEW h \in Deciders, RefreshLooks(h)
    PROVE  SugTypeOK' /\ SugInv'
<1>0. work[h].pc = "look" /\ offer \in OfferRow /\ UNCHANGED <<offeredBy, pattern, offer, lastId, madeRules, night, takes, shifts, dismissed, crossing>>
  BY DEF RefreshLooks, SugTypeOK
<1>1. CASE Puts(h)
  <2>1. /\ offer' \in OfferRow /\ lastId' \in Nat /\ madeRules' \in Nat /\ dismissed' \subseteq 0 .. LastNight
        /\ NamesItsRule' /\ AnsweredOnce'
        /\ offer'.id = 0 => offer'.status = "open"
        /\ ~crossing => (offer'.status = "dismissed" => dismissed' = {offer'.day})
    BY <1>0 DEF SugTypeOK, SugInv, NamesItsRule, AnsweredOnce, AloneOK, CopiesOpen
  <2> QED
    BY <1>0, <1>1, <2>1, PutsStep
<1>2. CASE /\ offer.id = 0 \/ offer.status = "open" \/ Again(offer)
           /\ work' = [work EXCEPT ![h] = [pc |-> "write", copy |-> offer]]
  <2>1. PICK row : row = [pc |-> "write", copy |-> offer]
    OBVIOUS
  <2>2. row \in WorkRow /\ row.pc = "write" /\ row.copy = offer
    BY <1>0, <2>1 DEF WorkRow, WorkPcs
  <2>3. work' \in [Deciders -> WorkRow] /\ work'[h] = row /\ \A g \in Deciders \ {h} : work'[g] = work[g]
    BY <1>2, <2>1, <2>2, WorkMoves
  <2>4. SugTypeOK'
    BY <1>0, <2>3 DEF SugTypeOK, WorkRow
  <2>5. NamesItsRule' /\ AnsweredOnce'
    BY <1>0 DEF SugInv, NamesItsRule, AnsweredOnce
  <2>6. CopiesOpen'
    BY <1>0, <1>2, <2>2, <2>3 DEF SugInv, CopiesOpen, NamesItsRule, Again
  <2>7. AloneOK'
    <3>1. Again(offer)' <=> Again(offer)
      BY <1>0 DEF Again
    <3> QED
      BY <1>0, <1>2, <2>2, <2>3, <3>1 DEF SugInv, AloneOK, CopiesOpen
  <2> QED
    BY <2>4, <2>5, <2>6, <2>7 DEF SugInv
<1> QED
  BY <1>1, <1>2 DEF RefreshLooks

LEMMA WritesStep ==
    ASSUME SugTypeOK, SugInv, NEW h \in Deciders, WritesOpen(h)
    PROVE  SugTypeOK' /\ SugInv'
<1>a. PICK copy : copy = work[h].copy
  OBVIOUS
<1>0. /\ work[h].pc = "write" /\ Puts(h) /\ UNCHANGED <<offeredBy, pattern, madeRules, night, takes, shifts, dismissed, crossing>>
      /\ copy \in OfferRow /\ copy.status \in {"open", "dismissed"} /\ copy.rule = 0 /\ copy.id \in Nat
      /\ offer \in OfferRow /\ madeRules \in Nat /\ lastId \in Nat /\ dismissed \subseteq 0 .. LastNight
  BY <1>a DEF WritesOpen, SugTypeOK, SugInv, CopiesOpen, OfferRow, WorkRow
<1>1. PICK new : new = [NoOffer EXCEPT !.id = IF copy.id = 0 THEN lastId + 1 ELSE copy.id]
  OBVIOUS
<1>2. new \in OfferRow /\ new.status = "open" /\ new.rule = 0 /\ new.id # 0
  <2>1. new \in OfferRow
    BY <1>0, <1>1, NoOfferRow
  <2>2. new.status = "open" /\ new.rule = 0 /\ new.id = IF copy.id = 0 THEN lastId + 1 ELSE copy.id
    BY <1>1 DEF NoOffer
  <2> QED
    BY <1>0, <2>1, <2>2
<1>3. /\ lastId' \in Nat
      /\ \/ offer' = offer
         \/ offer' = new /\ (copy.id = 0 => offer.id = 0) /\ (copy.id # 0 => copy.status = "dismissed")
         \/ offer' = copy /\ copy.status = "open" /\ copy.id # 0
  <2>1. CASE copy.id = 0
    BY <1>a, <1>0, <1>1, <2>1 DEF WritesOpen
  <2>2. CASE copy.id # 0
    BY <1>a, <1>0, <1>1, <2>2 DEF WritesOpen, Saved
  <2> QED
    BY <2>1, <2>2
<1>4. offer' \in OfferRow /\ (offer' = offer \/ (offer'.status = "open" /\ offer'.rule = 0))
  BY <1>0, <1>2, <1>3
<1>5. NamesItsRule'
  BY <1>0, <1>4 DEF SugInv, NamesItsRule
<1>6. ~crossing /\ offer' # offer => \A d \in dismissed : ~(night <= d + Snooze)
  <2> SUFFICES ASSUME ~crossing, offer' # offer, NEW d \in dismissed, night <= d + Snooze PROVE FALSE
    OBVIOUS
  <2>1. copy = offer /\ (offer.status = "open" \/ Again(offer)) /\ offer.status = "dismissed"
    BY <1>a, <1>0, <1>3 DEF SugInv, AloneOK, AnsweredOnce, NamesItsRule
  <2>2. d = offer.day /\ offer.day + Snooze < night
    BY <2>1 DEF SugInv, AloneOK, Again
  <2>3. d \in Nat /\ Snooze \in Nat /\ night \in Nat
    BY <1>0, SuggestionsAssumption DEF SugTypeOK
  <2> QED
    BY <2>2, <2>3
<1>7. ~crossing /\ offer.status = "accepted" => offer' = offer
  <2> SUFFICES ASSUME ~crossing, offer.status = "accepted" PROVE FALSE
    OBVIOUS
  <2> QED
    BY <1>a, <1>0 DEF SugInv, AloneOK
<1>8. AnsweredOnce'
  BY <1>0, <1>4, <1>6, <1>7 DEF SugInv, AnsweredOnce
<1>9. (offer'.id = 0 => offer'.status = "open") /\ (~crossing => (offer'.status = "dismissed" => dismissed = {offer'.day}))
  BY <1>4 DEF SugInv, CopiesOpen, AloneOK
<1> QED
  BY <1>0, <1>3, <1>4, <1>5, <1>8, <1>9, PutsStep

LEMMA DecidesStep ==
    ASSUME SugTypeOK, SugInv, NEW h \in Deciders, Accepts(h) \/ Dismisses(h)
    PROVE  SugTypeOK' /\ SugInv'
<1>a. PICK copy : copy = work[h].copy
  OBVIOUS
<1>0. /\ work[h].pc \in {"accept", "dismiss"} /\ Puts(h) /\ UNCHANGED <<offeredBy, pattern, lastId, night, takes, shifts, crossing>>
      /\ copy \in OfferRow /\ copy.status \in {"open", "dismissed"} /\ copy.rule = 0 /\ copy.id \in Nat \ {0}
      /\ offer \in OfferRow /\ madeRules \in Nat /\ lastId \in Nat /\ dismissed \subseteq 0 .. LastNight
      /\ night \in 0 .. LastNight /\ offer.rule \in Nat
  BY <1>a DEF Accepts, Dismisses, SugTypeOK, SugInv, CopiesOpen, OfferRow, WorkRow
<1>1. ~crossing => copy = offer /\ offer.status = "open"
  BY <1>a, <1>0 DEF SugInv, AloneOK
<1>2. CASE Accepts(h)
  <2>1. PICK new : new = [copy EXCEPT !.status = "accepted", !.rule = madeRules + 1, !.day = night]
    OBVIOUS
  <2>2. new \in OfferRow /\ new.status = "accepted" /\ new.rule = madeRules + 1 /\ new.id = copy.id
    <3>1. PICK rule \in Nat : rule = madeRules + 1
      BY <1>0
    <3>2. new = [copy EXCEPT !.status = "accepted", !.rule = rule, !.day = night]
      BY <2>1, <3>1
    <3>3. copy \in OfferRow /\ night \in 0 .. LastNight
      BY <1>0
    <3>4. new \in OfferRow /\ new.status = "accepted" /\ new.rule = rule /\ new.id = copy.id
      BY <3>2, <3>3 DEF OfferRow
    <3> QED
      BY <3>1, <3>4
  <2>3. /\ dismissed' = dismissed
        /\ \/ offer' = new /\ madeRules' = madeRules + 1
           \/ offer' = offer /\ madeRules' = madeRules /\ offer.id # copy.id
    BY <1>a, <1>2, <2>1, <2>2 DEF Accepts, Saved, RuleMade, IsSaved
  <2>4. offer' \in OfferRow /\ madeRules' \in Nat /\ (offer'.id = 0 => offer'.status = "open")
    BY <1>0, <2>2, <2>3 DEF SugInv, CopiesOpen
  <2>5. NamesItsRule'
    BY <1>0, <2>2, <2>3 DEF SugInv, NamesItsRule
  <2>6. AnsweredOnce'
    BY <1>0, <1>1, <2>2, <2>3 DEF SugInv, AnsweredOnce
  <2>7. ~crossing => (offer'.status = "dismissed" => dismissed' = {offer'.day})
    BY <1>1, <2>2, <2>3
  <2> QED
    BY <1>0, <2>3, <2>4, <2>5, <2>6, <2>7, PutsStep
<1>3. CASE Dismisses(h)
  <2>1. PICK new : new = [copy EXCEPT !.status = "dismissed", !.day = night]
    OBVIOUS
  <2>2. new \in OfferRow /\ new.status = "dismissed" /\ new.rule = 0 /\ new.id = copy.id /\ new.day = night
    BY <1>0, <2>1 DEF OfferRow
  <2>3. /\ madeRules' = madeRules
        /\ \/ offer' = new /\ dismissed' = {night}
           \/ offer' = offer /\ dismissed' = dismissed /\ offer.id # copy.id
    BY <1>a, <1>3, <2>1, <2>2 DEF Dismisses, Saved, IsSaved
  <2>4. offer' \in OfferRow /\ (offer'.id = 0 => offer'.status = "open") /\ dismissed' \subseteq 0 .. LastNight
    BY <1>0, <2>2, <2>3 DEF SugInv, CopiesOpen
  <2>5. NamesItsRule'
    BY <1>0, <2>2, <2>3 DEF SugInv, NamesItsRule
  <2>6. AnsweredOnce'
    BY <1>0, <1>1, <2>2, <2>3 DEF SugInv, AnsweredOnce
  <2>7. ~crossing => (offer'.status = "dismissed" => dismissed' = {offer'.day})
    BY <1>1, <2>2, <2>3
  <2> QED
    BY <1>0, <2>3, <2>4, <2>5, <2>6, <2>7, PutsStep
<1> QED
  BY <1>2, <1>3

LEMMA SugStep == SugTypeOK /\ SugInv /\ [SugNext]_sugVars => SugTypeOK' /\ SugInv'
<1> SUFFICES ASSUME SugTypeOK, SugInv, [SugNext]_sugVars PROVE SugTypeOK' /\ SugInv'
  OBVIOUS
<1>1. ASSUME UNCHANGED <<offeredBy, offer, lastId, madeRules, work, takes, dismissed, crossing>>,
             pattern' \in BOOLEAN, shifts' \in 0 .. MaxShifts, night' \in 0 .. LastNight, night <= night'
      PROVE  SugTypeOK' /\ SugInv'
  <2>1. SugTypeOK'
    BY <1>1 DEF SugTypeOK
  <2>2. /\ NamesItsRule' /\ CopiesOpen'
    BY <1>1 DEF SugInv, NamesItsRule, CopiesOpen
  <2>3. night \in Nat /\ night' \in Nat /\ Snooze \in Nat /\ offer.day \in Nat /\ \A d \in dismissed : d \in Nat
    BY <1>1, SuggestionsAssumption DEF SugTypeOK, OfferRow
  <2>4. (Again(offer) => Again(offer)') /\ \A d \in dismissed : night' <= d + Snooze => night <= d + Snooze
    BY <1>1, <2>3 DEF Again
  <2>5. AnsweredOnce' /\ AloneOK'
    BY <1>1, <2>4 DEF SugInv, AnsweredOnce, AloneOK
  <2> QED
    BY <2>1, <2>2, <2>5 DEF SugInv
<1>2. CASE PatternShifts
  BY <1>1, <1>2, SuggestionsAssumption DEF PatternShifts, SugTypeOK
<1>3. CASE NightFalls
  BY <1>1, <1>3, SuggestionsAssumption DEF NightFalls, SugTypeOK
<1>4. CASE UNCHANGED sugVars
  BY <1>1, <1>4, SuggestionsAssumption DEF sugVars, SugTypeOK
<1> QED
  BY <1>2, <1>3, <1>4, LoadsStep, SweepsStep, LooksStep, WritesStep, DecidesStep DEF SugNext

LEMMA SugInvHolds == SugSpec => [](SugTypeOK /\ SugInv)
<1>1. SugInit => SugTypeOK /\ SugInv
  <2> SUFFICES ASSUME SugInit PROVE SugTypeOK /\ SugInv
    OBVIOUS
  <2>1. /\ offer = NoOffer /\ NoOffer.id = 0 /\ NoOffer.status = "open" /\ NoOffer.rule = 0 /\ dismissed = {}
        /\ \A h \in Deciders : work[h] = NoWork /\ NoWork.pc = "idle" /\ NoWork.copy = NoOffer
        /\ madeRules = 0 /\ crossing = FALSE
    BY DEF SugInit, NoOffer, NoWork
  <2>2. SugTypeOK
    <3>1. work \in [Deciders -> WorkRow]
      BY NoOfferRow DEF SugInit
    <3>2. 0 \in 0 .. LastNight /\ 0 \in 0 .. MaxTakes /\ 0 \in 0 .. MaxShifts
      BY SuggestionsAssumption
    <3>3. work \in [Deciders -> [pc : WorkPcs, copy : OfferRow]]
      BY <3>1 DEF WorkRow
    <3>4. /\ offeredBy \in {"detector", "interview"} /\ pattern \in BOOLEAN /\ lastId = 0 /\ madeRules = 0 /\ night = 0
          /\ takes = 0 /\ shifts = 0 /\ dismissed = {} /\ crossing = FALSE /\ offer = NoOffer
      BY DEF SugInit
    <3>5. offer \in OfferRow /\ lastId \in Nat /\ madeRules \in Nat /\ dismissed \subseteq 0 .. LastNight
      BY <3>4, NoOfferRow
    <3> QED
      BY <3>2, <3>3, <3>4, <3>5 DEF SugTypeOK
  <2>3. NamesItsRule /\ AnsweredOnce /\ CopiesOpen /\ AloneOK
    BY <2>1 DEF NamesItsRule, AnsweredOnce, CopiesOpen, AloneOK
  <2> QED
    BY <2>2, <2>3 DEF SugInv
<1> QED
  BY <1>1, SugStep, PTL DEF SugSpec

\* An accepted suggestion names the rule made of it; and unless handlers cross there is one rule at most, and what was
\* dismissed stays so for its 60 days (accept, dismiss, refresh of src/brain/suggestions.py, discovery.py).
THEOREM SuggestionsObeyed == SugSpec => []SuggestionsKept
  BY SugInvHolds, PTL DEF SugInv, SuggestionsKept

-----------------------------------------------------------------------------
(* ContentPieces. *)

\* Whatever may be published, or is being, has a text that was approved or slipped in under a failure.
Backed(status, text) == Publishable(status) => text \in reviewed \cup slipped
TextsOK ==
    /\ Backed(piece.status, piece.text) /\ PostedWasReviewed
    /\ \A h \in Hands :
        /\ hand[h].pc = "patch" => Backed(hand[h].row.status, hand[h].row.text)
        /\ hand[h].pc \in {"publish", "posted", "refused"} => hand[h].row.text \in reviewed \cup slipped

\* An operation is in the row while its video is made; none is anywhere before Google took it.
OpsOK ==
    /\ piece.video = "gerando" <=> piece.op # 0
    /\ \A h \in Hands :
        /\ hand[h].pc = "patch" => (hand[h].row.video = "gerando" <=> hand[h].row.op # 0)
        /\ hand[h].pc \in {"poll", "fail", "store"} => hand[h].row.op # 0
        /\ hand[h].pc = "taken" => hand[h].got # 0
        /\ hand[h].pc = "charge" => hand[h].row.file \in delivered
    /\ \A n \in VideoOps : asked[n] = "none" =>
        /\ n # piece.op /\ n \notin delivered
        /\ \A h \in Hands : n # hand[h].row.op /\ n # hand[h].got

\* What is delivered is charged by the handler that delivered it.
PaidOK ==
    /\ \A n \in VideoOps : charges[n] > 0 => n \in delivered
    /\ handsLost = 0 =>
        \A n \in delivered \ unseen : charges[n] >= 1 \/ \E h \in Hands : hand[h].pc = "charge" /\ hand[h].row.file = n

\* While no stale row was written: an operation is new until it is delivered, and is delivered once.
FreshOK ==
    ~spoiled =>
        /\ piece.op \notin delivered
        /\ \A h \in Hands :
            /\ hand[h].pc = "taken" => hand[h].got \notin delivered /\ hand[h].got # piece.op
            /\ hand[h].pc = "charge" => charges[hand[h].row.file] = 0
        /\ \A g, h \in Hands : g # h =>
            /\ hand[g].pc = "taken" /\ hand[h].pc = "taken" => hand[g].got # hand[h].got
            /\ hand[g].pc = "charge" /\ hand[h].pc = "charge" => hand[g].row.file # hand[h].row.file
        /\ \A n \in VideoOps : charges[n] <= 1
        /\ onShow # 0 => piece.video = "pronto" /\ piece.file = onShow /\ onShow \in videos

PieceInv == TextsOK /\ OpsOK /\ PaidOK /\ FreshOK

LEMMA PieceRows ==
    /\ NewPiece \in PieceRow /\ NewPiece.status = "rascunho" /\ NewPiece.video = "" /\ NewPiece.op = 0 /\ NewPiece.file = 0
    /\ NoPiece \in PieceRow /\ NoPiece.status = "none" /\ NoPiece.video = "" /\ NoPiece.op = 0 /\ NoPiece.file = 0
    /\ NoHand \in PieceHand /\ NoHand.pc = "idle" /\ NoHand.row = NoPiece /\ NoHand.got = 0
    /\ MaxTexts \in Nat /\ MaxOps \in Nat /\ MaxPosts \in Nat /\ MaxPieceTrouble \in Nat
<1>1. MaxTexts \in Nat /\ MaxOps \in Nat /\ MaxPosts \in Nat /\ MaxPieceTrouble \in Nat
  BY PiecesAssumption
<1>2. NewPiece \in PieceRow /\ NewPiece.status = "rascunho" /\ NewPiece.video = "" /\ NewPiece.op = 0 /\ NewPiece.file = 0
  BY <1>1 DEF NewPiece, PieceRow, PieceDecisions
<1>3. NoPiece \in PieceRow /\ NoPiece.status = "none" /\ NoPiece.video = "" /\ NoPiece.op = 0 /\ NoPiece.file = 0
  BY <1>2 DEF NoPiece, PieceRow
<1>4. NoHand \in PieceHand /\ NoHand.pc = "idle" /\ NoHand.row = NoPiece /\ NoHand.got = 0
  <2>1. 0 \in 0 .. MaxOps
    BY <1>1
  <2> QED
    BY <1>3, <2>1 DEF NoHand, PieceHand
<1> QED
  BY <1>1, <1>2, <1>3, <1>4

LEMMA PieceNats ==
    /\ MaxTexts \in Nat /\ MaxOps \in Nat /\ MaxPosts \in Nat /\ MaxPieceTrouble \in Nat
    /\ 0 \in 0 .. MaxTexts /\ 0 \in 0 .. MaxOps /\ 0 \in 0 .. MaxPieceTrouble /\ 0 \notin VideoOps
    /\ \A n \in 0 .. MaxOps : n # 0 => n \in VideoOps
BY PiecesAssumption DEF VideoOps

LEMMA HandMoves ==
    ASSUME PieceTypeOK, NEW h \in Hands
    PROVE  /\ hand[h] \in PieceHand /\ hand[h].row \in PieceRow /\ hand[h].got \in 0 .. MaxOps
           /\ \A row \in PieceHand : hand' = [hand EXCEPT ![h] = row] =>
                hand' \in [Hands -> PieceHand] /\ hand'[h] = row /\ \A g \in Hands \ {h} : hand'[g] = hand[g]
           /\ \A pc \in {"posted", "refused", "fail", "store"} : Becomes(h, pc) =>
                /\ hand' \in [Hands -> PieceHand] /\ \A g \in Hands \ {h} : hand'[g] = hand[g]
                /\ hand'[h].pc = pc /\ hand'[h].row = hand[h].row /\ hand'[h].got = hand[h].got
           /\ Drops(h) =>
                /\ hand' \in [Hands -> PieceHand] /\ \A g \in Hands \ {h} : hand'[g] = hand[g]
                /\ hand'[h].pc = "idle" /\ hand'[h].row.op = 0 /\ hand'[h].got = 0
<1>1. hand \in [Hands -> PieceHand] /\ hand[h] \in PieceHand
  BY DEF PieceTypeOK
<1>2. hand[h].row \in PieceRow /\ hand[h].got \in 0 .. MaxOps
  BY <1>1 DEF PieceHand
<1>3. ASSUME NEW row \in PieceHand, hand' = [hand EXCEPT ![h] = row]
      PROVE  hand' \in [Hands -> PieceHand] /\ hand'[h] = row /\ \A g \in Hands \ {h} : hand'[g] = hand[g]
  BY <1>1, <1>3
<1>4. ASSUME NEW pc \in {"posted", "refused", "fail", "store"}, Becomes(h, pc)
      PROVE  /\ hand' \in [Hands -> PieceHand] /\ \A g \in Hands \ {h} : hand'[g] = hand[g]
             /\ hand'[h].pc = pc /\ hand'[h].row = hand[h].row /\ hand'[h].got = hand[h].got
  <2>1. PICK row : row = [hand[h] EXCEPT !.pc = pc]
    OBVIOUS
  <2>2. row \in PieceHand /\ row.pc = pc /\ row.row = hand[h].row /\ row.got = hand[h].got
    BY <1>1, <2>1 DEF PieceHand
  <2>3. hand' = [hand EXCEPT ![h] = row]
    BY <1>4, <2>1 DEF Becomes
  <2> QED
    BY <1>3, <2>2, <2>3
<1>5. ASSUME Drops(h)
      PROVE  /\ hand' \in [Hands -> PieceHand] /\ \A g \in Hands \ {h} : hand'[g] = hand[g]
             /\ hand'[h].pc = "idle" /\ hand'[h].row.op = 0 /\ hand'[h].got = 0
  BY <1>3, <1>5, PieceRows DEF Drops
<1> QED
  BY <1>1, <1>2, <1>3, <1>4, <1>5

\* A handler loads the piece.
LEMMA PieceLoads ==
    ASSUME PieceTypeOK, NEW h \in Hands, NEW pc \in {"patch", "publish", "ask", "poll"}, LoadsPiece(h, pc)
    PROVE  /\ hand' \in [Hands -> PieceHand] /\ \A g \in Hands \ {h} : hand'[g] = hand[g]
           /\ hand'[h].pc = pc /\ hand'[h].got = 0
           /\ pc = "patch" => hand'[h].row = piece
           /\ pc = "publish" => hand'[h].row.text = piece.text
           /\ hand'[h].row.op \in {0, piece.op}
           /\ pc = "poll" => hand'[h].row.op = piece.op
<1>0. piece \in PieceRow
  BY DEF PieceTypeOK
<1>1. PICK row : row = Columns(pc)
  OBVIOUS
<1>2. /\ row \in PieceRow /\ (pc = "patch" => row = piece) /\ (pc = "publish" => row.text = piece.text)
      /\ row.op \in {0, piece.op} /\ (pc = "poll" => row.op = piece.op)
  <2>1. CASE pc = "patch"
    BY <1>0, <1>1, <2>1 DEF Columns
  <2>2. CASE pc = "publish"
    <3>1. row = [NewPiece EXCEPT !.text = piece.text]
      BY <1>1, <2>2 DEF Columns
    <3> QED
      BY <1>0, <2>2, <3>1, PieceRows DEF PieceRow
  <2>3. CASE pc = "poll"
    <3>1. row = [NewPiece EXCEPT !.op = piece.op, !.file = piece.file]
      BY <1>1, <2>3 DEF Columns
    <3> QED
      BY <1>0, <2>3, <3>1, PieceRows DEF PieceRow
  <2>4. CASE pc = "ask"
    <3>1. row = NewPiece
      BY <1>1, <2>4 DEF Columns
    <3> QED
      BY <2>4, <3>1, PieceRows
  <2> QED
    BY <2>1, <2>2, <2>3, <2>4
<1>3. PICK new : new = [NoHand EXCEPT !.pc = pc, !.row = row]
  OBVIOUS
<1>4. new \in PieceHand /\ new.pc = pc /\ new.row = row /\ new.got = 0
  BY <1>2, <1>3, PieceRows DEF PieceHand
<1>5. hand' = [hand EXCEPT ![h] = new]
  BY <1>1, <1>3 DEF LoadsPiece
<1>6. hand' \in [Hands -> PieceHand] /\ hand'[h] = new /\ \A g \in Hands \ {h} : hand'[g] = hand[g]
  BY <1>4, <1>5, HandMoves
<1> QED
  BY <1>2, <1>4, <1>6

LEMMA PieceLoadsStep ==
    ASSUME PieceTypeOK, PieceInv, NEW h \in Hands, LoadPatch(h) \/ LoadPublish(h) \/ LoadDue(h) \/ AskVideo(h) \/ LoadPoll(h)
    PROVE  PieceTypeOK' /\ PieceInv'
<1>1. PICK pc \in {"patch", "publish", "ask", "poll"} :
        /\ LoadsPiece(h, pc)
        /\ pc = "publish" => Publishable(piece.status)
        /\ pc = "poll" => piece.video = "gerando"
  BY DEF LoadPatch, LoadPublish, LoadDue, AskVideo, LoadPoll, Publishable
<1>2. UNCHANGED <<piece, handsLost, editions, posts, reviewed, slipped, asked, videos, charges, onShow, delivered, unseen, spoiled>>
  BY DEF LoadPatch, LoadPublish, LoadDue, AskVideo, LoadPoll, textVars, videoVars
<1>3. /\ hand' \in [Hands -> PieceHand] /\ \A g \in Hands \ {h} : hand'[g] = hand[g]
      /\ hand'[h].pc = pc /\ hand'[h].got = 0
      /\ pc = "patch" => hand'[h].row = piece
      /\ pc = "publish" => hand'[h].row.text = piece.text
      /\ hand'[h].row.op \in {0, piece.op}
      /\ pc = "poll" => hand'[h].row.op = piece.op
      /\ hand[h].pc = "idle"
  BY <1>1, PieceLoads DEF LoadsPiece, Handles
<1>4. PieceTypeOK'
  BY <1>2, <1>3 DEF PieceTypeOK
<1>5. TextsOK'
  BY <1>1, <1>2, <1>3 DEF PieceInv, TextsOK, Backed, PostedWasReviewed
<1>6. OpsOK'
  BY <1>1, <1>2, <1>3 DEF PieceInv, OpsOK, VideoOps
<1>7. PaidOK'
  BY <1>2, <1>3 DEF PieceInv, PaidOK
<1>8. FreshOK'
  BY <1>2, <1>3 DEF PieceInv, FreshOK
<1> QED
  BY <1>4, <1>5, <1>6, <1>7, <1>8 DEF PieceInv

LEMMA SavePatchStep ==
    ASSUME PieceTypeOK, PieceInv, NEW h \in Hands, NEW edits \in BOOLEAN, NEW decision \in PieceDecisions, SavePatch(h, edits, decision)
    PROVE  PieceTypeOK' /\ PieceInv'
<1>a. PICK row : row = hand[h].row
  OBVIOUS
<1>b. PICK text : text = IF edits THEN editions + 1 ELSE row.text
  OBVIOUS
<1>c. PICK status : status = IF decision # "" THEN decision ELSE IF edits THEN Restatus(row.status) ELSE row.status
  OBVIOUS
<1>d. PICK new : new = [row EXCEPT !.text = text, !.status = status]
  OBVIOUS
<1>0. /\ hand[h].pc = "patch" /\ (edits => editions < MaxTexts)
      /\ piece' = new /\ editions' = (IF edits THEN editions + 1 ELSE editions)
      /\ reviewed' = (IF decision \in {"aprovado", "agendado"} THEN reviewed \cup {text} ELSE reviewed)
      /\ slipped' = (IF edits /\ status = "falhou" THEN slipped \cup {text} ELSE slipped)
      /\ spoiled' = (spoiled \/ <<row.video, row.op, row.file>> # <<piece.video, piece.op, piece.file>>)
      /\ Drops(h) /\ UNCHANGED <<asked, videos, posts, charges, handsLost, onShow, delivered, unseen>>
  <2>1. /\ hand[h].pc = "patch" /\ (edits => editions < MaxTexts)
        /\ Drops(h) /\ UNCHANGED <<asked, videos, posts, charges, handsLost, onShow, delivered, unseen>>
    BY DEF SavePatch, Handles
  <2>2. /\ piece' = new /\ editions' = (IF edits THEN editions + 1 ELSE editions)
        /\ reviewed' = (IF decision \in {"aprovado", "agendado"} THEN reviewed \cup {text} ELSE reviewed)
        /\ slipped' = (IF edits /\ status = "falhou" THEN slipped \cup {text} ELSE slipped)
    BY <1>a, <1>b, <1>c, <1>d DEF SavePatch, Held
  <2>3. spoiled' = (spoiled \/ <<row.video, row.op, row.file>> # <<piece.video, piece.op, piece.file>>)
    BY <1>a DEF SavePatch, Held
  <2> QED
    BY <2>1, <2>2, <2>3
<1>1. row \in PieceRow
  BY <1>a, HandMoves
<1>2. editions \in Nat /\ editions' \in 0 .. MaxTexts /\ text \in 0 .. MaxTexts
  <2>1. editions \in 0 .. MaxTexts /\ row.text \in 0 .. MaxTexts /\ MaxTexts \in Nat
    BY <1>1, PieceRows DEF PieceTypeOK, PieceRow
  <2>2. CASE edits
    <3>1. editions < MaxTexts /\ editions' = editions + 1 /\ text = editions + 1
      BY <1>0, <1>b, <2>2
    <3> QED
      BY <2>1, <3>1
  <2>3. CASE ~edits
    <3>1. editions' = editions /\ text = row.text
      BY <1>0, <1>b, <2>3
    <3> QED
      BY <2>1, <3>1
  <2> QED
    BY <2>2, <2>3
<1>3. status \in (PieceDecisions \ {""}) \cup {"none", "falhou"}
  BY <1>1, <1>c DEF PieceRow, PieceDecisions, Restatus
<1>4. new \in PieceRow /\ new.text = text /\ new.status = status /\ new.video = row.video /\ new.op = row.op /\ new.file = row.file
  <2> HIDE DEF PieceDecisions
  <2> QED
    BY <1>1, <1>2, <1>3, <1>d DEF PieceRow
<1>5. /\ hand' \in [Hands -> PieceHand] /\ \A g \in Hands \ {h} : hand'[g] = hand[g]
      /\ hand'[h].pc = "idle" /\ hand'[h].row.op = 0 /\ hand'[h].got = 0
  BY <1>0, HandMoves
<1>6. PieceTypeOK'
  <2>1. spoiled' \in BOOLEAN /\ reviewed' \cup slipped' \subseteq 0 .. MaxTexts
    BY <1>0, <1>2 DEF PieceTypeOK
  <2> QED
    BY <1>0, <1>2, <1>4, <1>5, <2>1 DEF PieceTypeOK
<1>7. TextsOK'
  <2>1. Publishable(status) => text \in reviewed' \cup slipped'
    <3>1. CASE edits \/ decision # ""
      BY <1>0, <1>c, <3>1 DEF Publishable, Restatus, PieceDecisions
    <3>2. CASE ~edits /\ decision = ""
      <4>1. status = row.status /\ text = row.text
        BY <1>b, <1>c, <3>2
      <4>2. Publishable(row.status) => row.text \in reviewed \cup slipped
        BY <1>0, <1>a DEF PieceInv, TextsOK, Backed
      <4>3. reviewed' = reviewed /\ slipped' = slipped
        BY <1>0, <3>2
      <4> QED
        BY <4>1, <4>2, <4>3
    <3> QED
      BY <3>1, <3>2
  <2>2. reviewed \subseteq reviewed' /\ slipped \subseteq slipped'
    BY <1>0
  <2> QED
    BY <1>0, <1>4, <1>5, <2>1, <2>2 DEF PieceInv, TextsOK, Backed, PostedWasReviewed
<1>b1. UNCHANGED <<asked, charges, handsLost, delivered, unseen>>
  BY <1>0
<1>b2. piece'.video = row.video /\ piece'.op = row.op /\ hand[h].pc = "patch"
  BY <1>0, <1>4
<1>8. OpsOK'
  BY <1>b1, <1>b2, <1>5, <1>a DEF PieceInv, OpsOK, VideoOps
<1>9. PaidOK'
  BY <1>b1, <1>b2, <1>5 DEF PieceInv, PaidOK
<1>10. FreshOK'
  <2>1. ~spoiled' => ~spoiled /\ row.video = piece.video /\ row.op = piece.op /\ row.file = piece.file
    BY <1>0
  <2>2. ~spoiled' => piece'.video = piece.video /\ piece'.op = piece.op /\ piece'.file = piece.file
    BY <1>0, <1>4, <2>1
  <2>3. UNCHANGED <<videos, charges, onShow, delivered>>
    BY <1>0
  <2> QED
    BY <1>b2, <1>5, <2>1, <2>2, <2>3 DEF PieceInv, FreshOK
<1> QED
  BY <1>6, <1>7, <1>8, <1>9, <1>10 DEF PieceInv

LEMMA PostStep ==
    ASSUME PieceTypeOK, PieceInv, NEW h \in Hands, PostToMeta(h)
    PROVE  PieceTypeOK' /\ PieceInv'
<1>a. PICK t : t = hand[h].row.text
  OBVIOUS
<1>0. /\ hand[h].pc = "publish" /\ t \in 0 .. MaxTexts /\ t \in reviewed \cup slipped
      /\ UNCHANGED <<piece, editions, handsLost, reviewed, slipped, asked, videos, charges, onShow, delivered, unseen, spoiled>>
      /\ posts' = posts \/ (posts[t] < MaxPosts /\ posts' = [posts EXCEPT ![t] = posts[t] + 1])
  BY <1>a, HandMoves DEF PostToMeta, Held, Handles, videoVars, PieceInv, TextsOK, PieceRow
<1>1. PICK pc \in {"posted", "refused"} : Becomes(h, pc)
  BY DEF PostToMeta
<1>2. /\ hand' \in [Hands -> PieceHand] /\ \A g \in Hands \ {h} : hand'[g] = hand[g]
      /\ hand'[h].pc = pc /\ hand'[h].row = hand[h].row /\ hand'[h].got = hand[h].got
  BY <1>1, HandMoves
<1>3. posts' \in [0 .. MaxTexts -> 0 .. MaxPosts] /\ \A n \in 0 .. MaxTexts : n # t => posts'[n] = posts[n]
  <2>1. posts \in [0 .. MaxTexts -> 0 .. MaxPosts] /\ MaxPosts \in Nat
    BY PieceRows DEF PieceTypeOK
  <2>2. posts[t] \in 0 .. MaxPosts /\ (posts[t] < MaxPosts => posts[t] + 1 \in 0 .. MaxPosts)
    BY <1>0, <2>1
  <2> QED
    BY <1>0, <2>1, <2>2
<1>4. PieceTypeOK'
  BY <1>0, <1>2, <1>3 DEF PieceTypeOK
<1>5. TextsOK'
  BY <1>0, <1>1, <1>2, <1>3, <1>a DEF PieceInv, TextsOK, Backed, PostedWasReviewed
<1>6. OpsOK'
  BY <1>0, <1>1, <1>2 DEF PieceInv, OpsOK, VideoOps
<1>7. PaidOK'
  BY <1>0, <1>1, <1>2 DEF PieceInv, PaidOK
<1>8. FreshOK'
  BY <1>0, <1>1, <1>2 DEF PieceInv, FreshOK
<1> QED
  BY <1>4, <1>5, <1>6, <1>7, <1>8 DEF PieceInv

LEMMA SavePublishStep ==
    ASSUME PieceTypeOK, PieceInv, NEW h \in Hands, SavePublish(h)
    PROVE  PieceTypeOK' /\ PieceInv'
<1>0. /\ hand[h].pc \in {"posted", "refused"} /\ Drops(h) /\ hand[h].row.text \in reviewed \cup slipped
      /\ UNCHANGED <<editions, posts, handsLost, reviewed, asked, videos, charges, onShow, delivered, unseen, spoiled>>
  BY DEF SavePublish, Handles, videoVars, PieceInv, TextsOK
<1>1. /\ hand' \in [Hands -> PieceHand] /\ \A g \in Hands \ {h} : hand'[g] = hand[g]
      /\ hand'[h].pc = "idle" /\ hand'[h].row.op = 0 /\ hand'[h].got = 0
  BY <1>0, HandMoves
<1>2. PICK status \in {"publicado", "falhou"} :
        /\ piece' = piece \/ piece' = [piece EXCEPT !.status = status]
        /\ status = "publicado" => slipped' = slipped
        /\ status = "falhou" => slipped' = IF piece.text = hand[h].row.text THEN slipped ELSE slipped \cup {piece.text}
  BY DEF SavePublish, WritesPiece, Held
<1>3. piece \in PieceRow
  BY DEF PieceTypeOK
<1>4. /\ piece' \in PieceRow /\ piece'.text = piece.text /\ piece'.video = piece.video /\ piece'.op = piece.op /\ piece'.file = piece.file
      /\ piece' = piece \/ piece'.status = status
  BY <1>2, <1>3 DEF PieceRow, PieceDecisions
<1>5. piece.text \in 0 .. MaxTexts /\ slipped \subseteq slipped'
  BY <1>2, <1>3 DEF PieceRow
<1>6. PieceTypeOK'
  BY <1>0, <1>1, <1>2, <1>4, <1>5 DEF PieceTypeOK
<1>7. TextsOK'
  BY <1>0, <1>1, <1>2, <1>4, <1>5 DEF PieceInv, TextsOK, Backed, PostedWasReviewed, Publishable
<1>8. OpsOK'
  BY <1>0, <1>1, <1>4 DEF PieceInv, OpsOK, VideoOps
<1>9. PaidOK'
  BY <1>0, <1>1 DEF PieceInv, PaidOK
<1>10. FreshOK'
  BY <1>0, <1>1, <1>4 DEF PieceInv, FreshOK
<1> QED
  BY <1>6, <1>7, <1>8, <1>9, <1>10 DEF PieceInv

LEMMA GoogleStep ==
    ASSUME PieceTypeOK, PieceInv, (\E n \in VideoOps : GoogleEnds(n)) \/ \E h \in Hands : GoogleTakes(h)
    PROVE  PieceTypeOK' /\ PieceInv'
<1>1. ASSUME NEW n \in VideoOps, GoogleEnds(n) PROVE PieceTypeOK' /\ PieceInv'
  <2>1. PICK end \in {"done", "refused"} : asked' = [asked EXCEPT ![n] = end]
    BY <1>1 DEF GoogleEnds
  <2>2. /\ asked[n] # "none" /\ asked' \in [VideoOps -> {"none", "running", "done", "refused"}]
        /\ \A k \in VideoOps : asked'[k] = "none" => asked[k] = "none"
        /\ UNCHANGED <<piece, hand, handsLost, editions, posts, reviewed, slipped, videos, charges, onShow, delivered, unseen, spoiled>>
    BY <1>1, <2>1 DEF GoogleEnds, PieceTypeOK, textVars
  <2>3. PieceTypeOK'
    BY <2>2 DEF PieceTypeOK
  <2>4. TextsOK' /\ PaidOK' /\ FreshOK'
    BY <2>2 DEF PieceInv, TextsOK, Backed, PostedWasReviewed, PaidOK, FreshOK
  <2>5. OpsOK'
    BY <2>2 DEF PieceInv, OpsOK
  <2> QED
    BY <2>3, <2>4, <2>5 DEF PieceInv
<1>2. ASSUME NEW h \in Hands, GoogleTakes(h) PROVE PieceTypeOK' /\ PieceInv'
  <2>0. hand[h].pc = "ask" /\ UNCHANGED <<piece, handsLost, editions, posts, reviewed, slipped, videos, charges, onShow, delivered, unseen, spoiled>>
    BY <1>2 DEF GoogleTakes, Handles, textVars
  <2>1. CASE Drops(h) /\ asked' = asked
    <3>1. /\ hand' \in [Hands -> PieceHand] /\ \A g \in Hands \ {h} : hand'[g] = hand[g]
          /\ hand'[h].pc = "idle" /\ hand'[h].row.op = 0 /\ hand'[h].got = 0
      BY <2>1, HandMoves
    <3>2. PieceTypeOK' /\ TextsOK' /\ PaidOK' /\ FreshOK'
      BY <2>0, <2>1, <3>1 DEF PieceInv, PieceTypeOK, TextsOK, Backed, PostedWasReviewed, PaidOK, FreshOK
    <3>3. OpsOK'
      BY <2>0, <2>1, <3>1 DEF PieceInv, OpsOK, VideoOps
    <3> QED
      BY <3>2, <3>3 DEF PieceInv
  <2>2. ASSUME NEW n \in VideoOps, asked[n] = "none", asked' = [asked EXCEPT ![n] = "running"],
               hand' = [hand EXCEPT ![h].pc = "taken", ![h].got = n]
        PROVE  PieceTypeOK' /\ PieceInv'
    <3>1. PICK row : row = [hand[h] EXCEPT !.pc = "taken", !.got = n]
      OBVIOUS
    <3>2. hand[h] \in PieceHand /\ n \in 0 .. MaxOps /\ n # 0
      <4>1. n \in 1 .. MaxOps /\ MaxOps \in Nat
        BY PieceRows DEF VideoOps
      <4> QED
        BY <4>1, HandMoves
    <3>3. row \in PieceHand /\ row.pc = "taken" /\ row.row = hand[h].row /\ row.got = n
      BY <3>1, <3>2 DEF PieceHand
    <3>4. hand' = [hand EXCEPT ![h] = row]
      BY <2>2, <3>1, HandMoves DEF PieceTypeOK
    <3>5. hand' \in [Hands -> PieceHand] /\ hand'[h] = row /\ \A g \in Hands \ {h} : hand'[g] = hand[g]
      BY <3>3, <3>4, HandMoves
    <3>6. asked' \in [VideoOps -> {"none", "running", "done", "refused"}] /\ \A k \in VideoOps : asked'[k] = "none" => asked[k] = "none" /\ k # n
      BY <2>2 DEF PieceTypeOK
    <3>7. n # piece.op /\ n \notin delivered /\ \A g \in Hands : n # hand[g].got
      BY <2>2 DEF PieceInv, OpsOK
    <3>8. PieceTypeOK'
      BY <2>0, <3>5, <3>6 DEF PieceTypeOK
    <3>9. TextsOK' /\ PaidOK'
      BY <2>0, <3>3, <3>5 DEF PieceInv, TextsOK, Backed, PostedWasReviewed, PaidOK
    <3>10. OpsOK'
      BY <2>0, <3>2, <3>3, <3>5, <3>6 DEF PieceInv, OpsOK
    <3>11. FreshOK'
      BY <2>0, <3>3, <3>5, <3>7 DEF PieceInv, FreshOK
    <3> QED
      BY <3>8, <3>9, <3>10, <3>11 DEF PieceInv
  <2> QED
    BY <1>2, <2>1, <2>2 DEF GoogleTakes
<1> QED
  BY <1>1, <1>2

LEMMA SaveOpStep ==
    ASSUME PieceTypeOK, PieceInv, NEW h \in Hands, SaveOp(h)
    PROVE  PieceTypeOK' /\ PieceInv'
<1>a. PICK n : n = hand[h].got
  OBVIOUS
<1>0. /\ hand[h].pc = "taken" /\ Drops(h) /\ onShow' = 0
      /\ UNCHANGED <<handsLost, editions, posts, reviewed, slipped, asked, videos, charges, delivered, unseen, spoiled>>
      /\ piece' = piece \/ piece' = [piece EXCEPT !.op = n, !.video = "gerando"]
  BY <1>a DEF SaveOp, Handles, textVars, WritesPiece
<1>1. /\ hand' \in [Hands -> PieceHand] /\ \A g \in Hands \ {h} : hand'[g] = hand[g]
      /\ hand'[h].pc = "idle" /\ hand'[h].row.op = 0 /\ hand'[h].got = 0
  BY <1>0, HandMoves
<1>2. piece \in PieceRow /\ n \in 0 .. MaxOps /\ n # 0
  BY <1>0, <1>a, HandMoves DEF PieceTypeOK, PieceInv, OpsOK
<1>3. /\ piece' \in PieceRow /\ piece'.text = piece.text /\ piece'.status = piece.status
      /\ piece' = piece \/ (piece'.op = n /\ piece'.video = "gerando")
  BY <1>0, <1>2 DEF PieceRow
<1>4. PieceTypeOK'
  BY <1>0, <1>1, <1>3, PieceNats DEF PieceTypeOK
<1>5. TextsOK'
  BY <1>0, <1>1, <1>3 DEF PieceInv, TextsOK, Backed, PostedWasReviewed
<1>6. OpsOK'
  BY <1>0, <1>1, <1>2, <1>3, <1>a DEF PieceInv, OpsOK, VideoOps
<1>7. PaidOK'
  BY <1>0, <1>1 DEF PieceInv, PaidOK
<1>8. FreshOK'
  BY <1>0, <1>1, <1>2, <1>3, <1>a DEF PieceInv, FreshOK
<1> QED
  BY <1>4, <1>5, <1>6, <1>7, <1>8 DEF PieceInv

LEMMA PollStep ==
    ASSUME PieceTypeOK, PieceInv, NEW h \in Hands, PollAnswered(h) \/ FailVideo(h) \/ HandDies(h)
    PROVE  PieceTypeOK' /\ PieceInv'
<1>1. CASE PollAnswered(h)
  <2>0. /\ hand[h].pc = "poll"
        /\ UNCHANGED <<piece, handsLost, editions, posts, reviewed, slipped, asked, videos, charges, onShow, delivered, unseen, spoiled>>
    BY <1>1 DEF PollAnswered, Handles, textVars, videoVars
  <2>1. /\ hand' \in [Hands -> PieceHand] /\ \A g \in Hands \ {h} : hand'[g] = hand[g]
        /\ hand'[h].pc \in {"idle", "fail", "store"} /\ hand'[h].row.op \in {0, hand[h].row.op} /\ hand'[h].got \in {0, hand[h].got}
        /\ hand'[h].pc # "idle" => hand'[h].row.op = hand[h].row.op
    BY <1>1, HandMoves DEF PollAnswered
  <2>2. PieceTypeOK'
    BY <2>0, <2>1 DEF PieceTypeOK
  <2>3. TextsOK'
    BY <2>0, <2>1 DEF PieceInv, TextsOK, Backed, PostedWasReviewed
  <2>4. OpsOK'
    BY <2>0, <2>1 DEF PieceInv, OpsOK, VideoOps
  <2>5. PaidOK' /\ FreshOK'
    BY <2>0, <2>1 DEF PieceInv, PaidOK, FreshOK
  <2> QED
    BY <2>2, <2>3, <2>4, <2>5 DEF PieceInv
<1>2. CASE FailVideo(h)
  <2>a. PICK n : n = hand[h].row.op
    OBVIOUS
  <2>0. /\ hand[h].pc = "fail" /\ Drops(h)
        /\ UNCHANGED <<handsLost, editions, posts, reviewed, slipped, asked, videos, charges, onShow, delivered, unseen>>
        /\ piece' = piece \/ piece' = [piece EXCEPT !.video = "falhou", !.op = 0]
    BY <1>2 DEF FailVideo, Handles, textVars, WritesPiece
  <2>1. spoiled' = (spoiled \/ <<piece.video, piece.op>> # <<"gerando", n>>)
    BY <1>2, <2>a DEF FailVideo, Held
  <2>2. spoiled' \in BOOLEAN /\ (~spoiled' => ~spoiled /\ piece.video = "gerando")
    BY <2>1
  <2>3. /\ hand' \in [Hands -> PieceHand] /\ \A g \in Hands \ {h} : hand'[g] = hand[g]
        /\ hand'[h].pc = "idle" /\ hand'[h].row.op = 0 /\ hand'[h].got = 0
    BY <2>0, HandMoves
  <2>4. /\ piece' \in PieceRow /\ piece'.text = piece.text /\ piece'.status = piece.status
        /\ piece' = piece \/ (piece'.op = 0 /\ piece'.video = "falhou")
    <3>1. piece \in PieceRow /\ 0 \in 0 .. MaxOps
      BY PieceNats DEF PieceTypeOK
    <3> QED
      BY <2>0, <3>1 DEF PieceRow
  <2>5. PieceTypeOK'
    BY <2>0, <2>2, <2>3, <2>4 DEF PieceTypeOK
  <2>6. TextsOK'
    BY <2>0, <2>3, <2>4 DEF PieceInv, TextsOK, Backed, PostedWasReviewed
  <2>7. OpsOK'
    BY <2>0, <2>3, <2>4 DEF PieceInv, OpsOK, VideoOps
  <2>8. PaidOK'
    BY <2>0, <2>3 DEF PieceInv, PaidOK
  <2>9. FreshOK'
    <3>1. 0 \notin delivered /\ \A g \in Hands : hand[g].pc = "taken" => hand[g].got # 0
      BY DEF PieceTypeOK, VideoOps, PieceInv, OpsOK
    <3>2. ~spoiled' => onShow = 0
      BY <2>2 DEF PieceInv, FreshOK
    <3> QED
      BY <2>0, <2>2, <2>3, <2>4, <3>1, <3>2 DEF PieceInv, FreshOK
  <2> QED
    BY <2>5, <2>6, <2>7, <2>8, <2>9 DEF PieceInv
<1>3. CASE HandDies(h)
  <2>0. /\ Drops(h) /\ handsLost < MaxPieceTrouble /\ handsLost' = handsLost + 1
        /\ UNCHANGED <<piece, editions, posts, reviewed, slipped, asked, videos, charges, onShow, delivered, unseen, spoiled>>
    BY <1>3 DEF HandDies, textVars, videoVars
  <2>1. /\ hand' \in [Hands -> PieceHand] /\ \A g \in Hands \ {h} : hand'[g] = hand[g]
        /\ hand'[h].pc = "idle" /\ hand'[h].row.op = 0 /\ hand'[h].got = 0
    BY <2>0, HandMoves
  <2>2. handsLost' \in 0 .. MaxPieceTrouble /\ handsLost' # 0
    BY <2>0, PieceNats DEF PieceTypeOK
  <2>3. PieceTypeOK'
    BY <2>0, <2>1, <2>2 DEF PieceTypeOK
  <2>4. TextsOK'
    BY <2>0, <2>1 DEF PieceInv, TextsOK, Backed, PostedWasReviewed
  <2>5. OpsOK'
    BY <2>0, <2>1 DEF PieceInv, OpsOK, VideoOps
  <2>6. PaidOK' /\ FreshOK'
    BY <2>0, <2>1, <2>2 DEF PieceInv, PaidOK, FreshOK
  <2> QED
    BY <2>3, <2>4, <2>5, <2>6 DEF PieceInv
<1> QED
  BY <1>1, <1>2, <1>3

LEMMA StoreVideoStep ==
    ASSUME PieceTypeOK, PieceInv, NEW h \in Hands, StoreVideo(h)
    PROVE  PieceTypeOK' /\ PieceInv'
<1>a. PICK row : row = hand[h].row
  OBVIOUS
<1>0. /\ hand[h].pc = "store" /\ row \in PieceRow /\ row.op \in 0 .. MaxOps /\ row.op # 0
      /\ UNCHANGED <<handsLost, editions, posts, reviewed, slipped, asked, charges, unseen, spoiled>>
  <2>1. hand[h].pc = "store" /\ UNCHANGED <<handsLost, editions, posts, reviewed, slipped, asked, charges, unseen, spoiled>>
    BY DEF StoreVideo, Handles, textVars
  <2>2. row \in PieceRow
    BY <1>a, HandMoves
  <2> QED
    BY <1>a, <2>1, <2>2 DEF PieceRow, PieceInv, OpsOK
<1>1. CASE ~Wins(row)
  <2>1. Drops(h) /\ UNCHANGED <<piece, videos, onShow, delivered>>
    BY <1>1, <1>a DEF StoreVideo, Held
  <2>2. /\ hand' \in [Hands -> PieceHand] /\ \A g \in Hands \ {h} : hand'[g] = hand[g]
        /\ hand'[h].pc = "idle" /\ hand'[h].row.op = 0 /\ hand'[h].got = 0
    BY <2>1, HandMoves
  <2>3. PieceTypeOK' /\ TextsOK'
    BY <1>0, <2>1, <2>2 DEF PieceInv, PieceTypeOK, TextsOK, Backed, PostedWasReviewed
  <2>4. OpsOK'
    BY <1>0, <2>1, <2>2 DEF PieceInv, OpsOK, VideoOps
  <2>5. PaidOK' /\ FreshOK'
    BY <1>0, <2>1, <2>2 DEF PieceInv, PaidOK, FreshOK
  <2> QED
    BY <2>3, <2>4, <2>5 DEF PieceInv
<1>2. CASE Wins(row)
  <2>a. PICK n : n = row.op
    OBVIOUS
  <2>0. n \in VideoOps /\ n \in 0 .. MaxOps /\ n # 0 /\ piece.video = "gerando" /\ piece.op = n /\ 0 \notin VideoOps /\ MaxOps \in Nat
    BY <1>0, <1>2, <2>a, PieceNats DEF Wins
  <2>1. /\ piece' = [piece EXCEPT !.video = "pronto", !.file = n, !.op = 0]
        /\ videos' = (videos \ {row.file}) \cup {n} /\ onShow' = n /\ delivered' = delivered \cup {n}
        /\ hand' = [hand EXCEPT ![h].pc = "charge", ![h].row.file = n]
    BY <1>2, <1>a, <2>a DEF StoreVideo, Held
  <2>2. PICK new : new = [hand[h] EXCEPT !.pc = "charge", !.row = [row EXCEPT !.file = n]]
    OBVIOUS
  <2>3. /\ [row EXCEPT !.file = n] \in PieceRow /\ [row EXCEPT !.file = n].file = n /\ [row EXCEPT !.file = n].op = n
    BY <1>0, <2>0, <2>a DEF PieceRow
  <2>4. new \in PieceHand /\ new.pc = "charge" /\ new.row.file = n /\ new.row.op = n /\ new.got = hand[h].got
    <3>1. hand[h] \in PieceHand
      BY HandMoves
    <3>2. PICK to \in PieceRow : to = [row EXCEPT !.file = n]
      BY <2>3
    <3>3. new = [hand[h] EXCEPT !.pc = "charge", !.row = to]
      BY <2>2, <3>2
    <3>4. new \in PieceHand /\ new.pc = "charge" /\ new.row = to /\ new.got = hand[h].got
      BY <3>1, <3>3 DEF PieceHand
    <3> QED
      BY <2>3, <3>2, <3>4
  <2>5. hand' = [hand EXCEPT ![h] = new]
    <3>1. hand \in [Hands -> PieceHand]
      BY DEF PieceTypeOK
    <3> QED
      BY <1>a, <2>1, <2>2, <3>1 DEF PieceHand
  <2>6. hand' \in [Hands -> PieceHand] /\ hand'[h] = new /\ \A g \in Hands \ {h} : hand'[g] = hand[g]
    BY <2>4, <2>5, HandMoves
  <2>7. /\ piece' \in PieceRow /\ piece'.text = piece.text /\ piece'.status = piece.status
        /\ piece'.op = 0 /\ piece'.video = "pronto" /\ piece'.file = n
    <3>1. piece \in PieceRow /\ 0 \in 0 .. MaxOps
      BY PieceNats DEF PieceTypeOK
    <3> QED
      BY <2>0, <2>1, <3>1 DEF PieceRow
  <2>8. PieceTypeOK'
    <3>1. videos' \subseteq VideoOps /\ delivered' \cup unseen \subseteq VideoOps /\ onShow' \in 0 .. MaxOps
      BY <2>0, <2>1 DEF PieceTypeOK
    <3> QED
      BY <1>0, <2>6, <2>7, <3>1 DEF PieceTypeOK
  <2>9. TextsOK'
    BY <1>0, <2>4, <2>6, <2>7 DEF PieceInv, TextsOK, Backed, PostedWasReviewed
  <2>10. OpsOK'
    <3>1. \A k \in VideoOps : asked[k] = "none" => k # n
      BY <1>a, <2>a DEF PieceInv, OpsOK
    <3> QED
      BY <1>0, <2>0, <2>1, <2>4, <2>6, <2>7, <3>1 DEF PieceInv, OpsOK
  <2>11. PaidOK'
    BY <1>0, <2>1, <2>4, <2>6 DEF PieceInv, PaidOK
  <2>12. FreshOK'
    <3> SUFFICES ASSUME ~spoiled PROVE FreshOK'
      BY <1>0 DEF FreshOK
    <3>1. n \notin delivered /\ charges[n] = 0
      <4>1. n \notin delivered
        BY <2>0 DEF PieceInv, FreshOK
      <4>2. charges[n] \in 0 .. 2 /\ ~(charges[n] > 0)
        BY <2>0, <4>1 DEF PieceInv, PaidOK, PieceTypeOK
      <4> QED
        BY <4>1, <4>2
    <3>2. 0 \notin delivered'
      BY <2>0, <2>8 DEF PieceTypeOK
    <3>3. \A g \in Hands : /\ hand[g].pc = "charge" => hand[g].row.file # n
                           /\ hand[g].pc = "taken" => hand[g].got # 0 /\ hand[g].got # n
      BY <2>0, <3>1 DEF PieceInv, OpsOK, FreshOK
    <3>4. onShow' # 0 => piece'.video = "pronto" /\ piece'.file = onShow' /\ onShow' \in videos'
      BY <2>1, <2>7
    <3> QED
      BY <1>0, <2>1, <2>4, <2>6, <2>7, <3>1, <3>2, <3>3, <3>4 DEF PieceInv, FreshOK
  <2> QED
    BY <2>8, <2>9, <2>10, <2>11, <2>12 DEF PieceInv
<1> QED
  BY <1>1, <1>2

LEMMA ChargeStep ==
    ASSUME PieceTypeOK, PieceInv, NEW h \in Hands, ChargeVideo(h)
    PROVE  PieceTypeOK' /\ PieceInv'
<1>a. PICK n : n = hand[h].row.file
  OBVIOUS
<1>0. /\ hand[h].pc = "charge" /\ n \in delivered /\ n \in VideoOps /\ Drops(h)
      /\ UNCHANGED <<piece, handsLost, editions, posts, reviewed, slipped, asked, videos, onShow, delivered, spoiled>>
      /\ \/ charges[n] < 2 /\ charges' = [charges EXCEPT ![n] = charges[n] + 1] /\ unseen' = unseen
         \/ charges' = charges /\ unseen' = unseen \cup {n}
  BY <1>a DEF ChargeVideo, Held, Handles, textVars, PieceInv, OpsOK, PieceTypeOK
<1>1. /\ hand' \in [Hands -> PieceHand] /\ \A g \in Hands \ {h} : hand'[g] = hand[g]
      /\ hand'[h].pc = "idle" /\ hand'[h].row.op = 0 /\ hand'[h].got = 0
  BY <1>0, HandMoves
<1>2. /\ charges' \in [VideoOps -> 0 .. 2] /\ charges[n] \in 0 .. 2
      /\ \A k \in VideoOps : k # n => charges'[k] = charges[k]
      /\ \/ charges'[n] = charges[n] + 1 /\ unseen' = unseen
         \/ charges'[n] = charges[n] /\ unseen' = unseen \cup {n}
  BY <1>0 DEF PieceTypeOK
<1>3. PieceTypeOK'
  BY <1>0, <1>1, <1>2 DEF PieceTypeOK
<1>4. TextsOK'
  BY <1>0, <1>1 DEF PieceInv, TextsOK, Backed, PostedWasReviewed
<1>5. OpsOK'
  BY <1>0, <1>1 DEF PieceInv, OpsOK, VideoOps
<1>6. PaidOK'
  <2>1. \A k \in VideoOps : charges'[k] > 0 => k \in delivered
    BY <1>0, <1>2 DEF PieceInv, PaidOK
  <2>2. ASSUME handsLost = 0, NEW k \in delivered \ unseen'
        PROVE  charges'[k] >= 1 \/ \E g \in Hands : hand'[g].pc = "charge" /\ hand'[g].row.file = k
    <3>1. k \in VideoOps /\ k \in delivered \ unseen
      BY <1>2, <2>2 DEF PieceTypeOK
    <3>2. CASE k = n
      BY <1>2, <2>2, <3>2
    <3>3. CASE k # n
      BY <1>1, <1>2, <1>a, <2>2, <3>1, <3>3 DEF PieceInv, PaidOK
    <3> QED
      BY <3>2, <3>3
  <2> QED
    BY <1>0, <2>1, <2>2 DEF PaidOK
<1>7. FreshOK'
  <2> SUFFICES ASSUME ~spoiled PROVE FreshOK'
    BY <1>0 DEF FreshOK
  <2>1. charges[n] = 0 /\ \A g \in Hands \ {h} : hand[g].pc = "charge" => hand[g].row.file # n /\ hand[g].row.file \in VideoOps
    BY <1>0, <1>a DEF PieceInv, FreshOK, OpsOK, PieceTypeOK
  <2> QED
    BY <1>0, <1>1, <1>2, <2>1 DEF PieceInv, FreshOK
<1> QED
  BY <1>3, <1>4, <1>5, <1>6, <1>7 DEF PieceInv

LEMMA PieceStep == PieceTypeOK /\ PieceInv /\ [PieceNext]_pieceVars => PieceTypeOK' /\ PieceInv'
<1> SUFFICES ASSUME PieceTypeOK, PieceInv, [PieceNext]_pieceVars PROVE PieceTypeOK' /\ PieceInv'
  OBVIOUS
<1>1. CASE RemovePiece
  <2>1. /\ piece' = NoPiece /\ onShow' = 0
        /\ UNCHANGED <<hand, handsLost, editions, posts, reviewed, slipped, asked, videos, charges, delivered, unseen, spoiled>>
    BY <1>1 DEF RemovePiece, textVars
  <2>2. PieceTypeOK'
    <3>1. piece' \in PieceRow
      BY <2>1, PieceRows
    <3> QED
      BY <2>1, <3>1, PieceNats DEF PieceTypeOK
  <2>3. TextsOK'
    BY <2>1, PieceRows DEF PieceInv, TextsOK, Backed, PostedWasReviewed, Publishable
  <2>4. OpsOK'
    <3>1. piece'.video = "" /\ piece'.op = 0
      BY <2>1, PieceRows
    <3> QED
      BY <2>1, <3>1, PieceNats DEF PieceInv, OpsOK
  <2>5. PaidOK'
    BY <2>1 DEF PieceInv, PaidOK
  <2>6. FreshOK'
    <3>1. 0 \notin delivered /\ \A g \in Hands : hand[g].pc = "taken" => hand[g].got # 0
      BY DEF PieceTypeOK, VideoOps, PieceInv, OpsOK
    <3> QED
      BY <2>1, <3>1, PieceRows DEF PieceInv, FreshOK
  <2> QED
    BY <2>2, <2>3, <2>4, <2>5, <2>6 DEF PieceInv
<1>2. CASE UNCHANGED pieceVars
  <2>1. UNCHANGED <<piece, hand, editions, asked, videos, posts, charges, handsLost, reviewed, slipped, onShow, delivered, unseen, spoiled>>
    BY <1>2 DEF pieceVars
  <2>2. PieceTypeOK' /\ TextsOK' /\ OpsOK'
    BY <2>1 DEF PieceInv, PieceTypeOK, TextsOK, Backed, PostedWasReviewed, OpsOK
  <2>3. PaidOK' /\ FreshOK'
    BY <2>1 DEF PieceInv, PaidOK, FreshOK
  <2> QED
    BY <2>2, <2>3 DEF PieceInv
<1> QED
  BY <1>1, <1>2, PieceLoadsStep, SavePatchStep, PostStep, SavePublishStep, GoogleStep, SaveOpStep, PollStep, StoreVideoStep, ChargeStep
  DEF PieceNext

LEMMA PieceInvHolds == PieceSpec => [](PieceTypeOK /\ PieceInv)
<1>1. PieceInit => PieceTypeOK /\ PieceInv
  <2> SUFFICES ASSUME PieceInit PROVE PieceTypeOK /\ PieceInv
    OBVIOUS
  <2>1. /\ piece = NewPiece /\ hand = [h \in Hands |-> NoHand] /\ editions = 0 /\ asked = [n \in VideoOps |-> "none"]
        /\ videos = {} /\ posts = [t \in 0 .. MaxTexts |-> 0] /\ charges = [n \in VideoOps |-> 0] /\ handsLost = 0
        /\ reviewed = {} /\ slipped = {} /\ onShow = 0 /\ delivered = {} /\ unseen = {} /\ spoiled = FALSE
    BY DEF PieceInit
  <2>2. hand \in [Hands -> PieceHand] /\ \A h \in Hands : hand[h] = NoHand
    BY <2>1, PieceRows
  <2>3. PieceTypeOK
    <3>1. piece \in PieceRow
      BY <2>1, PieceRows
    <3>2. posts \in [0 .. MaxTexts -> 0 .. MaxPosts] /\ charges \in [VideoOps -> 0 .. 2]
      BY <2>1, PieceNats
    <3>3. asked \in [VideoOps -> {"none", "running", "done", "refused"}]
      BY <2>1
    <3> QED
      BY <2>1, <2>2, <3>1, <3>2, <3>3, PieceNats DEF PieceTypeOK
  <2>4. /\ piece.status = "rascunho" /\ piece.video = "" /\ piece.op = 0
        /\ \A h \in Hands : hand[h].pc = "idle" /\ hand[h].row.op = 0 /\ hand[h].got = 0
    BY <2>1, <2>2, PieceRows
  <2>5. TextsOK
    <3>1. \A t \in 0 .. MaxTexts : ~(posts[t] > 0)
      BY <2>1
    <3> QED
      BY <2>4, <3>1 DEF TextsOK, Backed, PostedWasReviewed, Publishable
  <2>6. OpsOK /\ PaidOK /\ FreshOK
    <3>1. \A n \in VideoOps : ~(charges[n] > 0) /\ charges[n] <= 1 /\ n # 0
      BY <2>1, PieceNats
    <3> QED
      BY <2>1, <2>4, <3>1 DEF OpsOK, PaidOK, FreshOK
  <2> QED
    BY <2>3, <2>5, <2>6 DEF PieceInv
<1> QED
  BY <1>1, PieceStep, PTL DEF PieceSpec

\* What is posted was approved, and a delivered video is charged, once, and shown, with the exceptions the code leaves;
\* here text and video interleave freely (src/marketing/api.py, services.py, media.py).
THEOREM PieceObeyed == PieceSpec => []PieceKept
<1>1. PieceTypeOK /\ PieceInv => PieceKept
  <2> SUFFICES ASSUME PieceTypeOK, PieceInv PROVE PieceKept
    OBVIOUS
  <2>1. PostedWasReviewed
    BY DEF PieceInv, TextsOK
  <2>2. VideoPaidOnce
    BY DEF PieceInv, PaidOK, FreshOK, VideoPaidOnce, Handles
  <2> QED
    BY <2>1, <2>2 DEF PieceKept
<1> QED
  BY <1>1, PieceInvHolds, PTL

-----------------------------------------------------------------------------
(* Documents. *)

\* While no handler overtakes another, one is at work at most, and what it loaded is the row, as it left it.
CopyOK(h) ==
    /\ handler[h].pc \in {"start", "tasks", "confirm", "undo", "undoSave", "requeue"} => handler[h].copy = extraction
    /\ handler[h].pc = "start" => extraction.status # "confirmed"
    /\ handler[h].pc = "reading" => extraction.status = "processing"
    /\ handler[h].pc \in {"autoTasks", "autoSave"} => extraction.status = "review"
    /\ handler[h].pc \in {"reading", "autoTasks", "autoSave", "fails"} => handler[h].copy.by = extraction.by
    /\ handler[h].pc = "fails" => extraction.by = "nobody" /\ (broken \/ extraction.status = "review")
    /\ handler[h].pc \in {"tasks", "confirm"} => extraction.status \in {"review", "confirmed"}
    /\ handler[h].pc \in {"undo", "undoSave"} => Undoable
    /\ handler[h].pc = "requeue" => Reprocessable
HeldOK ==
    ~overtaken =>
        /\ \A g, h \in Handlers : g = h \/ handler[g].pc = "idle" \/ handler[h].pc = "idle"
        /\ \A h \in Handlers : CopyOK(h)
        /\ extraction.status # "confirmed" => extraction.by = "nobody" /\ (broken \/ emitted <= undone)
        /\ (broken \/ emitted <= undone + 1)

\* The tasks in the agenda are those of the confirmation, or of the one under way.
AgendaOK ==
    ~overtaken /\ ~broken =>
        /\ (\A h \in Handlers : handler[h].pc \notin {"autoSave", "confirm"}) /\ extraction.status # "confirmed" => agenda = {}
        /\ (\A h \in Handlers : handler[h].pc \notin {"confirm", "undoSave"}) /\ Undoable => agenda = extraction.auto
        /\ \A h \in Handlers :
            /\ handler[h].pc = "autoSave" => agenda = handler[h].copy.auto
            /\ handler[h].pc = "undoSave" => agenda = {}
            /\ handler[h].pc = "tasks" => Cardinality(agenda) <= again
        /\ Cardinality(agenda) <= again + 1

DocInv == PersonStands /\ HeldOK /\ AgendaOK

DocPcs == {"idle", "start", "reading", "autoTasks", "autoSave", "fails",
           "tasks", "confirm", "undo", "undoSave", "requeue"}

LEMMA DocMoves ==
    ASSUME DocTypeOK, NEW h \in Handlers
    PROVE  /\ handler[h] \in DocHandler /\ handler[h].copy \in DocRow /\ AtRest \in DocHandler
           /\ \A row \in DocHandler : handler' = [handler EXCEPT ![h] = row] =>
                handler' \in [Handlers -> DocHandler] /\ handler'[h] = row /\ \A g \in Handlers \ {h} : handler'[g] = handler[g]
           /\ \A pc \in DocPcs : GoesOn(h, pc) =>
                /\ handler' \in [Handlers -> DocHandler] /\ \A g \in Handlers \ {h} : handler'[g] = handler[g]
                /\ handler'[h].pc = pc /\ handler'[h].copy = handler[h].copy
           /\ Stops(h) =>
                /\ handler' \in [Handlers -> DocHandler] /\ \A g \in Handlers \ {h} : handler'[g] = handler[g]
                /\ handler'[h].pc = "idle"
<1>1. handler \in [Handlers -> DocHandler] /\ handler[h] \in DocHandler
  BY DEF DocTypeOK
<1>2. handler[h].copy \in DocRow
  BY <1>1 DEF DocHandler
<1>3. NewRow \in DocRow
  BY DEF NewRow, DocRow, DocStatus
<1>4. AtRest \in DocHandler /\ AtRest.pc = "idle"
  BY <1>3 DEF AtRest, DocHandler
<1>5. ASSUME NEW row \in DocHandler, handler' = [handler EXCEPT ![h] = row]
      PROVE  handler' \in [Handlers -> DocHandler] /\ handler'[h] = row /\ \A g \in Handlers \ {h} : handler'[g] = handler[g]
  BY <1>1, <1>5
<1>6. ASSUME NEW pc \in DocPcs, GoesOn(h, pc)
      PROVE  /\ handler' \in [Handlers -> DocHandler] /\ \A g \in Handlers \ {h} : handler'[g] = handler[g]
             /\ handler'[h].pc = pc /\ handler'[h].copy = handler[h].copy
  <2>1. PICK row : row = [handler[h] EXCEPT !.pc = pc]
    OBVIOUS
  <2>2. row \in DocHandler /\ row.pc = pc /\ row.copy = handler[h].copy
    BY <1>1, <2>1 DEF DocHandler, DocPcs
  <2>3. handler' = [handler EXCEPT ![h] = row]
    BY <1>6, <2>1 DEF GoesOn
  <2> QED
    BY <1>5, <2>2, <2>3
<1>7. ASSUME Stops(h) PROVE /\ handler' \in [Handlers -> DocHandler] /\ \A g \in Handlers \ {h} : handler'[g] = handler[g]
                            /\ handler'[h].pc = "idle"
  BY <1>4, <1>5, <1>7 DEF Stops
<1> QED
  BY <1>1, <1>2, <1>4, <1>5, <1>6, <1>7

\* What is saved of a row.
LEMMA DocSaves ==
    ASSUME DocTypeOK, NEW h \in Handlers
    PROVE  /\ \A status \in DocStatus : SaveAs(h, status) =>
                /\ extraction' \in DocRow /\ extraction'.status = status
                /\ extraction'.by = handler[h].copy.by /\ extraction'.auto = handler[h].copy.auto
           /\ extraction \in DocRow
<1>1. handler[h].copy \in DocRow /\ extraction \in DocRow
  BY DocMoves DEF DocTypeOK
<1> QED
  BY <1>1 DEF SaveAs, DocRow

\* The agenda is finite, and a task more counts as one.
LEMMA AgendaFinite ==
    ASSUME DocTypeOK
    PROVE  /\ Cardinality(agenda) \in Nat /\ (agenda = {} => Cardinality(agenda) = 0) /\ made \in Nat /\ again \in Nat
           /\ Cardinality(agenda \cup {made + 1}) \in Nat /\ Cardinality(agenda \cup {made + 1}) <= Cardinality(agenda) + 1
           /\ \A set : Cardinality(agenda \ set) <= Cardinality(agenda)
           /\ Cardinality({made + 1}) = 1 /\ Cardinality({}) = 0
<1>1. made \in Nat /\ again \in Nat /\ agenda \subseteq 1 .. made
  BY DocAssumption DEF DocTypeOK
<1>2. IsFiniteSet(1 .. made)
  BY <1>1, FS_Interval
<1>3. IsFiniteSet(agenda)
  BY <1>1, <1>2, FS_Subset
<1>4. Cardinality(agenda) \in Nat
  BY <1>3, FS_CardinalityType
<1>5. Cardinality(agenda \cup {made + 1}) \in Nat /\ Cardinality(agenda \cup {made + 1}) <= Cardinality(agenda) + 1
  <2>1. IsFiniteSet(agenda \cup {made + 1})
    BY <1>3, FS_AddElement
  <2>2. Cardinality(agenda \cup {made + 1}) \in Nat
    BY <2>1, FS_CardinalityType
  <2> QED
    BY <1>3, <1>4, <2>2, FS_AddElement
<1>6. \A set : Cardinality(agenda \ set) <= Cardinality(agenda)
  BY <1>3, FS_Subset
<1>7. Cardinality({made + 1}) = 1 /\ Cardinality({}) = 0
  BY FS_Singleton, FS_EmptySet
<1> QED
  BY <1>1, <1>4, <1>5, <1>6, <1>7

\* A handler takes the row up.
LEMMA DocLoads ==
    ASSUME DocTypeOK, DocInv, NEW h \in Handlers, NEW pc \in {"start", "tasks", "undo", "requeue"}, Load(h, pc),
           pc = "start" => Readable,
           pc = "tasks" => extraction.status \in {"review", "confirmed"},
           pc = "undo" => Undoable,
           pc = "requeue" => Reprocessable,
           UNCHANGED <<extraction, level, agenda, made, emitted, confirmed, undone, broken>>, queue' \in Nat,
           again' \in Nat, again' = IF pc = "tasks" /\ extraction.status = "confirmed" THEN again + 1 ELSE again
    PROVE  DocTypeOK' /\ DocInv'
<1>1. PICK row : row = [pc |-> pc, copy |-> extraction]
  OBVIOUS
<1>2. row \in DocHandler /\ row.pc = pc /\ row.copy = extraction
  BY <1>1 DEF DocHandler, DocTypeOK
<1>3. handler' \in [Handlers -> DocHandler] /\ handler'[h] = row /\ \A g \in Handlers \ {h} : handler'[g] = handler[g]
  <2>1. handler' = [handler EXCEPT ![h] = row]
    BY <1>1 DEF Load
  <2> QED
    BY <1>2, <2>1, DocMoves
<1>4. overtaken' \in BOOLEAN /\ loads' \in Nat /\ (~overtaken' => ~overtaken /\ ~Crosses(h, pc))
  <2>1. loads \in Nat /\ loads' = loads + 1 /\ overtaken' = (overtaken \/ Crosses(h, pc))
    BY DEF Load, DocTypeOK
  <2>2. CASE overtaken \/ Crosses(h, pc)
    <3>1. overtaken' = TRUE
      BY <2>1, <2>2
    <3> QED
      BY <2>1, <3>1
  <2>3. CASE ~(overtaken \/ Crosses(h, pc))
    BY <2>1, <2>3
  <2> QED
    BY <2>2, <2>3
<1>5. DocTypeOK'
  BY <1>3, <1>4 DEF DocTypeOK
<1>6. PersonStands'
  BY <1>4 DEF DocInv, PersonStands
<1>7. ~overtaken' => \A g \in Handlers \ {h} : handler[g].pc = "idle"
  <2> SUFFICES ASSUME ~overtaken', NEW g \in Handlers \ {h}, handler[g].pc # "idle" PROVE FALSE
    OBVIOUS
  <2>1. handler[g].pc = "reading" /\ pc # "start"
    BY <1>4 DEF Crosses
  <2>2. extraction.status = "processing"
    BY <1>4, <2>1 DEF DocInv, HeldOK, CopyOK
  <2> QED
    BY <2>1, <2>2 DEF Undoable, Reprocessable
<1>8. HeldOK'
  <2>1. CopyOK(h)'
    BY <1>2, <1>3 DEF CopyOK, Readable, Undoable, Reprocessable
  <2>2. ~overtaken' => \A g \in Handlers \ {h} : CopyOK(g)'
    BY <1>3, <1>7 DEF CopyOK
  <2> QED
    BY <1>2, <1>3, <1>4, <1>7, <2>1, <2>2 DEF DocInv, HeldOK
<1>9. AgendaOK'
  <2> SUFFICES ASSUME ~overtaken', ~broken PROVE AgendaOK'
    BY DEF AgendaOK
  <2>1. \A g \in Handlers : g # h => handler[g].pc = "idle" /\ handler'[g].pc = "idle"
    BY <1>3, <1>7
  <2>2. /\ handler[h].pc = "idle" /\ handler'[h].pc = pc /\ ~overtaken
    BY <1>2, <1>3, <1>4 DEF Load
  <2>3. /\ extraction.status # "confirmed" => agenda = {}
        /\ Undoable => agenda = extraction.auto
        /\ Cardinality(agenda) <= again + 1
    BY <2>1, <2>2 DEF DocInv, AgendaOK
  <2>4. pc = "tasks" => Cardinality(agenda) <= again'
    BY <2>3, AgendaFinite
  <2>5. Cardinality(agenda) <= again' + 1
    BY <2>3, AgendaFinite
  <2> QED
    BY <2>1, <2>2, <2>3, <2>4, <2>5 DEF AgendaOK, Undoable
<1> QED
  BY <1>5, <1>6, <1>8, <1>9 DEF DocInv

LEMMA DocTakesStep ==
    ASSUME DocTypeOK, DocInv, NEW h \in Handlers, Take(h) \/ AskConfirm(h) \/ AskUndo(h) \/ AskReprocess(h)
    PROVE  DocTypeOK' /\ DocInv'
<1>0. queue \in Nat /\ again \in Nat
  BY DEF DocTypeOK
<1>1. CASE Take(h)
  <2>1. queue' \in Nat /\ UNCHANGED <<extraction, level, agenda, made, emitted, confirmed, again, undone, broken>>
    BY <1>0, <1>1 DEF Take
  <2>2. CASE Readable /\ Load(h, "start")
    BY <1>0, <2>1, <2>2, DocLoads
  <2>3. CASE UNCHANGED <<handler, loads, overtaken>>
    <3>1. DocTypeOK'
      BY <2>1, <2>3 DEF DocTypeOK
    <3>2. PersonStands' /\ HeldOK' /\ AgendaOK'
      BY <2>1, <2>3 DEF DocInv, PersonStands, HeldOK, CopyOK, AgendaOK, Undoable, Reprocessable
    <3> QED
      BY <3>1, <3>2 DEF DocInv
  <2> QED
    BY <1>1, <2>2, <2>3 DEF Take
<1>2. CASE AskConfirm(h)
  BY <1>0, <1>2, DocLoads DEF AskConfirm
<1>3. CASE AskUndo(h)
  BY <1>0, <1>3, DocLoads DEF AskUndo
<1>4. CASE AskReprocess(h)
  BY <1>0, <1>4, DocLoads DEF AskReprocess
<1> QED
  BY <1>1, <1>2, <1>3, <1>4

\* A step of a handler that has taken the row up: what was known before it ...
LEMMA DocAlone ==
    ASSUME DocTypeOK, DocInv, NEW h \in Handlers, handler[h].pc # "idle", overtaken' = overtaken,
           \A g \in Handlers \ {h} : handler'[g] = handler[g]
    PROVE  ~overtaken' =>
             /\ ~overtaken /\ CopyOK(h)
             /\ \A g \in Handlers : g # h => handler[g].pc = "idle" /\ handler'[g].pc = "idle"
             /\ extraction.status # "confirmed" => ~confirmed /\ extraction.by = "nobody" /\ (broken \/ emitted <= undone)
             /\ extraction.by = "nobody" => ~confirmed
             /\ (broken \/ emitted <= undone + 1)
BY DEF DocInv, HeldOK, PersonStands

\* ... and what has to be shown after it.
LEMMA DocCloses ==
    ASSUME NEW h \in Handlers, overtaken' = overtaken,
           ~overtaken' =>
             /\ \A g \in Handlers : g # h => handler'[g].pc = "idle"
             /\ CopyOK(h)'
             /\ extraction'.status # "confirmed" => extraction'.by = "nobody" /\ (broken' \/ emitted' <= undone')
             /\ (broken' \/ emitted' <= undone' + 1)
    PROVE  HeldOK'
<1> SUFFICES ASSUME ~overtaken' PROVE HeldOK'
  BY DEF HeldOK
<1>1. \A f, g \in Handlers : f = g \/ handler'[f].pc = "idle" \/ handler'[g].pc = "idle"
  OBVIOUS
<1>2. ASSUME NEW g \in Handlers PROVE CopyOK(g)'
  <2>1. CASE g = h
    BY <2>1
  <2>2. CASE g # h
    BY <2>2 DEF CopyOK
  <2> QED
    BY <2>1, <2>2
<1> QED
  BY <1>1, <1>2 DEF HeldOK

\* A reading saves what it read, and goes on or ends.
LEMMA ReadingSaves ==
    ASSUME DocTypeOK, DocInv, NEW h \in Handlers, NEW status \in DocStatus \ {"confirmed"},
           handler[h].pc \in {"start", "reading"}, SaveAs(h, status),
           \/ status = "processing" /\ GoesOn(h, "reading")
           \/ status = "review" /\ (GoesOn(h, "autoTasks") \/ GoesOn(h, "fails"))
           \/ Stops(h),
           UNCHANGED <<queue, level, agenda, made, loads, emitted, confirmed, again, undone, overtaken, broken>>
    PROVE  DocTypeOK' /\ DocInv'
<1>1. /\ handler' \in [Handlers -> DocHandler] /\ \A g \in Handlers \ {h} : handler'[g] = handler[g]
      /\ \/ status = "processing" /\ handler'[h].pc = "reading" /\ handler'[h].copy = handler[h].copy
         \/ status = "review" /\ handler'[h].pc \in {"autoTasks", "fails"} /\ handler'[h].copy = handler[h].copy
         \/ handler'[h].pc = "idle"
  BY DocMoves DEF DocPcs
<1>2. /\ extraction' \in DocRow /\ extraction'.status = status /\ extraction'.by = handler[h].copy.by
      /\ extraction \in DocRow
  BY DocSaves
<1>3. DocTypeOK'
  BY <1>1, <1>2 DEF DocTypeOK
<1>4. ~overtaken' =>
        /\ ~overtaken /\ CopyOK(h)
        /\ \A g \in Handlers : g # h => handler[g].pc = "idle" /\ handler'[g].pc = "idle"
        /\ extraction.status # "confirmed" => ~confirmed /\ extraction.by = "nobody" /\ (broken \/ emitted <= undone)
        /\ (broken \/ emitted <= undone + 1)
  BY <1>1, DocAlone
<1>5. ~overtaken' => extraction.status # "confirmed" /\ extraction'.by = extraction.by /\ extraction.by = "nobody"
  BY <1>2, <1>4 DEF CopyOK
<1>6. PersonStands'
  BY <1>4, <1>5 DEF PersonStands
<1>7. ~overtaken' => CopyOK(h)'
  BY <1>1, <1>2, <1>5 DEF CopyOK
<1>8. HeldOK'
  BY <1>1, <1>4, <1>5, <1>7, DocCloses
<1>9. AgendaOK'
  <2> SUFFICES ASSUME ~overtaken', ~broken' PROVE AgendaOK'
    BY DEF AgendaOK
  <2>1. agenda = {} /\ Cardinality(agenda) <= again + 1
    BY <1>4, <1>5 DEF DocInv, AgendaOK
  <2>2. \A g \in Handlers : handler'[g].pc \in {"idle", "reading", "autoTasks", "fails"}
    BY <1>1, <1>4
  <2> QED
    BY <1>2, <2>1, <2>2 DEF AgendaOK, Undoable
<1> QED
  BY <1>3, <1>6, <1>8, <1>9 DEF DocInv

LEMMA ReadingStep ==
    ASSUME DocTypeOK, DocInv, NEW h \in Handlers, StartReading(h) \/ FinishReading(h) \/ StopReading(h)
    PROVE  DocTypeOK' /\ DocInv'
<1>1. CASE StartReading(h)
  BY <1>1, ReadingSaves DEF StartReading, DocStatus
<1>2. CASE FinishReading(h)
  BY <1>2, ReadingSaves DEF FinishReading, DocStatus
<1>3. CASE StopReading(h)
  <2>1. PICK status \in {"skipped", "failed"} : SaveAs(h, status)
    BY <1>3 DEF StopReading
  <2>2. status \in DocStatus \ {"confirmed"}
    BY DEF DocStatus
  <2> QED
    BY <1>3, <2>1, <2>2, ReadingSaves DEF StopReading
<1> QED
  BY <1>1, <1>2, <1>3

\* The automatic confirmation makes its tasks ...
LEMMA AutoTasksStep ==
    ASSUME DocTypeOK, DocInv, NEW h \in Handlers, AutoTasks(h)
    PROVE  DocTypeOK' /\ DocInv'
<1>1. PICK set : /\ \/ made < MaxTasks /\ made' = made + 1 /\ agenda' = agenda \cup {made + 1} /\ set = {made + 1}
                    \/ set = {} /\ made' = made /\ agenda' = agenda
                 /\ handler' = [handler EXCEPT ![h] = [pc |-> "autoSave", copy |-> [handler[h].copy EXCEPT !.auto = set]]]
  BY DEF AutoTasks
<1>2. /\ handler[h].pc = "autoTasks"
      /\ UNCHANGED <<extraction, queue, level, loads, emitted, confirmed, again, undone, overtaken, broken>>
  BY DEF AutoTasks
<1>3. /\ made \in 0 .. MaxTasks /\ MaxTasks \in Nat /\ agenda \subseteq 1 .. made
      /\ set \subseteq 1 .. MaxTasks /\ made' \in 0 .. MaxTasks /\ agenda' \subseteq 1 .. made'
  <2>1. made \in 0 .. MaxTasks /\ MaxTasks \in Nat /\ agenda \subseteq 1 .. made
    BY DocAssumption DEF DocTypeOK
  <2> QED
    BY <1>1, <2>1
<1>4. PICK copy : copy = handler[h].copy
  OBVIOUS
<1>5. PICK row : row = [pc |-> "autoSave", copy |-> [copy EXCEPT !.auto = set]]
  OBVIOUS
<1>6. copy \in DocRow
  BY <1>4, DocMoves
<1>7. row \in DocHandler /\ row.pc = "autoSave" /\ row.copy.auto = set /\ row.copy.by = copy.by
  BY <1>3, <1>5, <1>6 DEF DocHandler, DocRow
<1>8. handler' \in [Handlers -> DocHandler] /\ handler'[h] = row /\ \A g \in Handlers \ {h} : handler'[g] = handler[g]
  <2>1. handler' = [handler EXCEPT ![h] = row]
    BY <1>1, <1>4, <1>5
  <2> QED
    BY <1>7, <2>1, DocMoves
<1>9. DocTypeOK'
  BY <1>2, <1>3, <1>8 DEF DocTypeOK
<1>10. ~overtaken' =>
        /\ ~overtaken /\ CopyOK(h)
        /\ \A g \in Handlers : g # h => handler[g].pc = "idle" /\ handler'[g].pc = "idle"
        /\ extraction.status # "confirmed" => ~confirmed /\ extraction.by = "nobody" /\ (broken \/ emitted <= undone)
        /\ (broken \/ emitted <= undone + 1)
  BY <1>2, <1>8, DocAlone
<1>11. ~overtaken' => CopyOK(h)' /\ extraction.status = "review"
  BY <1>2, <1>4, <1>7, <1>8, <1>10 DEF CopyOK
<1>12. PersonStands' /\ HeldOK'
  <2>1. PersonStands'
    BY <1>2 DEF PersonStands, DocInv
  <2> QED
    BY <1>2, <1>10, <1>11, <2>1, DocCloses
<1>13. AgendaOK'
  <2> SUFFICES ASSUME ~overtaken', ~broken' PROVE AgendaOK'
    BY DEF AgendaOK
  <2>0. (\A g \in Handlers : handler[g].pc \notin {"autoSave", "confirm"}) /\ extraction.status # "confirmed" => agenda = {}
    BY <1>2, <1>10 DEF DocInv, AgendaOK
  <2>1. agenda = {} /\ agenda' = set
    <3>1. \A g \in Handlers : handler[g].pc \notin {"autoSave", "confirm"}
      BY <1>2, <1>10
    <3> QED
      BY <1>1, <1>11, <2>0, <3>1
  <2>2. again \in Nat /\ Cardinality(agenda') \in 0 .. 1
    <3>1. /\ again \in Nat /\ Cardinality({made + 1}) = 1 /\ Cardinality({}) = 0
      BY AgendaFinite
    <3>2. agenda' = {made + 1} \/ agenda' = {}
      BY <1>1, <2>1
    <3>3. Cardinality(agenda') = 1 \/ Cardinality(agenda') = 0
      BY <3>1, <3>2
    <3> QED
      BY <3>1, <3>3
  <2>3. \A g \in Handlers : g # h => handler'[g].pc = "idle"
    BY <1>10
  <2>4. handler'[h].pc = "autoSave" /\ handler'[h].copy.auto = set
    BY <1>7, <1>8
  <2>5. extraction'.status = "review" /\ again' = again
    BY <1>2, <1>11
  <2>6. Cardinality(agenda') <= again' + 1
    BY <2>2, <2>5
  <2> QED
    BY <2>1, <2>3, <2>4, <2>5, <2>6 DEF AgendaOK, Undoable
<1> QED
  BY <1>9, <1>12, <1>13 DEF DocInv

\* ... and saves, or fails after them, before the save or after it.
LEMMA AutoSaveStep ==
    ASSUME DocTypeOK, DocInv, NEW h \in Handlers, AutoSave(h)
    PROVE  DocTypeOK' /\ DocInv'
<1>1. PICK status \in {"confirmed", "failed"} :
        /\ SaveAs(h, status)
        /\ \/ status = "confirmed" /\ emitted' = emitted + 1 /\ broken' = broken /\ Stops(h)
           \/ status = "confirmed" /\ emitted' \in {emitted, emitted + 1} /\ broken' = TRUE /\ GoesOn(h, "fails")
           \/ status = "failed" /\ emitted' = emitted /\ broken' = TRUE /\ Stops(h)
  BY DEF AutoSave
<1>2. /\ handler[h].pc = "autoSave"
      /\ UNCHANGED <<queue, level, agenda, made, loads, confirmed, again, undone, overtaken>>
  BY DEF AutoSave
<1>3. /\ extraction' \in DocRow /\ extraction'.status = status /\ extraction'.by = handler[h].copy.by
      /\ extraction'.auto = handler[h].copy.auto
  BY <1>1, DocSaves DEF DocStatus
<1>4. /\ handler' \in [Handlers -> DocHandler] /\ \A g \in Handlers \ {h} : handler'[g] = handler[g]
      /\ \/ handler'[h].pc = "idle"
         \/ handler'[h].pc = "fails" /\ handler'[h].copy = handler[h].copy /\ broken' = TRUE
  BY <1>1, DocMoves DEF DocPcs
<1>5. emitted \in Nat /\ undone \in Nat /\ emitted' \in Nat /\ broken' \in BOOLEAN
  <2>1. emitted \in Nat /\ undone \in Nat /\ broken \in BOOLEAN
    BY DEF DocTypeOK
  <2>2. emitted' \in {emitted, emitted + 1} /\ (broken' = broken \/ broken' = TRUE)
    BY <1>1
  <2>3. broken' \in BOOLEAN
    BY <2>1, <2>2, Zenon
  <2> QED
    BY <2>1, <2>2, <2>3
<1>6. DocTypeOK'
  BY <1>2, <1>3, <1>4, <1>5 DEF DocTypeOK
<1>7. ~overtaken' =>
        /\ ~overtaken /\ CopyOK(h)
        /\ \A g \in Handlers : g # h => handler[g].pc = "idle" /\ handler'[g].pc = "idle"
        /\ extraction.status # "confirmed" => ~confirmed /\ extraction.by = "nobody" /\ (broken \/ emitted <= undone)
        /\ (broken \/ emitted <= undone + 1)
  BY <1>2, <1>4, DocAlone
<1>8. ~overtaken' => extraction'.by = "nobody" /\ ~confirmed /\ (broken \/ emitted <= undone)
  BY <1>2, <1>3, <1>7 DEF CopyOK
<1>9. PersonStands'
  BY <1>2, <1>8 DEF PersonStands
<1>10. HeldOK'
  <2>1. ~overtaken' => CopyOK(h)'
    BY <1>3, <1>4, <1>8 DEF CopyOK
  <2>2. ~overtaken' => /\ extraction'.status # "confirmed" => extraction'.by = "nobody" /\ (broken' \/ emitted' <= undone')
                       /\ (broken' \/ emitted' <= undone' + 1)
    <3>1. broken' = TRUE \/ (broken' = broken /\ emitted' = emitted + 1 /\ extraction'.status = "confirmed")
      BY <1>1, <1>3
    <3>2. CASE broken' = TRUE
      BY <1>8, <3>2
    <3>3. CASE broken' = broken /\ emitted' = emitted + 1 /\ extraction'.status = "confirmed"
      <4>1. emitted <= undone => emitted' <= undone' + 1
        BY <1>2, <1>5, <3>3
      <4> QED
        BY <1>8, <3>3, <4>1
    <3> QED
      BY <3>1, <3>2, <3>3
  <2> QED
    BY <1>2, <1>4, <1>7, <2>1, <2>2, DocCloses
<1>11. AgendaOK'
  <2> SUFFICES ASSUME ~overtaken', ~broken' PROVE AgendaOK'
    BY DEF AgendaOK
  <2>1. status = "confirmed" /\ ~broken /\ handler'[h].pc = "idle"
    BY <1>1, <1>4
  <2>2. agenda = handler[h].copy.auto /\ Cardinality(agenda) <= again + 1
    BY <1>2, <1>7, <2>1 DEF DocInv, AgendaOK
  <2>3. \A g \in Handlers : handler'[g].pc = "idle"
    BY <1>7, <2>1
  <2> QED
    BY <1>2, <1>3, <2>1, <2>2, <2>3 DEF AgendaOK
<1> QED
  BY <1>6, <1>9, <1>10, <1>11 DEF DocInv

\* A reading that failed after its save says so over the row.
LEMMA FailReadingStep ==
    ASSUME DocTypeOK, DocInv, NEW h \in Handlers, FailReading(h)
    PROVE  DocTypeOK' /\ DocInv'
<1>1. /\ handler[h].pc = "fails" /\ SaveAs(h, "failed") /\ Stops(h)
      /\ UNCHANGED <<queue, level, agenda, made, loads, emitted, confirmed, again, undone, overtaken, broken>>
  BY DEF FailReading
<1>2. extraction' \in DocRow /\ extraction'.status = "failed" /\ extraction'.by = handler[h].copy.by
  BY <1>1, DocSaves DEF DocStatus
<1>3. /\ handler' \in [Handlers -> DocHandler] /\ \A g \in Handlers \ {h} : handler'[g] = handler[g]
      /\ handler'[h].pc = "idle"
  BY <1>1, DocMoves
<1>4. DocTypeOK'
  BY <1>1, <1>2, <1>3 DEF DocTypeOK
<1>5. ~overtaken' =>
        /\ ~overtaken /\ CopyOK(h)
        /\ \A g \in Handlers : g # h => handler[g].pc = "idle" /\ handler'[g].pc = "idle"
        /\ extraction.status # "confirmed" => ~confirmed /\ extraction.by = "nobody" /\ (broken \/ emitted <= undone)
        /\ extraction.by = "nobody" => ~confirmed
        /\ (broken \/ emitted <= undone + 1)
  BY <1>1, <1>3, DocAlone
<1>6. ~overtaken' => extraction'.by = "nobody" /\ ~confirmed /\ (broken \/ extraction.status = "review")
  BY <1>1, <1>2, <1>5 DEF CopyOK
<1>7. PersonStands'
  BY <1>1, <1>6 DEF PersonStands
<1>8. HeldOK'
  <2>1. ~overtaken' => CopyOK(h)'
    BY <1>3 DEF CopyOK
  <2>2. ~overtaken' => (broken \/ emitted <= undone) /\ (broken \/ emitted <= undone + 1)
    BY <1>5, <1>6
  <2> QED
    BY <1>1, <1>2, <1>3, <1>5, <1>6, <2>1, <2>2, DocCloses
<1>9. AgendaOK'
  <2> SUFFICES ASSUME ~overtaken', ~broken' PROVE AgendaOK'
    BY DEF AgendaOK
  <2>1. agenda = {} /\ Cardinality(agenda) <= again + 1
    BY <1>1, <1>5, <1>6 DEF DocInv, AgendaOK
  <2>2. \A g \in Handlers : handler'[g].pc = "idle"
    BY <1>3, <1>5
  <2> QED
    BY <1>1, <1>2, <2>1, <2>2 DEF AgendaOK, Undoable
<1> QED
  BY <1>4, <1>7, <1>8, <1>9 DEF DocInv

\* The person's confirmation makes its tasks ...
LEMMA MakeTasksStep ==
    ASSUME DocTypeOK, DocInv, NEW h \in Handlers, MakeTasks(h)
    PROVE  DocTypeOK' /\ DocInv'
<1>1. \/ made < MaxTasks /\ made' = made + 1 /\ agenda' = agenda \cup {made + 1}
      \/ made' = made /\ agenda' = agenda
  BY DEF MakeTasks
<1>2. /\ handler[h].pc = "tasks" /\ GoesOn(h, "confirm")
      /\ UNCHANGED <<extraction, queue, level, loads, emitted, confirmed, again, undone, overtaken, broken>>
  BY DEF MakeTasks
<1>3. made' \in 0 .. MaxTasks /\ agenda' \subseteq 1 .. made'
  <2>1. made \in 0 .. MaxTasks /\ MaxTasks \in Nat /\ agenda \subseteq 1 .. made
    BY DocAssumption DEF DocTypeOK
  <2>2. CASE made < MaxTasks /\ made' = made + 1 /\ agenda' = agenda \cup {made + 1}
    <3>1. made' \in 0 .. MaxTasks
      BY <2>1, <2>2
    <3>2. \A t \in agenda' : t \in 1 .. made'
      BY <2>1, <2>2
    <3> QED
      BY <3>1, <3>2
  <2> QED
    BY <1>1, <2>1, <2>2
<1>4. /\ handler' \in [Handlers -> DocHandler] /\ \A g \in Handlers \ {h} : handler'[g] = handler[g]
      /\ handler'[h].pc = "confirm" /\ handler'[h].copy = handler[h].copy
  BY <1>2, DocMoves DEF DocPcs
<1>5. DocTypeOK'
  BY <1>2, <1>3, <1>4 DEF DocTypeOK
<1>6. ~overtaken' =>
        /\ ~overtaken /\ CopyOK(h)
        /\ \A g \in Handlers : g # h => handler[g].pc = "idle" /\ handler'[g].pc = "idle"
        /\ extraction.status # "confirmed" => ~confirmed /\ extraction.by = "nobody" /\ (broken \/ emitted <= undone)
        /\ (broken \/ emitted <= undone + 1)
  BY <1>2, <1>4, DocAlone
<1>7. PersonStands' /\ HeldOK'
  <2>1. PersonStands'
    BY <1>2 DEF PersonStands, DocInv
  <2>2. ~overtaken' => CopyOK(h)'
    BY <1>2, <1>4, <1>6 DEF CopyOK
  <2> QED
    BY <1>2, <1>4, <1>6, <2>1, <2>2, DocCloses
<1>8. AgendaOK'
  <2> SUFFICES ASSUME ~overtaken', ~broken' PROVE AgendaOK'
    BY DEF AgendaOK
  <2>1. Cardinality(agenda) <= again
    BY <1>2, <1>6 DEF DocInv, AgendaOK
  <2>2. Cardinality(agenda) \in Nat /\ again \in Nat /\ Cardinality(agenda \cup {made + 1}) <= Cardinality(agenda) + 1
        /\ Cardinality(agenda \cup {made + 1}) \in Nat
    BY AgendaFinite
  <2>3. Cardinality(agenda') <= again + 1
    <3>1. CASE agenda' = agenda \cup {made + 1}
      BY <2>1, <2>2, <3>1
    <3>2. CASE agenda' = agenda
      BY <2>1, <2>2, <3>2
    <3> QED
      BY <1>1, <3>1, <3>2
  <2>4. \A g \in Handlers : g # h => handler'[g].pc = "idle"
    BY <1>6
  <2>5. again' = again
    BY <1>2
  <2> QED
    BY <1>4, <2>3, <2>4, <2>5 DEF AgendaOK
<1> QED
  BY <1>5, <1>7, <1>8 DEF DocInv

\* ... and saves.
LEMMA ConfirmStep ==
    ASSUME DocTypeOK, DocInv, NEW h \in Handlers, ConfirmReading(h)
    PROVE  DocTypeOK' /\ DocInv'
<1>1. /\ handler[h].pc = "confirm" /\ extraction' = Confirms(handler[h].copy) /\ Stops(h) /\ confirmed' = TRUE
      /\ emitted' = IF handler[h].copy.status = "confirmed" THEN emitted ELSE emitted + 1
      /\ UNCHANGED <<queue, level, agenda, made, loads, again, undone, overtaken, broken>>
  BY DEF ConfirmReading
<1>2. extraction' \in DocRow /\ extraction'.status = "confirmed" /\ extraction'.by = "person"
  <2>1. handler[h].copy \in DocRow
    BY DocMoves
  <2> QED
    BY <1>1, <2>1 DEF Confirms, DocRow, DocStatus
<1>3. /\ handler' \in [Handlers -> DocHandler] /\ \A g \in Handlers \ {h} : handler'[g] = handler[g]
      /\ handler'[h].pc = "idle"
  BY <1>1, DocMoves
<1>4. emitted \in Nat /\ undone \in Nat /\ emitted' \in Nat
  BY <1>1 DEF DocTypeOK
<1>5. DocTypeOK'
  BY <1>1, <1>2, <1>3, <1>4 DEF DocTypeOK
<1>6. ~overtaken' =>
        /\ ~overtaken /\ CopyOK(h)
        /\ \A g \in Handlers : g # h => handler[g].pc = "idle" /\ handler'[g].pc = "idle"
        /\ extraction.status # "confirmed" => ~confirmed /\ extraction.by = "nobody" /\ (broken \/ emitted <= undone)
        /\ (broken \/ emitted <= undone + 1)
  BY <1>1, <1>3, DocAlone
<1>7. PersonStands'
  BY <1>2 DEF PersonStands
<1>8. HeldOK'
  <2>1. ~overtaken' => CopyOK(h)'
    BY <1>3 DEF CopyOK
  <2>2. ~overtaken' => (broken' \/ emitted' <= undone' + 1)
    BY <1>1, <1>4, <1>6 DEF CopyOK
  <2> QED
    BY <1>1, <1>2, <1>3, <1>6, <2>1, <2>2, DocCloses
<1>9. AgendaOK'
  <2> SUFFICES ASSUME ~overtaken', ~broken' PROVE AgendaOK'
    BY DEF AgendaOK
  <2>1. Cardinality(agenda) <= again + 1
    BY <1>1, <1>6 DEF DocInv, AgendaOK
  <2>2. \A g \in Handlers : handler'[g].pc = "idle"
    BY <1>3, <1>6
  <2> QED
    BY <1>1, <1>2, <2>1, <2>2 DEF AgendaOK, Undoable
<1> QED
  BY <1>5, <1>7, <1>8, <1>9 DEF DocInv

\* An undo deletes the tasks it recorded ...
LEMMA DeleteTasksStep ==
    ASSUME DocTypeOK, DocInv, NEW h \in Handlers, DeleteTasks(h)
    PROVE  DocTypeOK' /\ DocInv'
<1>1. /\ handler[h].pc = "undo" /\ agenda' = agenda \ handler[h].copy.auto /\ GoesOn(h, "undoSave")
      /\ UNCHANGED <<extraction, queue, level, made, loads, emitted, confirmed, again, undone, overtaken, broken>>
  BY DEF DeleteTasks
<1>2. /\ handler' \in [Handlers -> DocHandler] /\ \A g \in Handlers \ {h} : handler'[g] = handler[g]
      /\ handler'[h].pc = "undoSave" /\ handler'[h].copy = handler[h].copy
  BY <1>1, DocMoves DEF DocPcs
<1>3. agenda' \subseteq agenda
  BY <1>1
<1>4. DocTypeOK'
  BY <1>1, <1>2, <1>3 DEF DocTypeOK
<1>5. ~overtaken' =>
        /\ ~overtaken /\ CopyOK(h)
        /\ \A g \in Handlers : g # h => handler[g].pc = "idle" /\ handler'[g].pc = "idle"
        /\ extraction.status # "confirmed" => ~confirmed /\ extraction.by = "nobody" /\ (broken \/ emitted <= undone)
        /\ (broken \/ emitted <= undone + 1)
  BY <1>1, <1>2, DocAlone
<1>6. PersonStands' /\ HeldOK'
  <2>1. PersonStands'
    BY <1>1 DEF PersonStands, DocInv
  <2>2. ~overtaken' => CopyOK(h)'
    BY <1>1, <1>2, <1>5 DEF CopyOK, Undoable
  <2> QED
    BY <1>1, <1>2, <1>5, <2>1, <2>2, DocCloses
<1>7. AgendaOK'
  <2> SUFFICES ASSUME ~overtaken', ~broken' PROVE AgendaOK'
    BY DEF AgendaOK
  <2>1. Undoable /\ handler[h].copy = extraction
    BY <1>1, <1>5 DEF CopyOK
  <2>2. agenda = extraction.auto
    BY <1>1, <1>5, <2>1 DEF DocInv, AgendaOK
  <2>3. agenda' = {}
    BY <1>1, <2>1, <2>2
  <2>4. again \in Nat /\ Cardinality(agenda') = 0 /\ again' = again
    BY <1>1, <2>3, AgendaFinite
  <2>5. \A g \in Handlers : g # h => handler'[g].pc = "idle"
    BY <1>5
  <2>6. Cardinality(agenda') <= again' + 1
    BY <2>4
  <2> QED
    BY <1>1, <1>2, <2>3, <2>5, <2>6 DEF AgendaOK
<1> QED
  BY <1>4, <1>6, <1>7 DEF DocInv

\* ... and the reading goes back to review.
LEMMA UndoSaveStep ==
    ASSUME DocTypeOK, DocInv, NEW h \in Handlers, UndoSave(h)
    PROVE  DocTypeOK' /\ DocInv'
<1>1. /\ handler[h].pc = "undoSave" /\ Stops(h) /\ extraction' = [handler[h].copy EXCEPT !.status = "review", !.auto = {}]
      /\ level' = "review" /\ undone' = undone + 1
      /\ UNCHANGED <<queue, agenda, made, loads, emitted, confirmed, again, overtaken, broken>>
  BY DEF UndoSave
<1>2. extraction' \in DocRow /\ extraction'.status = "review" /\ extraction'.by = handler[h].copy.by
  <2>1. handler[h].copy \in DocRow
    BY DocMoves
  <2> QED
    BY <1>1, <2>1 DEF DocRow, DocStatus
<1>3. /\ handler' \in [Handlers -> DocHandler] /\ \A g \in Handlers \ {h} : handler'[g] = handler[g]
      /\ handler'[h].pc = "idle"
  BY <1>1, DocMoves
<1>4. emitted \in Nat /\ undone \in Nat /\ undone' \in Nat
  BY <1>1 DEF DocTypeOK
<1>5. DocTypeOK'
  BY <1>1, <1>2, <1>3, <1>4 DEF DocTypeOK
<1>6. ~overtaken' =>
        /\ ~overtaken /\ CopyOK(h)
        /\ \A g \in Handlers : g # h => handler[g].pc = "idle" /\ handler'[g].pc = "idle"
        /\ extraction.by = "nobody" => ~confirmed
        /\ (broken \/ emitted <= undone + 1)
  BY <1>1, <1>3, DocAlone
<1>7. ~overtaken' => extraction.by = "nobody" /\ extraction'.by = "nobody"
  BY <1>1, <1>2, <1>6 DEF CopyOK, Undoable
<1>8. PersonStands'
  BY <1>1, <1>6, <1>7 DEF PersonStands
<1>9. HeldOK'
  <2>1. ~overtaken' => CopyOK(h)'
    BY <1>3 DEF CopyOK
  <2>2. ~overtaken' => (broken' \/ emitted' <= undone') /\ (broken' \/ emitted' <= undone' + 1)
    BY <1>1, <1>4, <1>6
  <2> QED
    BY <1>1, <1>3, <1>6, <1>7, <2>1, <2>2, DocCloses
<1>10. AgendaOK'
  <2> SUFFICES ASSUME ~overtaken', ~broken' PROVE AgendaOK'
    BY DEF AgendaOK
  <2>1. agenda = {} /\ Cardinality(agenda) <= again + 1
    BY <1>1, <1>6 DEF DocInv, AgendaOK
  <2>2. \A g \in Handlers : handler'[g].pc = "idle"
    BY <1>3, <1>6
  <2> QED
    BY <1>1, <1>2, <2>1, <2>2 DEF AgendaOK, Undoable
<1> QED
  BY <1>5, <1>8, <1>9, <1>10 DEF DocInv

\* A reading is asked for again.
LEMMA RequeueStep ==
    ASSUME DocTypeOK, DocInv, NEW h \in Handlers, Requeue(h)
    PROVE  DocTypeOK' /\ DocInv'
<1>1. /\ handler[h].pc = "requeue" /\ Stops(h) /\ extraction' = [extraction EXCEPT !.status = "pending"]
      /\ queue' \in {queue, queue + 1}
      /\ UNCHANGED <<level, agenda, made, loads, emitted, confirmed, again, undone, overtaken, broken>>
  BY DEF Requeue
<1>2. extraction' \in DocRow /\ extraction'.status = "pending" /\ extraction'.by = extraction.by /\ queue' \in Nat
  BY <1>1 DEF DocTypeOK, DocRow, DocStatus
<1>3. /\ handler' \in [Handlers -> DocHandler] /\ \A g \in Handlers \ {h} : handler'[g] = handler[g]
      /\ handler'[h].pc = "idle"
  BY <1>1, DocMoves
<1>4. DocTypeOK'
  BY <1>1, <1>2, <1>3 DEF DocTypeOK
<1>5. ~overtaken' =>
        /\ ~overtaken /\ CopyOK(h)
        /\ \A g \in Handlers : g # h => handler[g].pc = "idle" /\ handler'[g].pc = "idle"
        /\ extraction.status # "confirmed" => ~confirmed /\ extraction.by = "nobody" /\ (broken \/ emitted <= undone)
        /\ (broken \/ emitted <= undone + 1)
  BY <1>1, <1>3, DocAlone
<1>6. ~overtaken' => extraction.status # "confirmed"
  BY <1>1, <1>5 DEF CopyOK, Reprocessable
<1>7. PersonStands'
  BY <1>1, <1>5, <1>6 DEF PersonStands
<1>8. HeldOK'
  <2>1. ~overtaken' => CopyOK(h)'
    BY <1>3 DEF CopyOK
  <2> QED
    BY <1>1, <1>2, <1>3, <1>5, <1>6, <2>1, DocCloses
<1>9. AgendaOK'
  <2> SUFFICES ASSUME ~overtaken', ~broken' PROVE AgendaOK'
    BY DEF AgendaOK
  <2>1. agenda = {} /\ Cardinality(agenda) <= again + 1
    BY <1>1, <1>5, <1>6 DEF DocInv, AgendaOK
  <2>2. \A g \in Handlers : handler'[g].pc = "idle"
    BY <1>3, <1>5
  <2> QED
    BY <1>1, <1>2, <2>1, <2>2 DEF AgendaOK, Undoable
<1> QED
  BY <1>4, <1>7, <1>8, <1>9 DEF DocInv

\* A handler dies.
LEMMA DocDiesStep ==
    ASSUME DocTypeOK, DocInv, NEW h \in Handlers, HandlerDies(h)
    PROVE  DocTypeOK' /\ DocInv'
<1>1. /\ handler[h].pc # "idle" /\ Stops(h)
      /\ broken' = (broken \/ handler[h].pc \notin {"start", "reading"})
      /\ UNCHANGED <<extraction, level, agenda, made, loads, emitted, confirmed, again, undone, overtaken>>
  BY DEF HandlerDies
<1>2. queue' \in Nat
  <2>1. queue \in Nat /\ queue' \in {queue, queue + 1}
    BY DEF HandlerDies, DocTypeOK
  <2> QED
    BY <2>1
<1>3. broken' \in BOOLEAN /\ (~broken' => ~broken /\ handler[h].pc \in {"start", "reading"})
  <2>1. CASE broken \/ handler[h].pc \notin {"start", "reading"}
    BY <1>1, <2>1
  <2>2. CASE ~(broken \/ handler[h].pc \notin {"start", "reading"})
    BY <1>1, <2>2
  <2> QED
    BY <2>1, <2>2
<1>4. /\ handler' \in [Handlers -> DocHandler] /\ \A g \in Handlers \ {h} : handler'[g] = handler[g]
      /\ handler'[h].pc = "idle"
  BY <1>1, DocMoves
<1>5. DocTypeOK'
  BY <1>1, <1>2, <1>3, <1>4 DEF DocTypeOK
<1>6. ~overtaken' =>
        /\ ~overtaken /\ CopyOK(h)
        /\ \A g \in Handlers : g # h => handler[g].pc = "idle" /\ handler'[g].pc = "idle"
        /\ extraction.status # "confirmed" => ~confirmed /\ extraction.by = "nobody" /\ (broken \/ emitted <= undone)
        /\ (broken \/ emitted <= undone + 1)
  BY <1>1, <1>4, DocAlone
<1>7. PersonStands' /\ HeldOK'
  <2>1. PersonStands'
    BY <1>1 DEF PersonStands, DocInv
  <2>2. ~overtaken' => CopyOK(h)'
    BY <1>4 DEF CopyOK
  <2> QED
    BY <1>1, <1>3, <1>4, <1>6, <2>1, <2>2, DocCloses
<1>8. AgendaOK'
  <2> SUFFICES ASSUME ~overtaken', ~broken' PROVE AgendaOK'
    BY DEF AgendaOK
  <2>1. extraction.status # "confirmed"
    BY <1>3, <1>6 DEF CopyOK
  <2>2. agenda = {} /\ Cardinality(agenda) <= again + 1
    BY <1>3, <1>6, <2>1 DEF DocInv, AgendaOK
  <2>3. \A g \in Handlers : handler'[g].pc = "idle"
    BY <1>4, <1>6
  <2> QED
    BY <1>1, <2>1, <2>2, <2>3 DEF AgendaOK, Undoable
<1> QED
  BY <1>5, <1>7, <1>8 DEF DocInv

LEMMA DocStep == DocTypeOK /\ DocInv /\ [DocNext]_docVars => DocTypeOK' /\ DocInv'
<1> SUFFICES ASSUME DocTypeOK, DocInv, [DocNext]_docVars PROVE DocTypeOK' /\ DocInv'
  OBVIOUS
<1>1. CASE SetLevel
  <2>1. DocTypeOK'
    BY <1>1 DEF SetLevel, DocTypeOK
  <2>2. PersonStands' /\ HeldOK' /\ AgendaOK'
    BY <1>1 DEF SetLevel, DocInv, PersonStands, HeldOK, CopyOK, AgendaOK, Undoable, Reprocessable
  <2> QED
    BY <2>1, <2>2 DEF DocInv
<1>2. CASE UNCHANGED docVars
  <2>1. DocTypeOK'
    BY <1>2 DEF docVars, DocTypeOK
  <2>2. PersonStands' /\ HeldOK' /\ AgendaOK'
    BY <1>2 DEF docVars, DocInv, PersonStands, HeldOK, CopyOK, AgendaOK, Undoable, Reprocessable
  <2> QED
    BY <2>1, <2>2 DEF DocInv
<1>3. ASSUME NEW h \in Handlers, Take(h) \/ AskConfirm(h) \/ AskUndo(h) \/ AskReprocess(h) PROVE DocTypeOK' /\ DocInv'
  BY <1>3, DocTakesStep
<1>4. ASSUME NEW h \in Handlers, StartReading(h) \/ FinishReading(h) \/ StopReading(h) PROVE DocTypeOK' /\ DocInv'
  BY <1>4, ReadingStep
<1>5. ASSUME NEW h \in Handlers, AutoTasks(h) \/ AutoSave(h) \/ FailReading(h) PROVE DocTypeOK' /\ DocInv'
  BY <1>5, AutoTasksStep, AutoSaveStep, FailReadingStep
<1>6. ASSUME NEW h \in Handlers, MakeTasks(h) \/ ConfirmReading(h) PROVE DocTypeOK' /\ DocInv'
  BY <1>6, MakeTasksStep, ConfirmStep
<1>7. ASSUME NEW h \in Handlers, DeleteTasks(h) \/ UndoSave(h) PROVE DocTypeOK' /\ DocInv'
  BY <1>7, DeleteTasksStep, UndoSaveStep
<1>8. ASSUME NEW h \in Handlers, Requeue(h) \/ HandlerDies(h) PROVE DocTypeOK' /\ DocInv'
  BY <1>8, RequeueStep, DocDiesStep
<1> QED
  BY <1>1, <1>2, <1>3, <1>4, <1>5, <1>6, <1>7, <1>8 DEF DocNext

LEMMA DocInvHolds == DocSpec => [](DocTypeOK /\ DocInv)
<1>1. DocInit => DocTypeOK /\ DocInv
  <2> SUFFICES ASSUME DocInit PROVE DocTypeOK /\ DocInv
    OBVIOUS
  <2>1. NewRow \in DocRow /\ NewRow.status = "pending" /\ NewRow.by = "nobody"
    BY DEF NewRow, DocRow, DocStatus
  <2>2. AtRest \in DocHandler /\ AtRest.pc = "idle"
    BY <2>1 DEF AtRest, DocHandler
  <2>3. handler \in [Handlers -> DocHandler] /\ \A h \in Handlers : handler[h].pc = "idle"
    BY <2>2 DEF DocInit
  <2>4. agenda \subseteq 1 .. made /\ made \in 0 .. MaxTasks /\ extraction = NewRow
    BY DocAssumption DEF DocInit
  <2>5. DocTypeOK
    <3>1. queue \in Nat /\ level \in {"review", "auto"} /\ {loads, emitted, again, undone} \subseteq Nat
      BY DEF DocInit
    <3>2. {confirmed, overtaken, broken} \subseteq BOOLEAN
      BY DEF DocInit
    <3> QED
      BY <2>1, <2>3, <2>4, <3>1, <3>2 DEF DocTypeOK
  <2>6. PersonStands /\ HeldOK
    BY <2>1, <2>3 DEF DocInit, PersonStands, HeldOK, CopyOK
  <2>7. Cardinality(agenda) <= again + 1 /\ agenda = {}
    BY <2>5, AgendaFinite DEF DocInit
  <2>8. AgendaOK
    BY <2>1, <2>3, <2>7 DEF DocInit, AgendaOK, Undoable
  <2> QED
    BY <2>5, <2>6, <2>8 DEF DocInv
<1> QED
  BY <1>1, DocStep, PTL DEF DocSpec

\* A confirmation holds: what a person confirmed is not taken back by a repeated reading, an undo or a worker that comes back,
\* and the tasks in the agenda are those of the confirmation, each told to the rules once (src/documents/pipeline.py:266, 395,
\* 437), whatever the number of handlers, tasks and readings.
THEOREM ConfirmationObeyed == DocSpec => []ConfirmationHolds
<1>1. DocTypeOK /\ DocInv => ConfirmationHolds
  <2> SUFFICES ASSUME DocTypeOK, DocInv PROVE ConfirmationHolds
    OBVIOUS
  <2>1. PersonStands
    BY DEF DocInv
  <2>2. ASSUME ~overtaken, ~broken PROVE emitted <= 1 + undone /\ Cardinality(agenda) <= 1 + again
    <3>1. emitted <= undone + 1 /\ Cardinality(agenda) <= again + 1
      BY <2>2 DEF DocInv, HeldOK, AgendaOK
    <3>2. emitted \in Nat /\ undone \in Nat /\ again \in Nat /\ Cardinality(agenda) \in Nat
      BY AgendaFinite DEF DocTypeOK
    <3> QED
      BY <3>1, <3>2
  <2>3. ASSUME ~overtaken, ~broken, \A h \in Handlers : handler[h].pc \in {"idle", "reading"}, extraction.status # "confirmed"
        PROVE  agenda = {}
    BY <2>3 DEF DocInv, AgendaOK
  <2>4. TasksOfConfirmed
    BY <2>2, <2>3 DEF TasksOfConfirmed
  <2> QED
    BY <2>1, <2>4 DEF ConfirmationHolds
<1> QED
  BY <1>1, DocInvHolds, PTL

-----------------------------------------------------------------------------
(* CalendarSync. *)

\* What each variable may hold.
TaskRow == [date : Dates, done : BOOLEAN, sync : BOOLEAN, here : BOOLEAN]
EventRow == [date : Dates, done : BOOLEAN, live : BOOLEAN, at : Nat]
SeenRow == [id : Nat, event : EventRow]
Pcs == {"idle", "remove", "patch", "patched", "post", "posted", "pulled", "applied"}
SyncRow == [pc : Pcs,
            map : [id : Nat, at : Nat], at : Nat, copy : SUBSET TaskRow, seen : SUBSET SeenRow]
CsRows ==
    /\ task \in TaskRow /\ link \in {"active", "reauth", "none"} /\ map \in [id : Nat, at : Nat]
    /\ token \in Nat /\ clock \in Nat /\ pushes \in Nat
    /\ events \in [Created -> EventRow] /\ \E n \in Nat : Created = 1 .. n
    /\ syncer \in [Syncers -> SyncRow]

\* Nothing is later than now; what a worker holds is of an event there was.
TimesOK ==
    /\ token <= clock /\ map.at <= clock /\ map.id \in Created \cup {0} /\ removals \subseteq Created
    /\ \A id \in Created : events[id].at <= clock
    /\ \A s \in Syncers : syncer[s].at <= clock
SeenOK == \A s \in Syncers : \A e \in syncer[s].seen :
    /\ e.id \in Created /\ (events[e.id].live => e.event.live)
    /\ \A f \in syncer[s].seen : f.id = e.id => f = e
WorkOK == \A s \in Syncers :
    /\ syncer[s].pc \in {"remove", "patch", "patched", "posted"} => syncer[s].map.id \in Created
    /\ At(s, "pulled") => link = "active"
    /\ syncer[s].pc \in {"patch", "post"} => \E t \in TaskRow : syncer[s].copy = {t}

\* Unless two pushed at once to create it, who creates the event is alone, and the task has none meanwhile.
CreatorsOK ==
    ~doubled => \A s \in Syncers :
        /\ Creates(s) => map.id = 0 /\ \A t \in Syncers : Pushing(t) => t = s
        /\ syncer[s].pc \in {"remove", "patch", "patched"} => map.id \in {0, syncer[s].map.id}

Plain == ~crossed /\ ~lost /\ task.here /\ task.sync
OneSyncer == ~crossed => \A s, t \in Syncers : ~Idle(s) /\ ~Idle(t) => s = t
Ours == Plain /\ map.id # 0

\* The event carries the date of the task; it changed after the time t.
Agrees(id) == events[id].live /\ events[id].date = task.date
Later(t) == events[map.id].at > t

\* A removal is of a task that is gone, or not synchronised, or its person left.
RemovalsOK == Plain => removals = {} /\ \A s \in Syncers : ~At(s, "remove")
\* Who pushes has what the task says, or a message still to come has it; who created an event did it after the push began.
PushRow(s) ==
    /\ syncer[s].pc \in {"patch", "patched"} => map.id = syncer[s].map.id
    /\ Creates(s) => map.id = 0
    /\ syncer[s].pc \in {"patch", "post"} => \A t \in syncer[s].copy : t.date = task.date /\ (pushes > 0 \/ t.done = task.done)
    /\ At(s, "patched") => Later(syncer[s].at)
    /\ At(s, "posted") =>
        LET id == syncer[s].map.id IN
        /\ events[id].at > syncer[s].at /\ events[id].at > token
        /\ events[id].live => (pushes > 0 \/ events[id].done = task.done) /\ (raced \/ events[id].date = task.date)
PushOK == Plain => \A s \in Syncers : PushRow(s)
\* Unless a push is due or under way, the event is as done as the task.
DoneOK ==
    Ours => pushes > 0 \/ (\E s \in Syncers : At(s, "patch")) \/ ~events[map.id].live \/ events[map.id].done = task.done
\* Unless the event changed since, a pull brings the date of the event or finds that both agree.
DateRow(s) ==
    /\ At(s, "pulled") =>
        Later(syncer[s].at) \/ Agrees(map.id) \/ [id |-> map.id, event |-> events[map.id]] \in syncer[s].seen
    /\ At(s, "pulled") => \A e \in syncer[s].seen : e.id = map.id /\ events[map.id].live => e.event = events[map.id]
    /\ At(s, "applied") => Later(syncer[s].at) \/ Agrees(map.id)
\* What the person changed in Google is still to be pulled, or both agree; the echo of a push is of the date of the task.
DateOK ==
    Ours /\ ~during =>
        /\ Later(token) \/ Agrees(map.id)
        /\ events[map.id].live /\ ~Later(map.at) => events[map.id].date = task.date
        /\ \A s \in Syncers : DateRow(s)
\* The event has the date the person chose last, and while a push is due so has the task.
WishOK ==
    Ours /\ ~during /\ ~raced /\ events[map.id].live =>
        /\ events[map.id].date = wish
        /\ pushes > 0 \/ (\E s \in Syncers : Pushing(s)) => task.date = wish

CsInv == CsRows /\ TimesOK /\ SeenOK /\ WorkOK /\ OneEvent /\ CreatorsOK /\ OneSyncer /\ RemovalsOK /\ PushOK /\ DoneOK /\ DateOK /\ WishOK

\* What a worker holds after it moves on, rests or takes a push.
LEMMA Goings ==
    ASSUME CsRows, NEW s \in Syncers, NEW pc \in Pcs, Goes(s, pc)
    PROVE  /\ syncer' \in [Syncers -> SyncRow] /\ (\A t \in Syncers \ {s} : syncer'[t] = syncer[t])
           /\ syncer'[s].pc = pc /\ syncer'[s].map = syncer[s].map /\ syncer'[s].at = syncer[s].at
           /\ syncer'[s].copy = syncer[s].copy /\ syncer'[s].seen = syncer[s].seen
<1> DEFINE next == [syncer[s] EXCEPT !.pc = pc]
<1>1. next \in SyncRow /\ next.pc = pc /\ next.map = syncer[s].map /\ next.at = syncer[s].at
      /\ next.copy = syncer[s].copy /\ next.seen = syncer[s].seen
  BY DEF CsRows, SyncRow
<1>2. syncer' = [syncer EXCEPT ![s] = next]
  BY DEF Goes
<1> HIDE DEF next
<1> QED
  BY <1>1, <1>2 DEF CsRows

LEMMA Restings ==
    ASSUME CsRows, NEW s \in Syncers, Rests(s)
    PROVE  /\ syncer' \in [Syncers -> SyncRow] /\ (\A t \in Syncers \ {s} : syncer'[t] = syncer[t])
           /\ syncer'[s].pc = "idle" /\ syncer'[s].at = 0 /\ syncer'[s].seen = {}
<1>1. Free \in SyncRow /\ Free.pc = "idle" /\ Free.at = 0 /\ Free.seen = {}
  BY DEF Free, NoEvent, SyncRow, Pcs
<1> QED
  BY <1>1 DEF Rests, CsRows

LEMMA Takings ==
    ASSUME CsRows, NEW s \in Syncers, NEW pc \in Pcs, Takes(s, pc)
    PROVE  /\ syncer' \in [Syncers -> SyncRow] /\ (\A t \in Syncers \ {s} : syncer'[t] = syncer[t])
           /\ syncer'[s].pc = pc /\ syncer'[s].map = map /\ syncer'[s].at = clock
           /\ syncer'[s].copy = {task} /\ syncer'[s].seen = {}
<1> DEFINE next == [pc |-> pc, map |-> map, at |-> clock, copy |-> {task}, seen |-> {}]
<1>1. next \in SyncRow /\ next.pc = pc /\ next.map = map /\ next.at = clock /\ next.copy = {task} /\ next.seen = {}
  BY DEF CsRows, SyncRow
<1>2. syncer' = [syncer EXCEPT ![s] = next]
  BY DEF Takes
<1> HIDE DEF next
<1> QED
  BY <1>1, <1>2 DEF CsRows

\* The events a pull has seen, and the event a push creates.
LEMMA Pullings ==
    ASSUME CsRows, NEW s \in Syncers, PullEvents(s)
    PROVE  /\ syncer' \in [Syncers -> SyncRow] /\ (\A t \in Syncers \ {s} : syncer'[t] = syncer[t])
           /\ syncer'[s].pc = "pulled" /\ syncer'[s].at = clock
           /\ \A e : e \in syncer'[s].seen <=> \E i \in Created : events[i].at > token /\ e = [id |-> i, event |-> events[i]]
<1> DEFINE S == {[id |-> id, event |-> events[id]] : id \in {i \in Created : events[i].at > token}}
           next == [Free EXCEPT !.pc = "pulled", !.at = clock, !.seen = S]
<1>1. S \subseteq SeenRow
  BY DEF CsRows, SeenRow
<1>2. \A e : e \in S <=> \E i \in Created : events[i].at > token /\ e = [id |-> i, event |-> events[i]]
  OBVIOUS
<1>3. syncer' = [syncer EXCEPT ![s] = next]
  BY DEF PullEvents
<1> HIDE DEF S
<1>4. next \in SyncRow /\ next.pc = "pulled" /\ next.at = clock /\ next.seen = S
  BY <1>1 DEF CsRows, Free, NoEvent, SyncRow, Pcs
<1> HIDE DEF next
<1> QED
  BY <1>2, <1>3, <1>4 DEF CsRows

LEMMA Postings ==
    ASSUME CsRows, TimesOK, WorkOK, NEW s \in Syncers, PostEvent(s)
    PROVE  \E id \in Nat \ {0} :
           /\ id \notin Created /\ Created' = Created \cup {id} /\ (\E n \in Nat : Created' = 1 .. n)
           /\ events' \in [Created' -> EventRow] /\ (\A i \in Created : events'[i] = events[i])
           /\ \E t \in syncer[s].copy : events'[id] = Body(t)
           /\ syncer' \in [Syncers -> SyncRow] /\ (\A t \in Syncers \ {s} : syncer'[t] = syncer[t])
           /\ syncer'[s].pc = "posted" /\ syncer'[s].map.id = id /\ syncer'[s].at = syncer[s].at
           /\ syncer'[s].copy = syncer[s].copy /\ syncer'[s].seen = syncer[s].seen
<1>1. PICK n \in Nat : Created = 1 .. n
  BY DEF CsRows
<1>2. Cardinality(Created) = n
  BY <1>1, FS_Interval
<1>3. PICK id \in Nat \ {0} : id = n + 1
  BY <1>1
<1>4. id \notin Created /\ Created \cup {id} = 1 .. id
  BY <1>1, <1>3
<1>5. PICK mine \in syncer[s].copy : events' = [i \in Created \cup {id} |-> IF i = id THEN Body(mine) ELSE events[i]]
  BY <1>2, <1>3 DEF PostEvent
<1>6. mine \in TaskRow /\ Body(mine) \in EventRow
  BY DEF CsRows, SyncRow, TaskRow, EventRow, Body
<1>7. Created' = Created \cup {id}
  BY <1>5 DEF Created
<1>8. events' \in [Created' -> EventRow] /\ (\A i \in Created : events'[i] = events[i]) /\ events'[id] = Body(mine)
  <2>1. \A i \in Created : events[i] \in EventRow
    BY DEF CsRows
  <2> HIDE DEF Created
  <2> QED
    BY <2>1, <1>4, <1>5, <1>6, <1>7
<1>9. syncer' = [syncer EXCEPT ![s].pc = "posted", ![s].map.id = id]
  BY <1>2, <1>3 DEF PostEvent
<1>10. /\ syncer' \in [Syncers -> SyncRow] /\ (\A t \in Syncers \ {s} : syncer'[t] = syncer[t])
       /\ syncer'[s].pc = "posted" /\ syncer'[s].map.id = id /\ syncer'[s].at = syncer[s].at
       /\ syncer'[s].copy = syncer[s].copy /\ syncer'[s].seen = syncer[s].seen
  BY <1>9 DEF CsRows, SyncRow, Pcs
<1> QED
  BY <1>4, <1>5, <1>7, <1>8, <1>10

LEMMA Writings ==
    ASSUME CsRows, NEW i \in Created, NEW row \in EventRow, events' = [events EXCEPT ![i] = row]
    PROVE  Created' = Created /\ events' \in [Created' -> EventRow] /\ events'[i] = row /\ \A j \in Created \ {i} : events'[j] = events[j]
<1>1. Created' = Created
  BY DEF Created, CsRows
<1> HIDE DEF Created
<1> QED
  BY <1>1 DEF CsRows

\* What a removal does to an event: nothing, or it kills it now.
LEMMA Killings ==
    ASSUME CsRows, NEW i, Removes(i)
    PROVE  /\ Created' = Created /\ events' \in [Created' -> EventRow] /\ clock' \in Nat /\ (parted => parted')
           /\ \A j \in Created \ {i} : events'[j] = events[j]
           /\ ~parted' => ~Live(i)'
           /\ \A j \in Created : \/ events'[j] = events[j] /\ clock <= clock'
                                 \/ events'[j].at = clock + 1 /\ clock' = clock + 1 /\ ~events'[j].live
<1>1. CASE link = "active" /\ Live(i)
  <2>1. i \in Created /\ clock' = clock + 1 /\ events' = [events EXCEPT ![i].live = FALSE, ![i].at = clock + 1] /\ UNCHANGED parted
    BY <1>1 DEF Removes, Live, Tick
  <2> DEFINE row == [events[i] EXCEPT !.live = FALSE, !.at = clock + 1]
  <2>2. clock \in Nat /\ events[i] \in EventRow
    BY <2>1 DEF CsRows
  <2>3. row \in EventRow /\ ~row.live /\ row.at = clock + 1
    <3>1. clock + 1 \in Nat
      BY <2>2
    <3>2. row \in EventRow
      BY <2>2, <3>1 DEF EventRow
    <3>3. ~row.live
      BY <2>2 DEF EventRow
    <3>4. row.at = clock + 1
      BY <2>2 DEF EventRow
    <3> QED
      BY <3>2, <3>3, <3>4
  <2>4. events' = [events EXCEPT ![i] = row]
    BY <2>1
  <2> HIDE DEF row
  <2>5. /\ Created' = Created /\ events' \in [Created' -> EventRow] /\ events'[i] = row
        /\ \A j \in Created \ {i} : events'[j] = events[j]
    BY <2>1, <2>3, <2>4, Writings
  <2>6. ~Live(i)' /\ clock' \in Nat /\ (parted => parted')
    BY <2>1, <2>2, <2>3, <2>5 DEF Live
  <2> QED
    BY <2>1, <2>2, <2>3, <2>5, <2>6
<1>2. CASE link = "active" /\ ~Live(i)
  <2>1. clock' = clock + 1 /\ UNCHANGED <<events, parted>> /\ clock \in Nat
    BY <1>2 DEF Removes, Tick, CsRows
  <2> QED
    BY <1>2, <2>1 DEF CsRows, Created, Live
<1>3. CASE link # "active"
  <2>1. UNCHANGED <<events, clock>> /\ clock \in Nat /\ (parted => parted') /\ (~parted' => ~Live(i))
    BY <1>3 DEF Removes, CsRows
  <2>2. Created' = Created /\ (~parted' => ~Live(i)')
    BY <2>1 DEF Created, Live
  <2> QED
    BY <2>1, <2>2 DEF CsRows
<1> QED
  BY <1>1, <1>2, <1>3 DEF CsRows

LEMMA EventsMove ==
    ASSUME CsRows, TimesOK, WorkOK, CsNext
    PROVE  /\ clock \in Nat /\ clock' \in Nat /\ clock <= clock'
           /\ Created \subseteq Created' /\ events' \in [Created' -> EventRow] /\ \E n \in Nat : Created' = 1 .. n
           /\ \A i \in Created : /\ events'[i].live => events[i].live
                                 /\ events'[i] = events[i] \/ (events'[i].at = clock + 1 /\ clock' = clock + 1)
           /\ \A i \in Created' \ Created : events'[i].at = clock + 1 /\ clock' = clock + 1
<1>0. clock \in Nat /\ events \in [Created -> EventRow] /\ \E n \in Nat : Created = 1 .. n
  BY DEF CsRows
<1>1. CASE UNCHANGED events /\ UNCHANGED clock
  BY <1>0, <1>1 DEF Created
<1>2. CASE UNCHANGED events /\ clock' = clock + 1
  BY <1>0, <1>2 DEF Created
<1>3. CASE \E i \in Created : \E row \in EventRow :
               /\ events' = [events EXCEPT ![i] = row] /\ (row.live => events[i].live)
               /\ row.at = clock + 1 /\ clock' = clock + 1
  <2>1. PICK i \in Created, row \in EventRow :
            /\ events' = [events EXCEPT ![i] = row] /\ (row.live => events[i].live)
            /\ row.at = clock + 1 /\ clock' = clock + 1
    BY <1>3
  <2>2. Created' = Created /\ events' \in [Created' -> EventRow] /\ events'[i] = row /\ \A j \in Created \ {i} : events'[j] = events[j]
    BY <2>1, Writings
  <2> QED
    BY <1>0, <2>1, <2>2
<1>4. CASE \E i : Removes(i)
  <2>1. PICK i : Removes(i)
    BY <1>4
  <2>2. /\ Created' = Created /\ events' \in [Created' -> EventRow] /\ clock' \in Nat
        /\ \A j \in Created : \/ events'[j] = events[j] /\ clock <= clock'
                              \/ events'[j].at = clock + 1 /\ clock' = clock + 1 /\ ~events'[j].live
    BY <2>1, Killings
  <2>3. clock <= clock'
    BY <2>1 DEF Removes, Tick, CsRows
  <2> QED
    BY <1>0, <2>2, <2>3
<1>5. CASE \E s \in Syncers : PostEvent(s)
  <2>1. PICK s \in Syncers : PostEvent(s)
    BY <1>5
  <2>2. clock' = clock + 1
    BY <2>1 DEF PostEvent, Tick
  <2>3. \A t : Body(t).at = clock + 1
    BY DEF Body
  <2> QED
    BY <1>0, <2>1, <2>2, <2>3, Postings
<1>6. ASSUME MoveEvent \/ DropEvent PROVE <1>3!1
  <2>1. CASE MoveEvent
    <3>1. PICK id \in Created, d \in Dates : Live(id) /\ clock' = clock + 1 /\ events' = [events EXCEPT ![id].date = d, ![id].at = clock + 1]
      BY <2>1 DEF MoveEvent, Tick
    <3>2. PICK row : row = [events[id] EXCEPT !.date = d, !.at = clock + 1]
      OBVIOUS
    <3>3. row \in EventRow /\ row.at = clock + 1 /\ row.live = events[id].live
      <4>1. events[id] \in EventRow /\ clock + 1 \in Nat
        BY <1>0
      <4>2. row \in EventRow
        BY <3>2, <4>1 DEF EventRow
      <4>3. row.at = clock + 1
        BY <3>2, <4>1 DEF EventRow
      <4>4. row.live = events[id].live
        BY <3>2, <4>1 DEF EventRow
      <4> QED
        BY <4>2, <4>3, <4>4
    <3>4. events' = [events EXCEPT ![id] = row]
      BY <3>1, <3>2
    <3> QED
      BY <3>1, <3>3, <3>4
  <2>2. CASE DropEvent
    <3>1. PICK id \in Created : Live(id) /\ clock' = clock + 1 /\ events' = [events EXCEPT ![id].live = FALSE, ![id].at = clock + 1]
      BY <2>2 DEF DropEvent, Tick
    <3>2. PICK row : row = [events[id] EXCEPT !.live = FALSE, !.at = clock + 1]
      OBVIOUS
    <3>3. row \in EventRow /\ row.at = clock + 1 /\ ~row.live
      <4>1. events[id] \in EventRow /\ clock + 1 \in Nat
        BY <1>0
      <4>2. row \in EventRow
        BY <3>2, <4>1 DEF EventRow
      <4>3. row.at = clock + 1
        BY <3>2, <4>1 DEF EventRow
      <4>4. ~row.live
        BY <3>2, <4>1 DEF EventRow
      <4> QED
        BY <4>2, <4>3, <4>4
    <3>4. events' = [events EXCEPT ![id] = row]
      BY <3>1, <3>2
    <3> QED
      BY <3>1, <3>3, <3>4
  <2> QED
    BY <1>6, <2>1, <2>2
<1>7. ASSUME NEW s \in Syncers, PatchEvent(s) PROVE <1>1!1 \/ <1>3!1
  <2>1. CASE Live(syncer[s].map.id)
    <3>1. PICK t \in syncer[s].copy : clock' = clock + 1 /\ events' = [events EXCEPT ![syncer[s].map.id] = Body(t)]
      BY <1>7, <2>1 DEF PatchEvent, Tick
    <3>2. Body(t) \in EventRow /\ Body(t).at = clock + 1
      BY <1>0, <3>1 DEF EventRow, Body, CsRows, SyncRow, TaskRow
    <3> QED
      BY <2>1, <3>1, <3>2 DEF Live
  <2>2. CASE ~Live(syncer[s].map.id)
    BY <1>7, <2>2 DEF PatchEvent
  <2> QED
    BY <2>1, <2>2
<1>8. ASSUME NEW s \in Syncers,
             TakePush(s) \/ KeepTime(s) \/ KeepEvent(s) \/ SyncBreaks(s) \/ PullEvents(s) \/ ApplyPulled(s) \/ KeepToken(s) \/ PullBreaks(s)
      PROVE  <1>1!1
  BY <1>8 DEF TakePush, KeepTime, KeepEvent, SyncBreaks, PullEvents, ApplyPulled, KeepToken, PullBreaks
<1>9. ASSUME TickTask \/ DeleteTask \/ LoseAccess \/ Connect \/ Disconnect PROVE <1>1!1 \/ <1>2!1
  BY <1>9 DEF TickTask, DeleteTask, LoseAccess, Connect, Disconnect, Tick
<1>10. ASSUME DeleteEvent \/ \E s \in Syncers : RemoveEvent(s) PROVE <1>4!1
  BY <1>10 DEF DeleteEvent, RemoveEvent
<1> QED
  BY <1>1, <1>2, <1>3, <1>4, <1>5, <1>6, <1>7, <1>8, <1>9, <1>10 DEF CsNext

\* What the rows of the workers and of Cadrius may become.
SyncersOK == syncer \in [Syncers -> SyncRow] /\ \A s \in Syncers : syncer[s].at <= clock
MapOK == map \in [id : Nat, at : Nat] /\ map.id \in Created \cup {0} /\ map.at <= clock

LEMMA SyncersStep == ASSUME CsRows, TimesOK, WorkOK, CsNext PROVE SyncersOK'
<1>0. clock \in Nat /\ clock' \in Nat /\ clock <= clock' /\ SyncersOK /\ \A s \in Syncers : syncer[s].at \in Nat
  BY EventsMove DEF CsRows, TimesOK, SyncersOK, SyncRow
<1>1. ASSUME NEW s \in Syncers, syncer' \in [Syncers -> SyncRow], \A t \in Syncers \ {s} : syncer'[t] = syncer[t],
             syncer'[s].at \in {0, clock, syncer[s].at}
      PROVE  SyncersOK'
  BY <1>0, <1>1 DEF SyncersOK
<1>2. CASE UNCHANGED syncer
  BY <1>0, <1>2 DEF SyncersOK
<1>3. ASSUME NEW s \in Syncers, Rests(s) PROVE SyncersOK'
  BY <1>1, <1>3, Restings
<1>4. ASSUME NEW s \in Syncers, NEW pc \in Pcs, Goes(s, pc) PROVE SyncersOK'
  BY <1>1, <1>4, Goings
<1>5. ASSUME NEW s \in Syncers, TakePush(s) PROVE SyncersOK'
  <2>1. CASE \E pc \in Pcs : Takes(s, pc)
    BY <1>1, <2>1, Takings
  <2> QED
    BY <1>2, <1>5, <2>1 DEF TakePush, Pcs
<1>6. ASSUME NEW s \in Syncers, PatchEvent(s) \/ ApplyPulled(s) PROVE SyncersOK'
  BY <1>4, <1>6 DEF PatchEvent, ApplyPulled, Pcs
<1>7. ASSUME NEW s \in Syncers,
             RemoveEvent(s) \/ KeepTime(s) \/ KeepEvent(s) \/ SyncBreaks(s) \/ KeepToken(s) \/ PullBreaks(s)
      PROVE  SyncersOK'
  BY <1>3, <1>7 DEF RemoveEvent, KeepTime, KeepEvent, SyncBreaks, KeepToken, PullBreaks
<1>8. ASSUME NEW s \in Syncers, PullEvents(s) PROVE SyncersOK'
  BY <1>1, <1>8, Pullings
<1>9. ASSUME NEW s \in Syncers, PostEvent(s) PROVE SyncersOK'
  BY <1>1, <1>9, Postings
<1>10. CASE LoseAccess \/ Disconnect
  <2>1. Free \in SyncRow /\ Free.at = 0
    BY DEF Free, NoEvent, SyncRow, Pcs
  <2>2. syncer' \in [Syncers -> SyncRow] /\ \A s \in Syncers : syncer'[s] = Free \/ syncer'[s] = syncer[s]
    BY <1>0, <1>10, <2>1 DEF LoseAccess, Disconnect, SyncersOK
  <2> QED
    BY <1>0, <2>1, <2>2 DEF SyncersOK
<1> QED
  BY <1>2, <1>5, <1>6, <1>7, <1>8, <1>9, <1>10 DEF CsNext, TickTask, DeleteTask, MoveEvent, DropEvent, DeleteEvent, Connect

LEMMA MapStep == ASSUME CsRows, TimesOK, WorkOK, CsNext PROVE MapOK'
<1>0. /\ clock \in Nat /\ clock' \in Nat /\ clock <= clock' /\ Created \subseteq Created' /\ MapOK
      /\ \A s \in Syncers : syncer[s].at \in Nat /\ syncer[s].at <= clock /\ syncer[s].map.id \in Nat
  BY EventsMove DEF CsRows, TimesOK, MapOK, SyncRow
<1>1. CASE UNCHANGED map
  BY <1>0, <1>1 DEF MapOK
<1>2. CASE map' = NoEvent
  BY <1>0, <1>2 DEF MapOK, NoEvent
<1>3. ASSUME NEW k \in Nat, k <= clock, map' = [map EXCEPT !.at = k] PROVE MapOK'
  BY <1>0, <1>3 DEF MapOK
<1>4. ASSUME NEW s \in Syncers, KeepTime(s) PROVE MapOK'
  BY <1>0, <1>1, <1>3, <1>4 DEF KeepTime
<1>5. ASSUME NEW s \in Syncers, KeepEvent(s) PROVE MapOK'
  <2>1. CASE map' = [id |-> syncer[s].map.id, at |-> syncer[s].at]
    BY <1>0, <1>5, <2>1 DEF MapOK, WorkOK, KeepEvent, At
  <2> QED
    BY <1>1, <1>5, <2>1 DEF KeepEvent
<1>6. ASSUME NEW s \in Syncers, ApplyPulled(s) PROVE MapOK'
  BY <1>0, <1>1, <1>2, <1>3, <1>6 DEF ApplyPulled
<1>7. ASSUME NEW s \in Syncers, RemoveEvent(s) \/ PatchEvent(s) PROVE MapOK'
  BY <1>1, <1>2, <1>7 DEF RemoveEvent, PatchEvent
<1> QED
  BY <1>1, <1>2, <1>4, <1>5, <1>6, <1>7
     DEF CsNext, TakePush, PostEvent, SyncBreaks, PullEvents, KeepToken, PullBreaks,
         TickTask, DeleteTask, MoveEvent, DropEvent, DeleteEvent, LoseAccess, Connect, Disconnect

LEMMA RowsStep == ASSUME CsRows, TimesOK, SeenOK, WorkOK, CsNext PROVE CsRows' /\ TimesOK'
<1>0. /\ clock \in Nat /\ clock' \in Nat /\ clock <= clock' /\ Created \subseteq Created'
      /\ events' \in [Created' -> EventRow] /\ (\E n \in Nat : Created' = 1 .. n)
      /\ \A i \in Created' : events'[i].at <= clock'
  <2>1. \A i \in Created : events[i].at \in Nat /\ events[i].at <= clock
    BY DEF CsRows, TimesOK, EventRow
  <2> QED
    BY <2>1, EventsMove
<1>1. task' \in TaskRow
  <2>1. ASSUME NEW s \in Syncers, ApplyPulled(s) PROVE task' \in TaskRow
    <3>1. \A e \in syncer[s].seen : e.event.date \in Dates
      BY DEF CsRows, SyncRow, SeenRow, EventRow
    <3> QED
      BY <2>1, <3>1 DEF ApplyPulled, CsRows, TaskRow
  <2>2. CASE TickTask \/ DeleteTask
    BY <2>2 DEF TickTask, DeleteTask, CsRows, TaskRow
  <2>3. CASE UNCHANGED task
    BY <2>3 DEF CsRows
  <2> QED
    BY <2>1, <2>2, <2>3 DEF CsNext, TakePush, PostEvent, SyncBreaks, PullEvents, KeepToken, PullBreaks, RemoveEvent, PatchEvent,
         KeepTime, KeepEvent, MoveEvent, DropEvent, DeleteEvent, LoseAccess, Connect, Disconnect
<1>2. link' \in {"active", "reauth", "none"}
  BY DEF CsRows, CsNext, TakePush, PostEvent, SyncBreaks, PullEvents, KeepToken, PullBreaks, RemoveEvent, PatchEvent, ApplyPulled,
         KeepTime, KeepEvent, TickTask, DeleteTask, MoveEvent, DropEvent, DeleteEvent, LoseAccess, Connect, Disconnect
<1>3. token' \in Nat /\ token' <= clock'
  <2>1. token' \in {token, 0} \/ \E s \in Syncers : token' = syncer[s].at
    BY DEF CsNext, TakePush, PostEvent, SyncBreaks, PullEvents, KeepToken, PullBreaks, RemoveEvent, PatchEvent, ApplyPulled,
         KeepTime, KeepEvent, TickTask, DeleteTask, MoveEvent, DropEvent, DeleteEvent, LoseAccess, Connect, Disconnect
  <2>2. token \in Nat /\ token <= clock /\ \A s \in Syncers : syncer[s].at \in Nat /\ syncer[s].at <= clock
    BY DEF CsRows, TimesOK, SyncRow
  <2> QED
    BY <1>0, <2>1, <2>2
<1>4. pushes' \in Nat
  <2>1. pushes' \in {pushes, pushes + 1} \/ (pushes > 0 /\ pushes' = pushes - 1)
    BY DEF CsNext, TakePush, PostEvent, SyncBreaks, PullEvents, KeepToken, PullBreaks, RemoveEvent, PatchEvent, ApplyPulled,
         KeepTime, KeepEvent, TickTask, DeleteTask, MoveEvent, DropEvent, DeleteEvent, LoseAccess, Connect, Disconnect, Enqueues, Sent, Unsent
  <2>2. pushes \in Nat
    BY DEF CsRows
  <2> QED
    BY <2>1, <2>2
<1>5. removals' \subseteq Created'
  <2>1. removals' \subseteq removals \cup ({map.id} \ {0})
    BY DEF CsNext, TakePush, PostEvent, SyncBreaks, PullEvents, KeepToken, PullBreaks, RemoveEvent, PatchEvent, ApplyPulled,
         KeepTime, KeepEvent, TickTask, DeleteTask, MoveEvent, DropEvent, DeleteEvent, LoseAccess, Connect, Disconnect
  <2> QED
    BY <1>0, <2>1 DEF TimesOK
<1> QED
  BY <1>0, <1>1, <1>2, <1>3, <1>4, <1>5, SyncersStep, MapStep DEF CsRows, TimesOK, SyncersOK, MapOK

\* What a step makes of the rows of the workers: it changes one of them, or frees some.
OneMoves(s) == \A t \in Syncers \ {s} : syncer'[t] = syncer[t]

LEMMA SeenStep == ASSUME CsRows, TimesOK, SeenOK, WorkOK, CsNext PROVE SeenOK'
<1>0. Created \subseteq Created' /\ \A i \in Created : events'[i].live => events[i].live
  BY EventsMove
<1>1. ASSUME NEW s \in Syncers, NEW e, e \in syncer'[s].seen, NEW f, f \in syncer'[s].seen,
             syncer'[s].seen = {} \/ (e \in syncer[s].seen /\ f \in syncer[s].seen)
      PROVE  e.id \in Created' /\ (events'[e.id].live => e.event.live) /\ (f.id = e.id => f = e)
  BY <1>0, <1>1 DEF SeenOK
<1>2. ASSUME NEW s \in Syncers, PullEvents(s) PROVE SeenOK'
  <2>1. UNCHANGED events /\ OneMoves(s)
    BY <1>2, Pullings DEF PullEvents, OneMoves
  <2>2. \A e : e \in syncer'[s].seen <=> \E i \in Created : events[i].at > token /\ e = [id |-> i, event |-> events[i]]
    BY <1>2, Pullings
  <2>3. ASSUME NEW e \in syncer'[s].seen, NEW f \in syncer'[s].seen
        PROVE  e.id \in Created' /\ (events'[e.id].live => e.event.live) /\ (f.id = e.id => f = e)
    <3>1. PICK i \in Created : e = [id |-> i, event |-> events[i]]
      BY <2>2
    <3>2. PICK j \in Created : f = [id |-> j, event |-> events[j]]
      BY <2>2
    <3> QED
      BY <1>0, <2>1, <3>1, <3>2
  <2>4. ASSUME NEW t \in Syncers \ {s}, NEW e \in syncer'[t].seen, NEW f \in syncer'[t].seen
        PROVE  e.id \in Created' /\ (events'[e.id].live => e.event.live) /\ (f.id = e.id => f = e)
    BY <1>1, <2>1, <2>4 DEF OneMoves
  <2> QED
    BY <2>3, <2>4 DEF SeenOK
<1>3. ASSUME \A s \in Syncers : syncer'[s].seen = {} \/ syncer'[s].seen = syncer[s].seen PROVE SeenOK'
  <2> SUFFICES ASSUME NEW s \in Syncers, NEW e \in syncer'[s].seen, NEW f \in syncer'[s].seen
               PROVE  e.id \in Created' /\ (events'[e.id].live => e.event.live) /\ (f.id = e.id => f = e)
    BY DEF SeenOK
  <2> QED
    BY <1>1, <1>3
<1>4. ASSUME NEW s \in Syncers, Rests(s) PROVE SeenOK'
  BY <1>3, <1>4, Restings
<1>5. ASSUME NEW s \in Syncers, NEW pc \in Pcs, Goes(s, pc) PROVE SeenOK'
  BY <1>3, <1>5, Goings
<1>6. ASSUME NEW s \in Syncers, NEW pc \in Pcs, Takes(s, pc) PROVE SeenOK'
  BY <1>3, <1>6, Takings
<1>7. ASSUME NEW s \in Syncers, PostEvent(s) PROVE SeenOK'
  BY <1>3, <1>7, Postings
<1>8. CASE LoseAccess \/ Disconnect
  <2>1. \A s \in Syncers : syncer'[s] = Free \/ syncer'[s] = syncer[s]
    BY <1>8 DEF LoseAccess, Disconnect
  <2> QED
    BY <1>3, <2>1 DEF Free
<1>9. CASE UNCHANGED syncer
  BY <1>3, <1>9
<1>10. ASSUME NEW s \in Syncers,
              TakePush(s) \/ RemoveEvent(s) \/ PatchEvent(s) \/ KeepTime(s) \/ KeepEvent(s) \/ SyncBreaks(s)
              \/ ApplyPulled(s) \/ KeepToken(s) \/ PullBreaks(s)
       PROVE  SeenOK'
  BY <1>4, <1>5, <1>6, <1>9, <1>10
     DEF TakePush, RemoveEvent, PatchEvent, KeepTime, KeepEvent, SyncBreaks, ApplyPulled, KeepToken, PullBreaks, Pcs
<1> QED
  BY <1>2, <1>7, <1>8, <1>9, <1>10 DEF CsNext, TickTask, DeleteTask, MoveEvent, DropEvent, DeleteEvent, Connect

\* What a worker at work holds.
WorkRowOK(row) ==
    /\ row.pc \in {"remove", "patch", "patched", "posted"} => row.map.id \in Created
    /\ row.pc = "pulled" => link = "active"
    /\ row.pc \in {"patch", "post"} => \E t \in TaskRow : row.copy = {t}

LEMMA WorkStep == ASSUME CsRows, TimesOK, SeenOK, WorkOK, CsNext PROVE WorkOK'
<1>0. Created \subseteq Created' /\ \A s \in Syncers : WorkRowOK(syncer[s])
  BY EventsMove DEF WorkOK, WorkRowOK, At
<1>1. ASSUME \A s \in Syncers : WorkRowOK(syncer[s])' PROVE WorkOK'
  BY <1>1 DEF WorkOK, WorkRowOK, At
<1>2. ASSUME UNCHANGED link \/ link' = "active", NEW s \in Syncers, syncer'[s] = syncer[s] PROVE WorkRowOK(syncer[s])'
  BY <1>0, <1>2 DEF WorkRowOK
<1>3. ASSUME NEW s \in Syncers, Rests(s), UNCHANGED link PROVE WorkOK'
  <2>1. syncer'[s].pc = "idle" /\ \A t \in Syncers \ {s} : syncer'[t] = syncer[t]
    BY <1>3, Restings
  <2>2. WorkRowOK(syncer[s])'
    BY <2>1 DEF WorkRowOK
  <2> QED
    BY <1>1, <1>2, <1>3, <2>1, <2>2
<1>4. ASSUME NEW s \in Syncers, TakePush(s) PROVE WorkOK'
  <2>1. CASE \E pc \in Pcs : Takes(s, pc) /\ (pc \in {"remove", "patch"} => map.id # 0) /\ pc \notin {"patched", "posted", "pulled"}
    <3>1. PICK pc \in Pcs : Takes(s, pc) /\ (pc \in {"remove", "patch"} => map.id # 0) /\ pc \notin {"patched", "posted", "pulled"}
      BY <2>1
    <3>2. /\ syncer'[s].pc = pc /\ syncer'[s].map = map /\ syncer'[s].copy = {task}
          /\ \A t \in Syncers \ {s} : syncer'[t] = syncer[t]
      BY <3>1, Takings
    <3>3. WorkRowOK(syncer[s])'
      BY <1>0, <3>1, <3>2 DEF WorkRowOK, TimesOK, CsRows
    <3>4. UNCHANGED link
      BY <1>4 DEF TakePush
    <3> QED
      BY <1>1, <1>2, <3>2, <3>3, <3>4
  <2>2. CASE UNCHANGED <<syncer, link>>
    BY <1>1, <1>2, <2>2
  <2> QED
    BY <1>4, <2>1, <2>2 DEF TakePush, Pcs
<1>5. ASSUME NEW s \in Syncers, PatchEvent(s) \/ ApplyPulled(s) PROVE WorkOK'
  <2>1. PICK pc \in Pcs : /\ Goes(s, pc) /\ UNCHANGED link
                          /\ \/ pc = "patched" /\ At(s, "patch")
                             \/ pc = "post" /\ At(s, "patch")
                             \/ pc = "applied"
    BY <1>5 DEF PatchEvent, ApplyPulled, Pcs
  <2>2. /\ syncer'[s].pc = pc /\ syncer'[s].map = syncer[s].map /\ syncer'[s].copy = syncer[s].copy
        /\ \A t \in Syncers \ {s} : syncer'[t] = syncer[t]
    BY <2>1, Goings
  <2>3. WorkRowOK(syncer[s])'
    BY <1>0, <2>1, <2>2 DEF WorkRowOK, At
  <2> QED
    BY <1>1, <1>2, <2>1, <2>2, <2>3
<1>6. ASSUME NEW s \in Syncers, PullEvents(s) PROVE WorkOK'
  <2>1. syncer'[s].pc = "pulled" /\ link' = "active" /\ \A t \in Syncers \ {s} : syncer'[t] = syncer[t]
    BY <1>6, Pullings DEF PullEvents
  <2>2. WorkRowOK(syncer[s])'
    BY <2>1 DEF WorkRowOK
  <2> QED
    BY <1>1, <1>2, <2>1, <2>2
<1>7. ASSUME NEW s \in Syncers, PostEvent(s) PROVE WorkOK'
  <2>1. PICK id \in Nat \ {0} : /\ Created' = Created \cup {id} /\ syncer'[s].pc = "posted" /\ syncer'[s].map.id = id
                                /\ \A t \in Syncers \ {s} : syncer'[t] = syncer[t]
    BY <1>7, Postings
  <2>2. WorkRowOK(syncer[s])'
    BY <2>1 DEF WorkRowOK
  <2>3. UNCHANGED link
    BY <1>7 DEF PostEvent
  <2> QED
    BY <1>1, <1>2, <2>1, <2>2, <2>3
<1>8. CASE LoseAccess \/ Disconnect
  <2>1. \A s \in Syncers : syncer'[s] = Free \/ (syncer'[s] = syncer[s] /\ syncer[s].pc # "pulled")
    BY <1>8 DEF LoseAccess, Disconnect
  <2>2. \A s \in Syncers : WorkRowOK(syncer[s])'
    BY <1>0, <2>1 DEF WorkRowOK, Free
  <2> QED
    BY <1>1, <2>2
<1>9. CASE UNCHANGED syncer /\ (UNCHANGED link \/ link' = "active")
  BY <1>1, <1>2, <1>9
<1>10. ASSUME NEW s \in Syncers,
              RemoveEvent(s) \/ KeepTime(s) \/ KeepEvent(s) \/ SyncBreaks(s) \/ KeepToken(s) \/ PullBreaks(s)
       PROVE  WorkOK'
  BY <1>3, <1>10 DEF RemoveEvent, KeepTime, KeepEvent, SyncBreaks, KeepToken, PullBreaks
<1> QED
  BY <1>4, <1>5, <1>6, <1>7, <1>8, <1>9, <1>10 DEF CsNext, TickTask, DeleteTask, MoveEvent, DropEvent, DeleteEvent, Connect

\* What happened stays so.
LEMMA Sticky ==
    ASSUME CsNext
    PROVE  /\ (crossed => crossed') /\ (lost => lost') /\ (doubled => doubled') /\ (parted => parted')
           /\ (during => during') /\ (raced => raced')
<1>1. crossed => crossed'
  BY DEF CsNext, TakePush, Takes, PostEvent, SyncBreaks, PullEvents, KeepToken, PullBreaks, RemoveEvent, PatchEvent, ApplyPulled,
         KeepTime, KeepEvent, TickTask, DeleteTask, MoveEvent, DropEvent, DeleteEvent, LoseAccess, Connect, Disconnect
<1>2. during => during'
  BY DEF CsNext, TakePush, Takes, PostEvent, SyncBreaks, PullEvents, KeepToken, PullBreaks, RemoveEvent, PatchEvent, ApplyPulled,
         KeepTime, KeepEvent, TickTask, DeleteTask, MoveEvent, DropEvent, DeleteEvent, LoseAccess, Connect, Disconnect
<1>3. raced => raced'
  BY DEF CsNext, TakePush, Takes, PostEvent, SyncBreaks, PullEvents, KeepToken, PullBreaks, RemoveEvent, PatchEvent, ApplyPulled,
         KeepTime, KeepEvent, TickTask, DeleteTask, MoveEvent, DropEvent, DeleteEvent, LoseAccess, Connect, Disconnect
<1>4. lost => lost'
  BY DEF CsNext, TakePush, Takes, PostEvent, SyncBreaks, PullEvents, KeepToken, PullBreaks, RemoveEvent, PatchEvent, ApplyPulled,
         KeepTime, KeepEvent, TickTask, DeleteTask, MoveEvent, DropEvent, DeleteEvent, LoseAccess, Connect, Disconnect, Enqueues, Sent, Unsent
<1>5. doubled => doubled'
  BY DEF CsNext, TakePush, Takes, PostEvent, SyncBreaks, PullEvents, KeepToken, PullBreaks, RemoveEvent, PatchEvent, ApplyPulled,
         KeepTime, KeepEvent, TickTask, DeleteTask, MoveEvent, DropEvent, DeleteEvent, LoseAccess, Connect, Disconnect
<1>6. parted => parted'
  BY DEF CsNext, TakePush, Takes, PostEvent, SyncBreaks, PullEvents, KeepToken, PullBreaks, RemoveEvent, PatchEvent, ApplyPulled,
         KeepTime, KeepEvent, TickTask, DeleteTask, MoveEvent, DropEvent, DeleteEvent, LoseAccess, Connect, Disconnect, Removes
<1> QED
  BY <1>1, <1>2, <1>3, <1>4, <1>5, <1>6

LEMMA OneSyncerStep == ASSUME CsRows, TimesOK, SeenOK, WorkOK, OneSyncer, CsNext PROVE OneSyncer'
<1>1. ASSUME \A t \in Syncers : ~Idle(t)' => ~Idle(t) PROVE OneSyncer'
  BY <1>1, Sticky DEF OneSyncer
<1>2. ASSUME NEW s \in Syncers, crossed' = (crossed \/ Busy), OneMoves(s) PROVE OneSyncer'
  <2> SUFFICES ASSUME ~crossed', NEW t \in Syncers, ~Idle(t)' PROVE t = s
    BY DEF OneSyncer
  <2> QED
    BY <1>2 DEF OneMoves, Busy, Idle
<1>3. ASSUME NEW s \in Syncers, ~Idle(s), OneMoves(s) PROVE OneSyncer'
  BY <1>1, <1>3 DEF OneMoves, Idle
<1>4. ASSUME NEW s \in Syncers, Rests(s) PROVE OneSyncer'
  BY <1>1, <1>4, Restings DEF Idle
<1>5. ASSUME NEW s \in Syncers, NEW pc \in Pcs, Goes(s, pc), ~Idle(s) PROVE OneSyncer'
  BY <1>3, <1>5, Goings DEF OneMoves
<1>6. ASSUME NEW s \in Syncers, TakePush(s) PROVE OneSyncer'
  <2>1. CASE \E pc \in Pcs : Takes(s, pc)
    BY <1>2, <2>1, Takings DEF Takes, OneMoves
  <2>2. CASE UNCHANGED syncer
    BY <1>1, <2>2 DEF Idle
  <2> QED
    BY <1>6, <2>1, <2>2 DEF TakePush, Pcs
<1>7. ASSUME NEW s \in Syncers, PullEvents(s) PROVE OneSyncer'
  BY <1>2, <1>7, Pullings DEF PullEvents, OneMoves
<1>8. ASSUME NEW s \in Syncers, PostEvent(s) PROVE OneSyncer'
  BY <1>3, <1>8, Postings DEF PostEvent, OneMoves, Idle, At
<1>9. CASE LoseAccess \/ Disconnect
  <2>1. \A s \in Syncers : syncer'[s] = Free \/ syncer'[s] = syncer[s]
    BY <1>9 DEF LoseAccess, Disconnect
  <2> QED
    BY <1>1, <2>1 DEF Idle, Free
<1>10. CASE UNCHANGED syncer
  BY <1>1, <1>10 DEF Idle
<1>11. ASSUME NEW s \in Syncers, PatchEvent(s) \/ ApplyPulled(s) PROVE OneSyncer'
  BY <1>5, <1>11 DEF PatchEvent, ApplyPulled, Pcs, Idle, At
<1>12. ASSUME NEW s \in Syncers,
              RemoveEvent(s) \/ KeepTime(s) \/ KeepEvent(s) \/ SyncBreaks(s) \/ KeepToken(s) \/ PullBreaks(s)
       PROVE  OneSyncer'
  BY <1>4, <1>12 DEF RemoveEvent, KeepTime, KeepEvent, SyncBreaks, KeepToken, PullBreaks
<1> QED
  BY <1>6, <1>7, <1>8, <1>9, <1>10, <1>11, <1>12 DEF CsNext, TickTask, DeleteTask, MoveEvent, DropEvent, DeleteEvent, Connect

LEMMA CreatorsStep == ASSUME CsRows, TimesOK, SeenOK, WorkOK, CreatorsOK, CsNext PROVE CreatorsOK'
<1> SUFFICES ASSUME ~doubled' PROVE CreatorsOK'
  BY DEF CreatorsOK
<1>0. /\ ~doubled
      /\ \A s \in Syncers :
            /\ Creates(s) => map.id = 0 /\ \A t \in Syncers : Pushing(t) => t = s
            /\ syncer[s].pc \in {"remove", "patch", "patched"} => map.id \in {0, syncer[s].map.id}
  BY Sticky DEF CreatorsOK
<1>1. ASSUME map'.id \in {0, map.id},
             \A t \in Syncers : \/ syncer'[t].pc \notin {"remove", "patch", "patched", "post", "posted"}
                                \/ syncer'[t] = syncer[t]
                                \/ /\ syncer[t].pc = "patch" /\ syncer'[t].pc = "patched" /\ syncer'[t].map = syncer[t].map
                                \/ /\ syncer[t].pc = "post" /\ syncer'[t].pc = "posted"
      PROVE  CreatorsOK'
  BY <1>0, <1>1 DEF CreatorsOK, Creates, Pushing
<1>2. ASSUME NEW s \in Syncers, Rests(s), map'.id \in {0, map.id} PROVE CreatorsOK'
  BY <1>1, <1>2, Restings
<1>3. ASSUME NEW s \in Syncers, TakePush(s) PROVE CreatorsOK'
  <2>0. UNCHANGED map
    BY <1>3 DEF TakePush
  <2>1. CASE \E pc \in {"remove", "patch"} : Takes(s, pc)
    <3>1. PICK pc \in {"remove", "patch"} : Takes(s, pc)
      BY <2>1
    <3>2. syncer'[s].pc = pc /\ syncer'[s].map = map /\ \A t \in Syncers \ {s} : syncer'[t] = syncer[t]
      BY <3>1, Takings DEF Pcs
    <3>3. \A t \in Syncers : ~Creates(t)
      BY <3>1 DEF Takes, Creates, Pushing
    <3> QED
      BY <1>0, <2>0, <3>1, <3>2, <3>3 DEF CreatorsOK, Creates, Pushing
  <2>2. CASE Takes(s, "post") /\ map.id = 0
    <3>1. syncer'[s].pc = "post" /\ \A t \in Syncers \ {s} : syncer'[t] = syncer[t]
      BY <2>2, Takings DEF Pcs
    <3>2. \A t \in Syncers : ~Pushing(t)
      BY <2>2 DEF Takes
    <3> QED
      BY <2>0, <2>2, <3>1, <3>2 DEF CreatorsOK, Creates, Pushing
  <2>3. CASE UNCHANGED syncer
    BY <1>1, <2>0, <2>3
  <2> QED
    BY <1>3, <2>1, <2>2, <2>3 DEF TakePush
<1>4. ASSUME NEW s \in Syncers, PatchEvent(s) PROVE CreatorsOK'
  <2>1. CASE Live(syncer[s].map.id)
    BY <1>1, <1>4, <2>1, Goings DEF PatchEvent, Pcs, At
  <2>2. CASE ~Live(syncer[s].map.id)
    <3>1. Goes(s, "post") /\ map' = NoEvent /\ \A t \in Syncers \ {s} : ~Pushing(t)
      BY <1>4, <2>2 DEF PatchEvent
    <3>2. syncer'[s].pc = "post" /\ \A t \in Syncers \ {s} : syncer'[t] = syncer[t]
      BY <3>1, Goings DEF Pcs
    <3> QED
      BY <3>1, <3>2 DEF CreatorsOK, Creates, Pushing, NoEvent
  <2> QED
    BY <2>1, <2>2
<1>5. ASSUME NEW s \in Syncers, KeepEvent(s) PROVE CreatorsOK'
  <2>1. \A t \in Syncers \ {s} : ~Pushing(t)
    BY <1>0, <1>5 DEF KeepEvent, At, Creates
  <2>2. syncer'[s].pc = "idle" /\ \A t \in Syncers \ {s} : syncer'[t] = syncer[t]
    BY <1>5, Restings DEF KeepEvent
  <2> QED
    BY <2>1, <2>2 DEF CreatorsOK, Creates, Pushing
<1>6. ASSUME NEW s \in Syncers, PostEvent(s) PROVE CreatorsOK'
  BY <1>1, <1>6, Postings DEF PostEvent, At
<1>7. ASSUME NEW s \in Syncers, PullEvents(s) PROVE CreatorsOK'
  BY <1>1, <1>7, Pullings DEF PullEvents
<1>8. ASSUME NEW s \in Syncers, ApplyPulled(s) PROVE CreatorsOK'
  <2>1. map'.id \in {0, map.id}
    <3>1. map' = map \/ map' = NoEvent \/ map' = [map EXCEPT !.at = clock]
      BY <1>8 DEF ApplyPulled
    <3> QED
      BY <3>1 DEF NoEvent, CsRows
  <2> QED
    BY <1>1, <1>8, <2>1, Goings DEF ApplyPulled, Pcs
<1>9. ASSUME NEW s \in Syncers, RemoveEvent(s) \/ KeepTime(s) \/ SyncBreaks(s) \/ KeepToken(s) \/ PullBreaks(s) PROVE CreatorsOK'
  <2>1. map'.id \in {0, map.id}
    <3>1. map' = map \/ map' = NoEvent \/ map' = [map EXCEPT !.at = syncer[s].at]
      BY <1>9 DEF RemoveEvent, KeepTime, SyncBreaks, KeepToken, PullBreaks
    <3> QED
      BY <3>1 DEF NoEvent, CsRows
  <2> QED
    BY <1>2, <1>9, <2>1 DEF RemoveEvent, KeepTime, SyncBreaks, KeepToken, PullBreaks
<1>10. CASE LoseAccess \/ Disconnect
  <2>1. (\A s \in Syncers : syncer'[s] = Free \/ syncer'[s] = syncer[s]) /\ map'.id \in {0, map.id}
    BY <1>10 DEF LoseAccess, Disconnect, NoEvent
  <2> QED
    BY <1>1, <2>1 DEF Free
<1>11. CASE UNCHANGED syncer /\ (map' = map \/ map' = NoEvent)
  BY <1>1, <1>11 DEF NoEvent
<1> QED
  BY <1>3, <1>4, <1>5, <1>6, <1>7, <1>8, <1>9, <1>10, <1>11
     DEF CsNext, TickTask, DeleteTask, MoveEvent, DropEvent, DeleteEvent, Connect

\* Who keeps hold of an event.
Kept(id) == id = map.id \/ id \in removals \/ \E s \in Syncers : At(s, "posted") /\ syncer[s].map.id = id

LEMMA OneEventStep == ASSUME CsRows, TimesOK, SeenOK, WorkOK, CreatorsOK, OneEvent, CsNext PROVE OneEvent'
<1> SUFFICES ASSUME ~doubled', ~parted', ~lost', NEW id \in Created', Live(id)' PROVE Kept(id)'
  BY DEF OneEvent, Kept
<1>0. /\ ~doubled
      /\ \A s \in Syncers :
            /\ Creates(s) => map.id = 0 /\ \A t \in Syncers : Pushing(t) => t = s
            /\ syncer[s].pc \in {"remove", "patch", "patched"} => map.id \in {0, syncer[s].map.id}
      /\ \A i \in Created : Live(i) => Kept(i)
  BY Sticky DEF CreatorsOK, OneEvent, Kept
<1>1. id \in Created => Live(id) /\ Kept(id)
  BY <1>0, EventsMove DEF Live
<1>2. 0 \notin Created
  BY DEF CsRows
<1>3. ASSUME id \in Created, map'.id = map.id \/ id # map.id, removals \subseteq removals',
             \A t \in Syncers : At(t, "posted") => syncer'[t] = syncer[t]
      PROVE  Kept(id)'
  BY <1>1, <1>3 DEF Kept, At
<1>4. ASSUME NEW s \in Syncers, ~At(s, "posted"), OneMoves(s), id \in Created, map'.id = map.id \/ id # map.id, UNCHANGED removals
      PROVE  Kept(id)'
  BY <1>3, <1>4 DEF OneMoves
<1>5. ASSUME NEW s \in Syncers, TakePush(s) PROVE Kept(id)'
  <2>1. id \in Created
    BY <1>5 DEF TakePush, Created
  <2>2. Idle(s) /\ OneMoves(s) /\ UNCHANGED <<map, removals>>
    BY <1>5, Takings DEF TakePush, OneMoves, Pcs
  <2> QED
    BY <1>4, <2>1, <2>2 DEF Idle, At
<1>6. ASSUME NEW s \in Syncers, RemoveEvent(s) PROVE Kept(id)'
  <2>1. Created' = Created /\ id # syncer[s].map.id
    BY <1>6, Killings DEF RemoveEvent
  <2>2. At(s, "remove") /\ OneMoves(s) /\ UNCHANGED removals
    BY <1>6, Restings DEF RemoveEvent, OneMoves
  <2>3. map'.id = map.id \/ id # map.id
    BY <1>6, <2>1 DEF RemoveEvent
  <2> QED
    BY <1>4, <2>1, <2>2, <2>3 DEF At
<1>7. ASSUME NEW s \in Syncers, PatchEvent(s) PROVE Kept(id)'
  <2>1. At(s, "patch") /\ OneMoves(s) /\ UNCHANGED removals
    BY <1>7, Goings DEF PatchEvent, OneMoves, Pcs
  <2>2. CASE Live(syncer[s].map.id)
    <3>1. Created' = Created /\ UNCHANGED map
      BY <1>7, <2>2 DEF PatchEvent, Live, Created, CsRows
    <3> QED
      BY <1>4, <2>1, <3>1 DEF At
  <2>3. CASE ~Live(syncer[s].map.id)
    <3>1. id \in Created /\ id # syncer[s].map.id
      BY <1>1, <1>7, <2>3 DEF PatchEvent, Created
    <3>2. id # map.id
      BY <1>0, <1>2, <2>1, <3>1 DEF At
    <3> QED
      BY <1>4, <2>1, <3>1, <3>2 DEF At
  <2> QED
    BY <2>2, <2>3
<1>8. ASSUME NEW s \in Syncers, KeepTime(s) PROVE Kept(id)'
  <2>1. At(s, "patched") /\ OneMoves(s) /\ UNCHANGED <<removals, events>> /\ (map' = map \/ map' = [map EXCEPT !.at = syncer[s].at])
    BY <1>8, Restings DEF KeepTime, OneMoves
  <2>2. id \in Created /\ map'.id = map.id
    BY <2>1 DEF Created, CsRows
  <2> QED
    BY <1>4, <2>1, <2>2 DEF At
<1>9. ASSUME NEW s \in Syncers, PostEvent(s) PROVE Kept(id)'
  <2>1. PICK new \in Nat : /\ Created' = Created \cup {new} /\ syncer'[s].pc = "posted" /\ syncer'[s].map.id = new
                           /\ \A t \in Syncers \ {s} : syncer'[t] = syncer[t]
    BY <1>9, Postings
  <2>2. ~At(s, "posted") /\ OneMoves(s) /\ UNCHANGED <<map, removals>>
    BY <1>9, <2>1 DEF PostEvent, OneMoves, At
  <2>3. CASE id = new
    BY <2>1, <2>3 DEF Kept, At
  <2>4. CASE id # new
    BY <1>4, <2>1, <2>2, <2>4
  <2> QED
    BY <2>3, <2>4
<1>10. ASSUME NEW s \in Syncers, KeepEvent(s) PROVE Kept(id)'
  <2>1. At(s, "posted") /\ map' = [id |-> syncer[s].map.id, at |-> syncer[s].at] /\ UNCHANGED <<removals, events>>
    BY <1>10 DEF KeepEvent
  <2>2. id \in Created
    BY <2>1 DEF Created
  <2>3. map.id = 0 /\ \A t \in Syncers : At(t, "posted") => t = s
    BY <1>0, <2>1 DEF At, Creates, Pushing
  <2> QED
    BY <1>1, <1>2, <2>1, <2>2, <2>3 DEF Kept
<1>11. ASSUME NEW s \in Syncers, SyncBreaks(s) PROVE Kept(id)'
  <2>1. ~At(s, "posted") /\ OneMoves(s) /\ UNCHANGED <<map, removals, events>>
    BY <1>11, Restings DEF SyncBreaks, OneMoves
  <2> QED
    BY <1>4, <2>1 DEF Created
<1>12. ASSUME NEW s \in Syncers, PullEvents(s) PROVE Kept(id)'
  <2>1. ~At(s, "posted") /\ OneMoves(s) /\ UNCHANGED <<map, removals, events>>
    BY <1>12, Pullings DEF PullEvents, OneMoves, Idle, At
  <2> QED
    BY <1>4, <2>1 DEF Created
<1>13. ASSUME NEW s \in Syncers, ApplyPulled(s) PROVE Kept(id)'
  <2>1. ~At(s, "posted") /\ OneMoves(s) /\ UNCHANGED <<removals, events>>
    BY <1>13, Goings DEF ApplyPulled, OneMoves, At, Pcs
  <2>2. id \in Created
    BY <2>1 DEF Created
  <2>3. CASE map' = map \/ map' = [map EXCEPT !.at = clock]
    <3>1. map'.id = map.id
      BY <2>3 DEF CsRows
    <3> QED
      BY <1>4, <2>1, <2>2, <3>1
  <2>4. CASE \E e \in syncer[s].seen : e.id = map.id /\ ~e.event.live
    <3>1. id # map.id
      BY <1>1, <2>2, <2>4 DEF SeenOK, Live
    <3> QED
      BY <1>4, <2>1, <2>2, <3>1
  <2> QED
    BY <1>13, <2>3, <2>4 DEF ApplyPulled
<1>14. ASSUME NEW s \in Syncers, KeepToken(s) \/ PullBreaks(s) PROVE Kept(id)'
  <2>1. ~At(s, "posted") /\ OneMoves(s) /\ UNCHANGED <<map, removals, events>>
    BY <1>14, Restings DEF KeepToken, PullBreaks, OneMoves, At
  <2> QED
    BY <1>4, <2>1 DEF Created
<1>15. CASE DeleteTask
  <2>1. UNCHANGED <<syncer, events>> /\ removals' = removals \cup ({map.id} \ {0})
    BY <1>15 DEF DeleteTask
  <2>2. id \in Created
    BY <2>1 DEF Created
  <2>3. CASE id = map.id
    BY <1>2, <2>1, <2>2, <2>3 DEF Kept
  <2>4. CASE id # map.id
    BY <1>3, <2>1, <2>2, <2>4
  <2> QED
    BY <2>3, <2>4
<1>16. CASE TickTask \/ Connect
  BY <1>3, <1>16 DEF TickTask, Connect, Created
<1>17. CASE MoveEvent \/ DropEvent
  <2>1. Created' = Created
    BY <1>17 DEF MoveEvent, DropEvent, Created, CsRows
  <2> QED
    BY <1>3, <1>17, <2>1 DEF MoveEvent, DropEvent
<1>18. CASE DeleteEvent
  <2>1. PICK gone \in removals : removals' = removals \ {gone} /\ Removes(gone) /\ UNCHANGED <<map, syncer>>
    BY <1>18 DEF DeleteEvent
  <2>2. Created' = Created /\ id # gone
    BY <2>1, Killings
  <2> QED
    BY <1>1, <2>1, <2>2 DEF Kept, At
<1>19. CASE LoseAccess
  <2>1. UNCHANGED <<map, removals, events>> /\ \A t \in Syncers : At(t, "posted") => syncer'[t] = syncer[t]
    BY <1>19 DEF LoseAccess, At
  <2> QED
    BY <1>3, <2>1 DEF Created
<1>20. CASE Disconnect
  <2>1. UNCHANGED <<removals, events>> /\ ~Live(map.id) /\ \A t \in Syncers : ~At(t, "posted")
    BY <1>20 DEF Disconnect
  <2>2. id \in Created
    BY <2>1 DEF Created
  <2> QED
    BY <1>1, <2>1, <2>2 DEF Kept
<1> QED
  BY <1>5, <1>6, <1>7, <1>8, <1>9, <1>10, <1>11, <1>12, <1>13, <1>14, <1>15, <1>16, <1>17, <1>18, <1>19, <1>20 DEF CsNext

\* A task that is here and synchronised, with no message lost and no two workers at once, was so before.
LEMMA PlainBack ==
    ASSUME CsRows, CsNext, Plain'
    PROVE  Plain /\ ~DeleteTask /\ task'.done = (IF TickTask THEN ~task.done ELSE task.done)
<1>0. ~crossed /\ ~lost
  BY Sticky DEF Plain
<1>1. CASE TickTask
  <2>1. task' = [task EXCEPT !.done = ~task.done]
    BY <1>1 DEF TickTask
  <2>2. task'.here = task.here /\ task'.sync = task.sync /\ task'.done = ~task.done
    BY <2>1 DEF CsRows, TaskRow
  <2>3. ~DeleteTask
    <3>1. DeleteTask => task' = [task EXCEPT !.here = FALSE]
      BY DEF DeleteTask
    <3>2. DeleteTask => ~task'.here
      BY <3>1 DEF CsRows, TaskRow
    <3> QED
      BY <3>2 DEF Plain
  <2> QED
    BY <1>0, <1>1, <2>2, <2>3 DEF Plain
<1>2. CASE DeleteTask
  <2>1. task' = [task EXCEPT !.here = FALSE]
    BY <1>2 DEF DeleteTask
  <2>2. ~task'.here
    BY <2>1 DEF CsRows, TaskRow
  <2> QED
    BY <2>2 DEF Plain
<1>3. ASSUME NEW s \in Syncers, ApplyPulled(s), ~TickTask, ~DeleteTask
      PROVE  Plain /\ task'.done = task.done
  <2>1. task' = task \/ task' = [task EXCEPT !.sync = FALSE] \/ \E e \in syncer[s].seen : task' = [task EXCEPT !.date = e.event.date]
    BY <1>3 DEF ApplyPulled
  <2>2. task' = [task EXCEPT !.sync = FALSE] => ~task'.sync
    BY DEF CsRows, TaskRow
  <2>3. \A d : task' = [task EXCEPT !.date = d] => task'.done = task.done /\ task'.here = task.here /\ task'.sync = task.sync
    BY DEF CsRows, TaskRow
  <2> QED
    BY <1>0, <2>1, <2>2, <2>3 DEF Plain
<1>4. CASE UNCHANGED task /\ ~TickTask /\ ~DeleteTask
  BY <1>0, <1>4 DEF Plain
<1> QED
  BY <1>1, <1>2, <1>3, <1>4
     DEF CsNext, TakePush, PostEvent, SyncBreaks, PullEvents, KeepToken, PullBreaks, RemoveEvent, PatchEvent,
         KeepTime, KeepEvent, MoveEvent, DropEvent, DeleteEvent, LoseAccess, Connect, Disconnect

\* A push of it creates or changes the event, and its worker is the only one.
LEMMA PlainTake ==
    ASSUME CsRows, NEW s \in Syncers, TakePush(s), Plain'
    PROVE  /\ \/ Takes(s, "patch") /\ map.id # 0
              \/ Takes(s, "post") /\ map.id = 0
           /\ \A t \in Syncers : Idle(t)
<1>1. UNCHANGED task /\ lost' = (lost \/ (task.sync /\ link # "active"))
  BY DEF TakePush
<1>2. task.here /\ Wanted
  BY <1>1 DEF Plain, Wanted
<1>3. \/ Takes(s, "patch") /\ map.id # 0
      \/ Takes(s, "post") /\ map.id = 0
  BY <1>2 DEF TakePush
<1>4. crossed' = (crossed \/ Busy)
  BY <1>3 DEF Takes
<1> QED
  BY <1>3, <1>4 DEF Plain, Busy

LEMMA RemovalsStep == ASSUME CsRows, TimesOK, SeenOK, WorkOK, RemovalsOK, CsNext PROVE RemovalsOK'
<1> SUFFICES ASSUME Plain' PROVE removals' = {} /\ \A s \in Syncers : ~At(s, "remove")'
  BY DEF RemovalsOK
<1>0. Plain /\ ~DeleteTask /\ removals = {} /\ \A s \in Syncers : ~At(s, "remove")
  BY PlainBack DEF RemovalsOK
<1>a. \A s \in Syncers : syncer[s].pc # "remove"
  BY <1>0 DEF At
<1>1. removals' = {}
  BY <1>0 DEF CsNext, TakePush, PostEvent, SyncBreaks, PullEvents, KeepToken, PullBreaks, RemoveEvent, PatchEvent, ApplyPulled,
         KeepTime, KeepEvent, TickTask, MoveEvent, DropEvent, DeleteEvent, LoseAccess, Connect, Disconnect
<1>2. ASSUME NEW s \in Syncers, OneMoves(s), syncer'[s].pc # "remove" PROVE \A t \in Syncers : ~At(t, "remove")'
  BY <1>0, <1>2 DEF OneMoves, At
<1>3. ASSUME NEW s \in Syncers, Rests(s) PROVE \A t \in Syncers : ~At(t, "remove")'
  BY <1>2, <1>3, Restings DEF OneMoves
<1>4. ASSUME NEW s \in Syncers, TakePush(s) PROVE \A t \in Syncers : ~At(t, "remove")'
  BY <1>2, <1>4, PlainTake, Takings DEF OneMoves, Pcs
<1>5. ASSUME NEW s \in Syncers, PatchEvent(s) \/ ApplyPulled(s) PROVE \A t \in Syncers : ~At(t, "remove")'
  BY <1>2, <1>5, Goings DEF OneMoves, Pcs, PatchEvent, ApplyPulled
<1>6. ASSUME NEW s \in Syncers, PullEvents(s) PROVE \A t \in Syncers : ~At(t, "remove")'
  BY <1>2, <1>6, Pullings DEF OneMoves
<1>7. ASSUME NEW s \in Syncers, PostEvent(s) PROVE \A t \in Syncers : ~At(t, "remove")'
  BY <1>2, <1>7, Postings DEF OneMoves
<1>8. ASSUME LoseAccess \/ Disconnect PROVE \A t \in Syncers : ~At(t, "remove")'
  <2>1. \A s \in Syncers : syncer'[s] = Free \/ syncer'[s] = syncer[s]
    BY <1>8 DEF LoseAccess, Disconnect
  <2> QED
    BY <1>a, <2>1 DEF At, Free
<1>9. ASSUME UNCHANGED syncer PROVE \A t \in Syncers : ~At(t, "remove")'
  BY <1>a, <1>9 DEF At
<1>10. ASSUME NEW s \in Syncers, RemoveEvent(s) \/ KeepTime(s) \/ KeepEvent(s) \/ SyncBreaks(s) \/ KeepToken(s) \/ PullBreaks(s)
       PROVE  \A t \in Syncers : ~At(t, "remove")'
  BY <1>3, <1>10 DEF RemoveEvent, KeepTime, KeepEvent, SyncBreaks, KeepToken, PullBreaks
<1>11. \A s \in Syncers : ~At(s, "remove")'
  BY <1>0, <1>4, <1>5, <1>6, <1>7, <1>8, <1>9, <1>10 DEF CsNext, TickTask, MoveEvent, DropEvent, DeleteEvent, Connect
<1> QED
  BY <1>1, <1>11

\* What the person does to an event in Google changes its date and not whether it is done, or kills it.
LEMMA PersonMoves ==
    ASSUME CsRows, MoveEvent \/ DropEvent
    PROVE  /\ Created' = Created /\ UNCHANGED <<task, link, map, token, pushes, removals, syncer, lost, parted, crossed, doubled>>
           /\ clock' = clock + 1
           /\ \E id \in Created : /\ events'[id].at = clock + 1 /\ events'[id].done = events[id].done
                                  /\ \A j \in Created \ {id} : events'[j] = events[j]
                                  /\ \/ MoveEvent /\ (id = map.id => wish' = events'[id].date) /\ (id # map.id => wish' = wish)
                                     \/ ~events'[id].live /\ UNCHANGED <<wish, raced, during>>
<1>1. CASE MoveEvent
  <2>1. PICK id \in Created, d \in Dates : /\ clock' = clock + 1 /\ events' = [events EXCEPT ![id].date = d, ![id].at = clock + 1]
                                           /\ wish' = IF id = map.id THEN d ELSE wish
    BY <1>1 DEF MoveEvent, Tick
  <2>2. UNCHANGED <<task, link, map, token, pushes, removals, syncer, lost, parted, crossed, doubled>>
    BY <1>1 DEF MoveEvent
  <2>3. Created' = Created
    BY <2>1 DEF Created, CsRows
  <2>4. /\ events'[id].at = clock + 1 /\ events'[id].done = events[id].done /\ events'[id].date = d
        /\ \A j \in Created \ {id} : events'[j] = events[j]
    <3>1. \A j \in Created \ {id} : events'[j] = events[j]
      BY <2>1 DEF CsRows
    <3>2. events'[id] = [events[id] EXCEPT !.date = d, !.at = clock + 1] /\ events[id] \in EventRow
      BY <2>1 DEF CsRows
    <3>3. events'[id].at = clock + 1
      BY <3>2 DEF EventRow
    <3>4. events'[id].done = events[id].done
      BY <3>2 DEF EventRow
    <3>5. events'[id].date = d
      BY <3>2 DEF EventRow
    <3> QED
      BY <3>1, <3>3, <3>4, <3>5
  <2> QED
    BY <1>1, <2>1, <2>2, <2>3, <2>4
<1>2. CASE DropEvent
  <2>1. PICK id \in Created : clock' = clock + 1 /\ events' = [events EXCEPT ![id].live = FALSE, ![id].at = clock + 1]
    BY <1>2 DEF DropEvent, Tick
  <2>2. UNCHANGED <<task, link, map, token, pushes, removals, syncer, lost, parted, crossed, doubled>> /\ UNCHANGED <<wish, raced, during>>
    BY <1>2 DEF DropEvent
  <2>3. Created' = Created
    BY <2>1 DEF Created, CsRows
  <2>4. /\ events'[id].at = clock + 1 /\ events'[id].done = events[id].done /\ ~events'[id].live
        /\ \A j \in Created \ {id} : events'[j] = events[j]
    <3>1. \A j \in Created \ {id} : events'[j] = events[j]
      BY <2>1 DEF CsRows
    <3>2. events'[id] = [events[id] EXCEPT !.live = FALSE, !.at = clock + 1] /\ events[id] \in EventRow
      BY <2>1 DEF CsRows
    <3>3. events'[id].at = clock + 1
      BY <3>2 DEF EventRow
    <3>4. events'[id].done = events[id].done
      BY <3>2 DEF EventRow
    <3>5. ~events'[id].live
      BY <3>2 DEF EventRow
    <3> QED
      BY <3>1, <3>3, <3>4, <3>5
  <2> QED
    BY <2>1, <2>2, <2>3, <2>4
<1> QED
  BY <1>1, <1>2

LEMMA TickPushes == ASSUME CsRows, CsNext, TickTask, Plain' PROVE pushes' > 0
<1>1. ~lost' /\ task.sync /\ Enqueues
  BY PlainBack DEF TickTask, Plain
<1>2. SyncNeeded
  BY <1>1 DEF Enqueues
<1>3. pushes' = pushes + 1 /\ pushes \in Nat
  <2>1. pushes' = pushes + 1
    BY <1>1, <1>2, Zenon DEF Enqueues, Sent, Unsent
  <2> QED
    BY <2>1 DEF CsRows
<1> QED
  BY <1>3

LEMMA PushStep ==
    ASSUME CsRows, TimesOK, SeenOK, WorkOK, OneSyncer, OneSyncer', CsRows', TimesOK', RemovalsOK, PushOK, CsNext
    PROVE  PushOK'
<1> SUFFICES ASSUME Plain', NEW s \in Syncers PROVE PushRow(s)'
  BY DEF PushOK
<1>0. Plain /\ PushRow(s) /\ ~crossed /\ (raced => raced') /\ (\A t \in Syncers : ~At(t, "remove")) /\ removals = {}
  BY PlainBack, Sticky DEF PushOK, Plain, RemovalsOK
<1>n. /\ clock \in Nat /\ token \in Nat /\ token <= clock /\ pushes \in Nat
      /\ \A t \in Syncers : syncer[t].at \in Nat /\ syncer[t].at <= clock
      /\ \A i \in Created : events[i].at \in Nat
  BY DEF CsRows, TimesOK, SyncRow, EventRow
<1>1. ASSUME syncer'[s].pc \in {"idle", "pulled", "applied"} PROVE PushRow(s)'
  BY <1>1 DEF PushRow, Creates, At
<1>2. ASSUME NEW w \in Syncers, OneMoves(w), s # w, ~Idle(w) \/ Idle(s) PROVE PushRow(s)'
  BY <1>0, <1>1, <1>2 DEF OneSyncer, OneMoves, Idle
<1>3. ASSUME NEW w \in Syncers, Rests(w), ~Idle(w) PROVE PushRow(s)'
  BY <1>1, <1>2, <1>3, Restings DEF OneMoves
<1>4. ASSUME NEW w \in Syncers, TakePush(w) PROVE PushRow(s)'
  <2>1. PICK pc \in {"patch", "post"} : Takes(w, pc) /\ (pc = "post" => map.id = 0) /\ \A t \in Syncers : Idle(t)
    BY <1>4, PlainTake
  <2>2. /\ syncer'[w].pc = pc /\ syncer'[w].map = map /\ syncer'[w].copy = {task} /\ OneMoves(w)
    BY <2>1, Takings DEF Pcs, OneMoves
  <2>3. UNCHANGED <<map, task>>
    BY <1>4 DEF TakePush
  <2>4. CASE s = w
    BY <2>1, <2>2, <2>3, <2>4 DEF PushRow, Creates, At
  <2> QED
    BY <1>2, <2>1, <2>2, <2>4
<1>5. ASSUME NEW w \in Syncers, PatchEvent(w) PROVE PushRow(s)'
  <2>1. At(w, "patch") /\ ~Idle(w) /\ OneMoves(w) /\ UNCHANGED <<task, pushes>>
    BY <1>5, Goings DEF PatchEvent, OneMoves, Pcs, At, Idle
  <2>2. ASSUME s = w, Live(syncer[s].map.id) PROVE PushRow(s)'
    <3>1. /\ syncer'[s].pc = "patched" /\ syncer'[s].map = syncer[s].map /\ syncer'[s].at = syncer[s].at /\ UNCHANGED map
      BY <1>5, <2>2, Goings DEF PatchEvent, Pcs
    <3>2. PICK mine \in syncer[s].copy : events' = [events EXCEPT ![syncer[s].map.id] = Body(mine)]
      BY <1>5, <2>2 DEF PatchEvent
    <3>3. map.id = syncer[s].map.id /\ map.id \in Created
      BY <1>0, <2>1, <2>2 DEF PushRow, At, Live
    <3>4. events'[map.id].at = clock + 1
      BY <3>2, <3>3 DEF CsRows, Body
    <3>5. map'.id = syncer'[s].map.id /\ Later(syncer[s].at)'
      BY <1>n, <3>1, <3>3, <3>4 DEF Later
    <3> QED
      BY <3>1, <3>5 DEF PushRow, Creates, At
  <2>3. ASSUME s = w, ~Live(syncer[s].map.id) PROVE PushRow(s)'
    <3>1. syncer'[s].pc = "post" /\ syncer'[s].copy = syncer[s].copy /\ map' = NoEvent
      BY <1>5, <2>3, Goings DEF PatchEvent, Pcs
    <3> QED
      BY <1>0, <2>1, <2>3, <3>1 DEF PushRow, Creates, At, NoEvent
  <2> QED
    BY <1>2, <2>1, <2>2, <2>3
<1>6. ASSUME NEW w \in Syncers, PostEvent(w) PROVE PushRow(s)'
  <2>1. At(w, "post") /\ ~Idle(w) /\ UNCHANGED <<task, pushes, map, token, raced>>
    BY <1>6 DEF PostEvent, At, Idle
  <2>2. PICK id \in Nat \ {0} :
           /\ \E t \in syncer[w].copy : events'[id] = Body(t)
           /\ OneMoves(w)
           /\ syncer'[w].pc = "posted" /\ syncer'[w].map.id = id /\ syncer'[w].at = syncer[w].at
    BY <1>6, Postings DEF OneMoves
  <2>3. PICK mine \in syncer[w].copy : events'[id] = Body(mine)
    BY <2>2
  <2>4. ASSUME s = w PROVE PushRow(s)'
    <3>1. map.id = 0 /\ mine.date = task.date /\ (pushes > 0 \/ mine.done = task.done)
      BY <1>0, <2>1, <2>4 DEF PushRow, Creates, At
    <3>2. events'[id].at = clock + 1 /\ events'[id].date = mine.date /\ events'[id].done = mine.done
      BY <2>3 DEF Body
    <3>3. events'[id].at > syncer'[s].at /\ events'[id].at > token'
      BY <1>n, <2>1, <2>2, <2>4, <3>2
    <3> QED
      BY <2>1, <2>2, <2>4, <3>1, <3>2, <3>3 DEF PushRow, Creates, At
  <2> QED
    BY <1>2, <2>1, <2>2, <2>4
<1>7. ASSUME NEW w \in Syncers, KeepTime(w) \/ KeepEvent(w) \/ SyncBreaks(w) \/ KeepToken(w) \/ PullBreaks(w) PROVE PushRow(s)'
  <2>1. Rests(w) /\ ~Idle(w)
    BY <1>7 DEF KeepTime, KeepEvent, SyncBreaks, KeepToken, PullBreaks, At, Idle, Pushing
  <2> QED
    BY <1>3, <2>1
<1>8. ASSUME NEW w \in Syncers, PullEvents(w) PROVE PushRow(s)'
  <2>1. OneMoves(w) /\ syncer'[w].pc = "pulled"
    BY <1>8, Pullings DEF OneMoves
  <2>2. \A t \in Syncers : Idle(t)
    BY <1>8 DEF PullEvents, Plain, Busy
  <2> QED
    BY <1>1, <1>2, <2>1, <2>2
<1>9. ASSUME NEW w \in Syncers, ApplyPulled(w) PROVE PushRow(s)'
  <2>1. OneMoves(w) /\ syncer'[w].pc = "applied" /\ ~Idle(w)
    BY <1>9, Goings DEF ApplyPulled, OneMoves, Pcs, At, Idle
  <2> QED
    BY <1>1, <1>2, <2>1
<1>10. ASSUME TickTask PROVE PushRow(s)'
  <2>1. UNCHANGED <<map, token, events, syncer>> /\ task' = [task EXCEPT !.done = ~task.done]
    BY <1>10 DEF TickTask
  <2>2. task'.date = task.date
    BY <2>1 DEF CsRows, TaskRow
  <2>3. pushes' > 0
    BY <1>10, TickPushes
  <2> QED
    BY <1>0, <2>1, <2>2, <2>3 DEF PushRow, Creates, At, Later
<1>11. ASSUME MoveEvent \/ DropEvent PROVE PushRow(s)'
  <2>1. UNCHANGED <<task, map, token, pushes, syncer>> /\ Created' = Created
    BY <1>11, PersonMoves
  <2>2. PICK id \in Created : /\ events'[id].at = clock + 1 /\ events'[id].done = events[id].done
                              /\ \A j \in Created \ {id} : events'[j] = events[j]
                              /\ MoveEvent \/ ~events'[id].live
    BY <1>11, PersonMoves
  <2>3. MoveEvent /\ At(s, "posted") => raced'
    BY DEF MoveEvent, Pushing, At
  <2>4. \A j \in Created : events[j].live \/ ~events'[j].live
    BY <1>11, EventsMove
  <2>5. At(s, "patched") => Later(syncer[s].at)'
    <3> SUFFICES ASSUME At(s, "patched") PROVE Later(syncer[s].at)'
      OBVIOUS
    <3>1. map.id \in Created /\ Later(syncer[s].at)
      BY <1>0 DEF PushRow, WorkOK, At
    <3> QED
      BY <1>n, <2>1, <2>2, <3>1 DEF Later
  <2>6. ASSUME At(s, "posted"), NEW i, i = syncer[s].map.id
        PROVE  /\ events'[i].at > syncer[s].at /\ events'[i].at > token
               /\ events'[i].live => (pushes > 0 \/ events'[i].done = task.done) /\ (raced' \/ events'[i].date = task.date)
    <3>1. /\ i \in Created /\ events[i].at > syncer[s].at /\ events[i].at > token
          /\ events[i].live => (pushes > 0 \/ events[i].done = task.done) /\ (raced \/ events[i].date = task.date)
      BY <1>0, <2>6 DEF PushRow, WorkOK, At
    <3>2. CASE i = id
      BY <1>n, <2>2, <2>3, <2>4, <2>6, <3>1, <3>2
    <3>3. CASE i # id
      BY <1>0, <2>2, <3>1, <3>3
    <3> QED
      BY <3>2, <3>3
  <2> QED
    BY <1>0, <2>1, <2>5, <2>6 DEF PushRow, Creates, At
<1>12. ASSUME LoseAccess PROVE PushRow(s)'
  <2>1. syncer' = syncer /\ UNCHANGED <<task, map, token, events, pushes, raced>>
    BY <1>12 DEF LoseAccess, Plain
  <2> QED
    BY <1>0, <2>1 DEF PushRow, Creates, At, Later
<1>13. ASSUME Disconnect PROVE PushRow(s)'
  BY <1>1, <1>13 DEF Disconnect, Free
<1>14. ASSUME Connect PROVE PushRow(s)'
  <2>1. UNCHANGED <<task, map, events, pushes, syncer, raced>> /\ token' = 0
    BY <1>14 DEF Connect
  <2>2. At(s, "posted") => syncer[s].map.id \in Created
    BY DEF WorkOK, At
  <2> QED
    BY <1>0, <1>n, <2>1, <2>2 DEF PushRow, Creates, At, Later
<1> QED
  BY <1>0, <1>4, <1>5, <1>6, <1>7, <1>8, <1>9, <1>10, <1>11, <1>12, <1>13, <1>14, PlainBack DEF CsNext, RemoveEvent, DeleteEvent

LEMMA DoneStep ==
    ASSUME CsRows, TimesOK, SeenOK, WorkOK, OneSyncer, RemovalsOK, PushOK, DoneOK, CsNext
    PROVE  DoneOK'
<1> SUFFICES ASSUME Ours', pushes' = 0, \A s \in Syncers : ~At(s, "patch")', events'[map'.id].live
             PROVE  events'[map'.id].done = task'.done
  <2>1. pushes' \in Nat
    BY RowsStep DEF CsRows
  <2> QED
    BY <2>1 DEF DoneOK
<1>0. Plain' /\ Plain /\ map'.id # 0 /\ pushes \in Nat
  BY PlainBack DEF Ours, CsRows
<1>a. OneSyncer /\ ~crossed /\ (\A s \in Syncers : PushRow(s))
  BY <1>0 DEF PushOK, Plain
<1>1. ASSUME UNCHANGED <<events, pushes>>, map'.id = map.id, task'.done = task.done, \A t \in Syncers : ~At(t, "patch")
      PROVE  events'[map'.id].done = task'.done
  BY <1>0, <1>1 DEF DoneOK, Ours
<1>2. ASSUME NEW w \in Syncers, UNCHANGED <<events, pushes>>, map'.id = map.id, task'.done = task.done, ~Idle(w), ~At(w, "patch")
      PROVE  events'[map'.id].done = task'.done
  <2>1. \A t \in Syncers : ~At(t, "patch")
    BY <1>a, <1>2 DEF OneSyncer, Idle, At
  <2> QED
    BY <1>1, <1>2, <2>1
<1>3. ASSUME NEW w \in Syncers, TakePush(w) PROVE FALSE
  <2>1. PICK pc \in {"patch", "post"} : Takes(w, pc) /\ (pc = "post" => map.id = 0)
    BY <1>0, <1>3, PlainTake
  <2>2. syncer'[w].pc = pc /\ UNCHANGED map
    BY <1>3, <2>1, Takings DEF Pcs, TakePush
  <2> QED
    BY <1>0, <2>1, <2>2 DEF At
<1>4. ASSUME NEW w \in Syncers, PatchEvent(w) PROVE events'[map'.id].done = task'.done
  <2>1. Live(syncer[w].map.id) /\ UNCHANGED <<task, pushes, map>> /\ map.id = syncer[w].map.id
    <3>1. map.id = syncer[w].map.id /\ UNCHANGED <<task, pushes>>
      BY <1>a, <1>4 DEF PatchEvent, PushRow, At
    <3> QED
      BY <1>0, <1>4, <3>1 DEF PatchEvent, NoEvent
  <2>2. PICK mine \in syncer[w].copy : events' = [events EXCEPT ![syncer[w].map.id] = Body(mine)]
    BY <1>4, <2>1 DEF PatchEvent
  <2>3. events'[map.id].done = mine.done
    BY <2>1, <2>2 DEF CsRows, Live, Body
  <2>4. mine.done = task.done
    BY <1>a, <1>4, <2>1 DEF PushRow, PatchEvent, At
  <2> QED
    BY <2>1, <2>3, <2>4
<1>5. ASSUME NEW w \in Syncers, KeepEvent(w) PROVE events'[map'.id].done = task'.done
  <2>1. At(w, "posted") /\ UNCHANGED <<task, events, pushes>>
    BY <1>5 DEF KeepEvent
  <2>2. map' = [id |-> syncer[w].map.id, at |-> syncer[w].at]
    BY <1>0, <1>5 DEF KeepEvent, Plain
  <2> QED
    BY <1>a, <2>1, <2>2 DEF PushRow
<1>6. ASSUME NEW w \in Syncers, PostEvent(w) PROVE FALSE
  BY <1>0, <1>a, <1>6 DEF PostEvent, PushRow, Creates, At
<1>7. ASSUME NEW w \in Syncers, SyncBreaks(w) PROVE FALSE
  BY <1>0, <1>7 DEF SyncBreaks, Sent, Unsent, Plain
<1>8. ASSUME NEW w \in Syncers, KeepTime(w) \/ KeepToken(w) \/ PullBreaks(w) PROVE events'[map'.id].done = task'.done
  <2>1. map' = map \/ map' = [map EXCEPT !.at = syncer[w].at]
    BY <1>8 DEF KeepTime, KeepToken, PullBreaks
  <2>2. map'.id = map.id
    BY <2>1 DEF CsRows
  <2>3. UNCHANGED <<events, pushes, task>> /\ ~Idle(w) /\ ~At(w, "patch")
    BY <1>8 DEF KeepTime, KeepToken, PullBreaks, At, Idle
  <2> QED
    BY <1>2, <2>2, <2>3
<1>9. ASSUME NEW w \in Syncers, ApplyPulled(w) PROVE events'[map'.id].done = task'.done
  <2>1. map' = map \/ map' = NoEvent \/ map' = [map EXCEPT !.at = clock]
    BY <1>9 DEF ApplyPulled
  <2>2. map'.id = map.id
    BY <1>0, <2>1 DEF CsRows, NoEvent
  <2>3. UNCHANGED <<events, pushes>> /\ ~Idle(w) /\ ~At(w, "patch") /\ ~TickTask
    <3>1. ~TickTask
      <4>1. ~(clock' = clock + 1)
        BY <1>9 DEF ApplyPulled, CsRows
      <4> QED
        BY <4>1 DEF TickTask, Tick
    <3> QED
      BY <1>9, <3>1 DEF ApplyPulled, At, Idle
  <2>4. task'.done = task.done
    BY <1>0, <2>3, PlainBack
  <2> QED
    BY <1>2, <2>2, <2>3, <2>4
<1>10. ASSUME NEW w \in Syncers, PullEvents(w) PROVE events'[map'.id].done = task'.done
  <2>1. \A t \in Syncers : ~At(t, "patch")
    BY <1>0, <1>10 DEF PullEvents, Plain, Busy, Idle, At
  <2> QED
    BY <1>1, <1>10, <2>1 DEF PullEvents
<1>11. ASSUME TickTask PROVE FALSE
  BY <1>0, <1>11, TickPushes
<1>12. ASSUME MoveEvent \/ DropEvent PROVE events'[map'.id].done = task'.done
  <2>1. UNCHANGED <<task, map, pushes, syncer>> /\ \A j \in Created : events'[j].done = events[j].done
    BY <1>12, PersonMoves
  <2>2. map.id \in Created
    BY <1>0, <2>1 DEF TimesOK
  <2>3. events[map.id].live /\ \A t \in Syncers : ~At(t, "patch")
    BY <2>1, <2>2, EventsMove DEF At
  <2> QED
    BY <1>0, <2>1, <2>2, <2>3 DEF DoneOK, Ours
<1>13. ASSUME LoseAccess \/ Connect PROVE events'[map'.id].done = task'.done
  <2>1. UNCHANGED <<task, map, events, pushes, syncer>>
    BY <1>0, <1>13 DEF LoseAccess, Connect, Plain
  <2> QED
    BY <1>1, <2>1 DEF At
<1>14. ASSUME Disconnect PROVE FALSE
  BY <1>0, <1>14 DEF Disconnect, NoEvent
<1>15. (\A w \in Syncers : ~RemoveEvent(w)) /\ ~DeleteEvent /\ ~DeleteTask
  BY <1>0, PlainBack DEF RemovalsOK, RemoveEvent, DeleteEvent
<1> QED
  BY <1>3, <1>4, <1>5, <1>6, <1>7, <1>8, <1>9, <1>10, <1>11, <1>12, <1>13, <1>14, <1>15 DEF CsNext

LEMMA DateStep ==
    ASSUME CsRows, TimesOK, SeenOK, WorkOK, OneSyncer, RemovalsOK, PushOK, DateOK, CsNext
    PROVE  DateOK'
<1> DEFINE Fit == /\ Later(token) \/ Agrees(map.id)
                  /\ events[map.id].live /\ ~Later(map.at) => events[map.id].date = task.date
<1> SUFFICES ASSUME Ours', ~during' PROVE Fit' /\ \A s \in Syncers : DateRow(s)'
  BY DEF DateOK
<1>0. Plain' /\ Plain /\ map'.id # 0 /\ ~during /\ map'.id \in Created'
  BY PlainBack, Sticky, RowsStep DEF Ours, TimesOK
<1>a. OneSyncer /\ ~crossed /\ (\A s \in Syncers : PushRow(s))
  BY <1>0 DEF PushOK, Plain
<1>b. map.id # 0 => Fit /\ (\A s \in Syncers : DateRow(s)) /\ map.id \in Created
  BY <1>0 DEF DateOK, Ours, TimesOK
<1>n. /\ clock \in Nat /\ token \in Nat /\ token <= clock /\ map.at \in Nat /\ map.at <= clock
      /\ \A t \in Syncers : syncer[t].at \in Nat /\ syncer[t].at <= clock
      /\ \A i \in Created : events[i].at \in Nat /\ events[i].at <= clock
  BY DEF CsRows, TimesOK, SyncRow, EventRow
<1>1. ASSUME UNCHANGED <<events, map>>, task'.date = task.date, token' = token \/ token' = 0 PROVE Fit'
  BY <1>b, <1>0, <1>1, <1>n DEF Later, Agrees
<1>2. ASSUME NEW w \in Syncers, OneMoves(w), ~Idle(w) \/ \A t \in Syncers : Idle(t), syncer'[w].pc \notin {"pulled", "applied"}
      PROVE  \A s \in Syncers : DateRow(s)'
  BY <1>a, <1>2 DEF OneSyncer, OneMoves, Idle, DateRow, At
<1>3. ASSUME UNCHANGED <<events, syncer, map>>, task'.date = task.date PROVE \A s \in Syncers : DateRow(s)'
  BY <1>b, <1>0, <1>3 DEF DateRow, At, Later, Agrees
<1>4. ASSUME NEW w \in Syncers, TakePush(w) PROVE Fit' /\ \A s \in Syncers : DateRow(s)'
  <2>1. PICK pc \in {"patch", "post"} : Takes(w, pc) /\ \A t \in Syncers : Idle(t)
    BY <1>0, <1>4, PlainTake
  <2>2. syncer'[w].pc = pc /\ OneMoves(w) /\ UNCHANGED <<map, task, events, token>>
    BY <1>4, <2>1, Takings DEF Pcs, TakePush, OneMoves
  <2> QED
    BY <1>1, <1>2, <2>1, <2>2
<1>5. ASSUME NEW w \in Syncers, PatchEvent(w) PROVE Fit' /\ \A s \in Syncers : DateRow(s)'
  <2>1. Live(syncer[w].map.id) /\ UNCHANGED <<task, token, map>> /\ map.id = syncer[w].map.id
    <3>1. map.id = syncer[w].map.id /\ UNCHANGED <<task, token>>
      BY <1>a, <1>5 DEF PatchEvent, PushRow, At
    <3> QED
      BY <1>0, <1>5, <3>1 DEF PatchEvent, NoEvent
  <2>2. PICK mine \in syncer[w].copy : events' = [events EXCEPT ![syncer[w].map.id] = Body(mine)]
    BY <1>5, <2>1 DEF PatchEvent
  <2>3. events'[map.id].at = clock + 1 /\ events'[map.id].date = mine.date
    BY <2>1, <2>2 DEF CsRows, Live, Body
  <2>4. mine.date = task.date
    BY <1>a, <1>5, <2>1 DEF PushRow, PatchEvent, At
  <2>5. Fit'
    BY <1>n, <2>1, <2>3, <2>4 DEF Later
  <2>6. ~Idle(w) /\ OneMoves(w) /\ syncer'[w].pc \notin {"pulled", "applied"}
    BY <1>5, <2>1, Goings DEF PatchEvent, OneMoves, Idle, At, Pcs
  <2> QED
    BY <1>2, <2>5, <2>6
<1>6. ASSUME NEW w \in Syncers, KeepTime(w) PROVE Fit' /\ \A s \in Syncers : DateRow(s)'
  <2>1. Rests(w) /\ ~Idle(w) /\ At(w, "patched") /\ UNCHANGED <<task, token, events>>
    BY <1>6 DEF KeepTime, Idle, At
  <2>2. map.id = syncer[w].map.id /\ Later(syncer[w].at)
    BY <1>a, <2>1 DEF PushRow, At
  <2>3. map' = [map EXCEPT !.at = syncer[w].at]
    BY <1>6, <2>2 DEF KeepTime
  <2>4. map'.id = map.id /\ map'.at = syncer[w].at
    BY <2>3 DEF CsRows
  <2>5. Fit'
    BY <1>b, <1>0, <2>1, <2>2, <2>4 DEF Later, Agrees
  <2> QED
    BY <1>2, <2>1, <2>5, Restings DEF OneMoves
<1>7. ASSUME NEW w \in Syncers, KeepEvent(w) PROVE Fit' /\ \A s \in Syncers : DateRow(s)'
  <2>1. Rests(w) /\ ~Idle(w) /\ At(w, "posted") /\ UNCHANGED <<task, token, events>>
    BY <1>7 DEF KeepEvent, Idle, At
  <2>2. map' = [id |-> syncer[w].map.id, at |-> syncer[w].at]
    BY <1>0, <1>7 DEF KeepEvent, Plain
  <2>3. Later(token)' /\ Later(map.at)'
    BY <1>a, <2>1, <2>2 DEF PushRow, Later
  <2> QED
    BY <1>2, <2>1, <2>3, Restings DEF OneMoves
<1>8. ASSUME NEW w \in Syncers, PostEvent(w) PROVE FALSE
  BY <1>0, <1>a, <1>8 DEF PostEvent, PushRow, Creates, At
<1>9. ASSUME NEW w \in Syncers, SyncBreaks(w) \/ PullBreaks(w) PROVE Fit' /\ \A s \in Syncers : DateRow(s)'
  <2>1. Rests(w) /\ ~Idle(w) /\ UNCHANGED <<task, token, events, map>>
    BY <1>9 DEF SyncBreaks, PullBreaks, Idle, Pushing
  <2> QED
    BY <1>1, <1>2, <2>1, Restings DEF OneMoves
<1>10. ASSUME NEW w \in Syncers, KeepToken(w) PROVE Fit' /\ \A s \in Syncers : DateRow(s)'
  <2>1. Rests(w) /\ ~Idle(w) /\ At(w, "applied") /\ UNCHANGED <<task, events, map>> /\ token' = syncer[w].at
    BY <1>10 DEF KeepToken, Idle, At
  <2>2. Fit'
    BY <1>b, <1>0, <2>1 DEF DateRow, Later, Agrees
  <2> QED
    BY <1>2, <2>1, <2>2, Restings DEF OneMoves
<1>11. ASSUME NEW w \in Syncers, PullEvents(w) PROVE Fit' /\ \A s \in Syncers : DateRow(s)'
  <2>1. UNCHANGED <<task, token, events, map>> /\ OneMoves(w) /\ \A t \in Syncers : Idle(t)
    BY <1>0, <1>11, Pullings DEF PullEvents, OneMoves, Plain, Busy
  <2>2. /\ syncer'[w].pc = "pulled" /\ syncer'[w].at = clock
        /\ \A e : e \in syncer'[w].seen <=> \E i \in Created : events[i].at > token /\ e = [id |-> i, event |-> events[i]]
    BY <1>11, Pullings
  <2>3. Fit /\ map.id \in Created
    BY <1>b, <1>0, <2>1
  <2>4. ~Agrees(map.id) => [id |-> map.id, event |-> events[map.id]] \in syncer'[w].seen
    BY <2>2, <2>3 DEF Later
  <2>5. \A e \in syncer'[w].seen : e.id = map.id => e.event = events[map.id]
    BY <2>2
  <2>6. DateRow(w)'
    BY <2>1, <2>2, <2>4, <2>5 DEF DateRow, At, Agrees
  <2>7. \A s \in Syncers \ {w} : DateRow(s)'
    BY <2>1 DEF OneMoves, DateRow, Idle, At
  <2> QED
    BY <1>1, <2>1, <2>6, <2>7
<1>12. ASSUME NEW w \in Syncers, ApplyPulled(w) PROVE Fit' /\ \A s \in Syncers : DateRow(s)'
  <2>0. UNCHANGED <<events, token>> /\ At(w, "pulled") /\ ~Idle(w)
    BY <1>12 DEF ApplyPulled, At, Idle
  <2>1. syncer'[w].pc = "applied" /\ syncer'[w].at = syncer[w].at /\ OneMoves(w)
    BY <1>12, Goings DEF ApplyPulled, OneMoves, Pcs
  <2>2. \A s \in Syncers \ {w} : DateRow(s)'
    BY <1>a, <2>0, <2>1 DEF OneSyncer, OneMoves, DateRow, Idle, At
  <2>3. CASE map' = map /\ task' = task /\ \A e \in syncer[w].seen : e.id = map.id => e.event.live /\ Echo(e.event)
    <3>1. Fit' /\ DateRow(w)
      BY <1>b, <1>0, <1>1, <2>0, <2>3
    <3>2. ASSUME [id |-> map.id, event |-> events[map.id]] \in syncer[w].seen PROVE Agrees(map.id)
      <4>1. events[map.id].live /\ Echo(events[map.id])
        BY <2>3, <3>2
      <4>2. ~Later(map.at)
        BY <1>n, <1>b, <1>0, <2>3, <4>1 DEF Echo, Later
      <4> QED
        BY <1>b, <1>0, <2>3, <4>1, <4>2 DEF Agrees
    <3>3. Later(syncer[w].at) \/ Agrees(map.id)
      BY <2>0, <3>1, <3>2 DEF DateRow
    <3>4. DateRow(w)'
      BY <2>0, <2>1, <2>3, <3>3 DEF DateRow, At, Later, Agrees
    <3> QED
      BY <2>2, <3>1, <3>4
  <2>4. CASE \E e \in syncer[w].seen : e.id = map.id /\ e.event.live /\ task' = [task EXCEPT !.date = e.event.date]
                                       /\ map' = [map EXCEPT !.at = clock]
    <3>1. PICK e \in syncer[w].seen : e.id = map.id /\ e.event.live /\ task' = [task EXCEPT !.date = e.event.date]
                                      /\ map' = [map EXCEPT !.at = clock]
      BY <2>4
    <3>2. task'.date = e.event.date /\ map'.id = map.id
      BY <3>1 DEF CsRows, TaskRow
    <3>3. Fit /\ DateRow(w) /\ map.id \in Created
      BY <1>b, <1>0, <3>2
    <3>4. events[map.id].live => Agrees(map.id)'
      BY <2>0, <3>1, <3>2, <3>3 DEF DateRow, Agrees
    <3>5. ~events[map.id].live => Later(token) /\ Later(syncer[w].at)
      <4>1. ASSUME [id |-> map.id, event |-> events[map.id]] \in syncer[w].seen PROVE events[map.id].live
        <5>1. PICK f \in syncer[w].seen : f = [id |-> map.id, event |-> events[map.id]]
          BY <4>1
        <5>2. f = e
          BY <3>1, <5>1 DEF SeenOK
        <5> QED
          BY <3>1, <5>1, <5>2
      <4> QED
        BY <2>0, <3>3, <4>1 DEF DateRow, Agrees
    <3>6. Fit'
      BY <2>0, <3>2, <3>4, <3>5 DEF Later, Agrees
    <3>7. DateRow(w)'
      BY <2>0, <2>1, <3>2, <3>4, <3>5 DEF DateRow, At, Later
    <3> QED
      BY <2>2, <3>6, <3>7
  <2>5. CASE map' = NoEvent
    BY <1>0, <2>5 DEF NoEvent
  <2> QED
    BY <1>12, <2>3, <2>4, <2>5 DEF ApplyPulled
<1>13. ASSUME TickTask PROVE Fit' /\ \A s \in Syncers : DateRow(s)'
  <2>1. UNCHANGED <<map, token, events, syncer>> /\ task' = [task EXCEPT !.done = ~task.done]
    BY <1>13 DEF TickTask
  <2>2. task'.date = task.date
    BY <2>1 DEF CsRows, TaskRow
  <2> QED
    BY <1>1, <1>3, <2>1, <2>2
<1>14. ASSUME MoveEvent \/ DropEvent PROVE Fit' /\ \A s \in Syncers : DateRow(s)'
  <2>1. UNCHANGED <<task, map, token, syncer>>
    BY <1>14, PersonMoves
  <2>2. PICK id \in Created : /\ events'[id].at = clock + 1
                              /\ \A j \in Created \ {id} : events'[j] = events[j]
                              /\ MoveEvent \/ ~events'[id].live
    BY <1>14, PersonMoves
  <2>3. MoveEvent => \A s \in Syncers : ~At(s, "pulled")
    BY DEF MoveEvent
  <2>4. Fit /\ (\A s \in Syncers : DateRow(s)) /\ map.id \in Created
    BY <1>0, <1>b, <2>1
  <2>5. CASE id = map.id
    <3>1. Later(token)' /\ Later(map.at)' /\ \A s \in Syncers : Later(syncer[s].at)'
      BY <1>n, <2>1, <2>2, <2>5 DEF Later
    <3> QED
      BY <2>1, <2>2, <2>3, <2>5, <3>1 DEF DateRow, At
  <2>6. CASE id # map.id
    <3>1. events'[map.id] = events[map.id]
      BY <2>2, <2>4, <2>6
    <3> QED
      BY <2>1, <2>4, <3>1 DEF DateRow, At, Later, Agrees
  <2> QED
    BY <2>5, <2>6
<1>15. ASSUME LoseAccess \/ Connect PROVE Fit' /\ \A s \in Syncers : DateRow(s)'
  <2>1. UNCHANGED <<task, map, events, syncer>> /\ (token' = token \/ token' = 0)
    BY <1>0, <1>15 DEF LoseAccess, Connect, Plain
  <2> QED
    BY <1>1, <1>3, <2>1
<1>16. ASSUME Disconnect PROVE FALSE
  BY <1>0, <1>16 DEF Disconnect, NoEvent
<1>17. (\A w \in Syncers : ~RemoveEvent(w)) /\ ~DeleteEvent /\ ~DeleteTask
  BY <1>0, PlainBack DEF RemovalsOK, RemoveEvent, DeleteEvent
<1> QED
  BY <1>4, <1>5, <1>6, <1>7, <1>8, <1>9, <1>10, <1>11, <1>12, <1>13, <1>14, <1>15, <1>16, <1>17 DEF CsNext

LEMMA WishStep ==
    ASSUME CsRows, TimesOK, SeenOK, WorkOK, OneSyncer, RemovalsOK, PushOK, DateOK, WishOK, CsNext
    PROVE  WishOK'
<1> DEFINE Due == pushes > 0 \/ \E s \in Syncers : Pushing(s)
           Fit == events[map.id].date = wish /\ (Due => task.date = wish)
<1> SUFFICES ASSUME Ours', ~during', ~raced', events'[map'.id].live PROVE Fit'
  BY DEF WishOK
<1>0. Plain' /\ Plain /\ map'.id # 0 /\ ~during /\ ~raced /\ map'.id \in Created' /\ pushes \in Nat
  BY PlainBack, Sticky, RowsStep DEF Ours, TimesOK, CsRows
<1>a. \A s \in Syncers : PushRow(s)
  BY <1>0 DEF PushOK
<1>b. map.id # 0 /\ events[map.id].live => Fit
  BY <1>0 DEF WishOK, Ours
<1>1. ASSUME UNCHANGED <<events, wish>>, map'.id = map.id, task'.date = task.date, Due' => Due PROVE Fit'
  BY <1>b, <1>0, <1>1
<1>2. ASSUME NEW w \in Syncers, OneMoves(w), Pushing(w)' => Due, UNCHANGED pushes PROVE Due' => Due
  BY <1>2 DEF OneMoves, Pushing
<1> HIDE DEF Due
<1>3. ASSUME NEW w \in Syncers, TakePush(w) PROVE Fit'
  <2>1. UNCHANGED <<map, task, events, wish>> /\ Due
    BY <1>3 DEF TakePush, Due
  <2> QED
    BY <1>1, <2>1
<1>4. ASSUME NEW w \in Syncers, PatchEvent(w) PROVE Fit'
  <2>1. Live(syncer[w].map.id) /\ UNCHANGED <<task, map, wish>> /\ map.id = syncer[w].map.id
    <3>1. map.id = syncer[w].map.id /\ UNCHANGED <<task, wish>>
      BY <1>a, <1>4 DEF PatchEvent, PushRow, At
    <3> QED
      BY <1>0, <1>4, <3>1 DEF PatchEvent, NoEvent
  <2>2. PICK mine \in syncer[w].copy : events' = [events EXCEPT ![syncer[w].map.id] = Body(mine)]
    BY <1>4, <2>1 DEF PatchEvent
  <2>3. events'[map.id].date = mine.date
    BY <2>1, <2>2 DEF CsRows, Live, Body
  <2>4. mine.date = task.date
    BY <1>a, <1>4, <2>1 DEF PushRow, PatchEvent, At
  <2>5. task.date = wish
    <3>1. Due
      BY <1>4 DEF PatchEvent, At, Pushing, Due
    <3> QED
      BY <1>b, <1>0, <2>1, <3>1 DEF Live
  <2> QED
    BY <2>1, <2>3, <2>4, <2>5
<1>5. ASSUME NEW w \in Syncers, KeepTime(w) PROVE Fit'
  <2>1. UNCHANGED <<task, events, wish>> /\ Due
    BY <1>5 DEF KeepTime, At, Pushing, Due
  <2>2. map' = map \/ map' = [map EXCEPT !.at = syncer[w].at]
    BY <1>5 DEF KeepTime
  <2>3. map'.id = map.id
    BY <2>2 DEF CsRows
  <2> QED
    BY <1>1, <2>1, <2>3
<1>6. ASSUME NEW w \in Syncers, KeepEvent(w) PROVE Fit'
  <2>1. At(w, "posted") /\ UNCHANGED <<task, events>>
    BY <1>6 DEF KeepEvent
  <2>2. map' = [id |-> syncer[w].map.id, at |-> syncer[w].at] /\ wish' = task.date
    BY <1>0, <1>6 DEF KeepEvent, Plain
  <2>3. events[map'.id].live => events[map'.id].date = task.date
    BY <1>0, <1>a, <2>1, <2>2 DEF PushRow
  <2> QED
    BY <2>1, <2>2, <2>3
<1>7. ASSUME NEW w \in Syncers, PostEvent(w) PROVE FALSE
  BY <1>0, <1>a, <1>7 DEF PostEvent, PushRow, Creates, At
<1>8. ASSUME NEW w \in Syncers, SyncBreaks(w) PROVE Fit'
  BY <1>1, <1>8 DEF SyncBreaks, Due
<1>9. ASSUME NEW w \in Syncers, KeepToken(w) \/ PullBreaks(w) PROVE Fit'
  <2>1. Rests(w) /\ UNCHANGED <<task, events, map, wish, pushes>>
    BY <1>9 DEF KeepToken, PullBreaks
  <2>2. OneMoves(w) /\ ~Pushing(w)'
    BY <2>1, Restings DEF OneMoves, Pushing
  <2> QED
    BY <1>1, <1>2, <2>1, <2>2
<1>10. ASSUME NEW w \in Syncers, PullEvents(w) PROVE Fit'
  <2>1. OneMoves(w) /\ ~Pushing(w)' /\ UNCHANGED <<task, events, map, wish, pushes>>
    BY <1>10, Pullings DEF PullEvents, OneMoves, Pushing
  <2> QED
    BY <1>1, <1>2, <2>1
<1>11. ASSUME NEW w \in Syncers, ApplyPulled(w) PROVE Fit'
  <2>1. UNCHANGED <<events, wish, pushes>> /\ At(w, "pulled")
    BY <1>11 DEF ApplyPulled
  <2>2. OneMoves(w) /\ ~Pushing(w)'
    BY <1>11, Goings DEF ApplyPulled, OneMoves, Pcs, Pushing
  <2>3. CASE UNCHANGED <<task, map>>
    BY <1>1, <1>2, <2>1, <2>2, <2>3
  <2>4. CASE \E e \in syncer[w].seen : e.id = map.id /\ task' = [task EXCEPT !.date = e.event.date] /\ map' = [map EXCEPT !.at = clock]
    <3>1. PICK e \in syncer[w].seen : e.id = map.id /\ task' = [task EXCEPT !.date = e.event.date] /\ map' = [map EXCEPT !.at = clock]
      BY <2>4
    <3>2. task'.date = e.event.date /\ map'.id = map.id
      BY <3>1 DEF CsRows, TaskRow
    <3>3. e.event = events[map.id]
      BY <1>0, <2>1, <3>1, <3>2 DEF DateOK, Ours, DateRow
    <3> QED
      BY <1>b, <1>0, <2>1, <3>2, <3>3
  <2>5. CASE map' = NoEvent
    BY <1>0, <2>5 DEF NoEvent
  <2> QED
    BY <1>11, <2>3, <2>4, <2>5 DEF ApplyPulled
<1>12. ASSUME TickTask PROVE Fit'
  <2>1. UNCHANGED <<map, token, events, wish>> /\ task' = [task EXCEPT !.done = ~task.done] /\ ~Unseen
    BY <1>12 DEF TickTask
  <2>2. task'.date = task.date
    BY <2>1 DEF CsRows, TaskRow
  <2>3. map.id \in Created /\ ~Later(token)
    BY <1>0, <2>1 DEF TimesOK, Unseen, Later
  <2>4. events[map.id].date = task.date
    BY <1>0, <2>1, <2>3 DEF DateOK, Ours, Agrees
  <2> QED
    BY <1>b, <1>0, <2>1, <2>2, <2>4
<1>13. ASSUME MoveEvent \/ DropEvent PROVE Fit'
  <2>1. UNCHANGED <<task, map, pushes, syncer>> /\ Created' = Created
    BY <1>13, PersonMoves
  <2>2. PICK id \in Created : /\ \A j \in Created \ {id} : events'[j] = events[j]
                              /\ \/ MoveEvent /\ (id = map.id => wish' = events'[id].date) /\ (id # map.id => wish' = wish)
                                 \/ ~events'[id].live /\ UNCHANGED <<wish, raced, during>>
    BY <1>13, PersonMoves
  <2>3. map.id \in Created /\ map.id # 0
    BY <1>0, <2>1
  <2>4. MoveEvent => ~Due
    BY <1>0 DEF MoveEvent, Due
  <2>5. Due' => Due
    BY <2>1 DEF Due, Pushing
  <2>6. CASE id = map.id
    BY <2>1, <2>2, <2>4, <2>5, <2>6
  <2>7. CASE id # map.id
    BY <1>1, <2>1, <2>2, <2>3, <2>5, <2>7, <1>b
  <2> QED
    BY <2>6, <2>7
<1>14. ASSUME LoseAccess \/ Connect PROVE Fit'
  <2>1. UNCHANGED <<task, map, events, syncer, wish, pushes>>
    BY <1>0, <1>14 DEF LoseAccess, Connect, Plain
  <2>2. Due' => Due
    BY <2>1 DEF Due, Pushing
  <2> QED
    BY <1>1, <2>1, <2>2
<1>15. ASSUME Disconnect PROVE FALSE
  BY <1>0, <1>15 DEF Disconnect, NoEvent
<1>16. (\A w \in Syncers : ~RemoveEvent(w)) /\ ~DeleteEvent /\ ~DeleteTask
  BY <1>0, PlainBack DEF RemovalsOK, RemoveEvent, DeleteEvent
<1> QED
  BY <1>3, <1>4, <1>5, <1>6, <1>7, <1>8, <1>9, <1>10, <1>11, <1>12, <1>13, <1>14, <1>15, <1>16 DEF CsNext

LEMMA CsStart == CsInit => CsInv
<1> SUFFICES ASSUME CsInit PROVE CsInv
  OBVIOUS
<1>1. /\ link = "active" /\ map = NoEvent /\ token = 0 /\ events = <<>> /\ clock = 0 /\ pushes = 1 /\ removals = {}
      /\ syncer = [s \in Syncers |-> Free]
  BY DEF CsInit
<1>2. PICK d \in Dates : task = [date |-> d, done |-> FALSE, sync |-> TRUE, here |-> TRUE]
  BY DEF CsInit
<1>3. Created = {} /\ Created = 1 .. 0 /\ events \in [Created -> EventRow]
  BY <1>1 DEF Created
<1>4. Free \in SyncRow /\ Free.pc = "idle" /\ Free.at = 0 /\ Free.seen = {}
  BY DEF Free, NoEvent, SyncRow, Pcs
<1>5. syncer \in [Syncers -> SyncRow] /\ \A s \in Syncers : syncer[s].pc = "idle" /\ syncer[s].at = 0 /\ syncer[s].seen = {}
  BY <1>1, <1>4
<1>6. task \in TaskRow
  BY <1>2 DEF TaskRow
<1>7. map.id = 0 /\ map.at = 0 /\ map \in [id : Nat, at : Nat]
  BY <1>1 DEF NoEvent
<1>8. CsRows /\ TimesOK
  BY <1>1, <1>3, <1>5, <1>6, <1>7 DEF CsRows, TimesOK
<1>9. SeenOK /\ WorkOK /\ OneSyncer
  BY <1>5 DEF SeenOK, WorkOK, OneSyncer, At, Idle
<1>10. OneEvent
  BY <1>3 DEF OneEvent
<1>11. CreatorsOK
  BY <1>5 DEF CreatorsOK, Creates
<1>12. RemovalsOK /\ PushOK
  BY <1>1, <1>5 DEF RemovalsOK, PushOK, PushRow, Creates, At
<1>13. DoneOK /\ DateOK /\ WishOK
  BY <1>7 DEF DoneOK, DateOK, WishOK, Ours
<1> QED
  BY <1>8, <1>9, <1>10, <1>11, <1>12, <1>13 DEF CsInv

LEMMA CsStep == CsInv /\ [CsNext]_csVars => CsInv'
<1> SUFFICES ASSUME CsInv, [CsNext]_csVars PROVE CsInv'
  OBVIOUS
<1> USE DEF CsInv
<1>1. CASE CsNext
  <2>1. CsRows' /\ TimesOK' /\ SeenOK' /\ WorkOK' /\ OneSyncer'
    BY <1>1, RowsStep, SeenStep, WorkStep, OneSyncerStep
  <2>2. OneEvent' /\ CreatorsOK' /\ RemovalsOK'
    BY <1>1, OneEventStep, CreatorsStep, RemovalsStep
  <2>3. PushOK' /\ DoneOK' /\ DateOK' /\ WishOK'
    BY <1>1, <2>1, PushStep, DoneStep, DateStep, WishStep
  <2> QED
    BY <2>1, <2>2, <2>3
<1>2. CASE UNCHANGED csVars
  <2> USE <1>2 DEF csVars, Created
  <2>1. CsRows' /\ TimesOK' /\ SeenOK' /\ WorkOK' /\ OneSyncer'
    BY DEF CsRows, TimesOK, SeenOK, WorkOK, OneSyncer, At, Idle
  <2>2. OneEvent' /\ CreatorsOK' /\ RemovalsOK'
    BY DEF OneEvent, CreatorsOK, RemovalsOK, Live, Plain, At, Creates, Pushing
  <2>3. PushOK' /\ DoneOK'
    BY DEF PushOK, PushRow, DoneOK, Plain, Ours, At, Creates, Later
  <2>4. DateOK' /\ WishOK'
    BY DEF DateOK, DateRow, WishOK, Plain, Ours, At, Later, Agrees, Pushing
  <2> QED
    BY <2>1, <2>2, <2>3, <2>4
<1> QED
  BY <1>1, <1>2

\* Cadrius and Google keep one and the same event, in every state (CalendarsAgree).
THEOREM EventsAreKept == CsSpec => []CalendarsAgree
<1>1. CsInv => CalendarsAgree
  <2> SUFFICES ASSUME CsInv, Settled, ~during PROVE BothAgree!2
    BY DEF CsInv, CalendarsAgree, BothAgree
  <2>1. Ours /\ pushes = 0 /\ (\A s \in Syncers : Idle(s)) /\ map.id \in Created
    BY DEF CsInv, Settled, Ours, Plain, Busy, TimesOK
  <2>2. ~Later(token)
    BY <2>1 DEF Settled, Unseen, Later
  <2>3. events[map.id].live /\ events[map.id].date = task.date
    BY <2>1, <2>2 DEF CsInv, DateOK, Agrees
  <2>4. events[map.id].done = task.done
    BY <2>1, <2>3 DEF CsInv, DoneOK, Idle, At
  <2>5. ~raced => task.date = wish
    BY <2>1, <2>3 DEF CsInv, WishOK
  <2> QED
    BY <2>1, <2>3, <2>4, <2>5 DEF Live
<1> QED
  BY <1>1, CsStart, CsStep, PTL DEF CsSpec

-----------------------------------------------------------------------------
(***************************************************************************)
(* The court calendar: the day-by-day reasons of the code and the rules of *)
(* the law over whole years agree, so that what the loops count is what    *)
(* the law counts.                                                         *)
(***************************************************************************)
LEMMA FirstOnes == \A n \in Nat : IsFiniteSet(1..n) /\ Cardinality(1..n) = n
<1> SUFFICES ASSUME NEW n \in Nat PROVE IsFiniteSet(1..n) /\ Cardinality(1..n) = n
  OBVIOUS
<1>1. IsFiniteSet(1..n) /\ Cardinality(1..n) = IF 1 > n THEN 0 ELSE n - 1 + 1
  BY FS_Interval
<1> QED
  BY <1>1

-----------------------------------------------------------------------------
(***************************************************************************)
(* Dates and their ordinals.                                               *)
(***************************************************************************)
AllYears == Years \cup FeastYears
LeapDay(y) == IF Leap(y) THEN 1 ELSE 0
YearStart(y) == 365 * (y - 1) + (y - 1) \div 4 - (y - 1) \div 100 + (y - 1) \div 400

LEMMA MonthLengths ==
    ASSUME NEW y \in Nat
    PROVE  /\ LeapDay(y) \in {0, 1}
           /\ MonthDays(y)[1] = 31 /\ MonthDays(y)[2] = 28 + LeapDay(y) /\ MonthDays(y)[3] = 31
           /\ MonthDays(y)[4] = 30 /\ MonthDays(y)[5] = 31 /\ MonthDays(y)[6] = 30
           /\ MonthDays(y)[7] = 31 /\ MonthDays(y)[8] = 31 /\ MonthDays(y)[9] = 30
           /\ MonthDays(y)[10] = 31 /\ MonthDays(y)[11] = 30 /\ MonthDays(y)[12] = 31
           /\ \A m \in 1..12 : MonthDays(y)[m] \in 28..31
<1>1. LeapDay(y) \in {0, 1}
  BY DEF LeapDay
<1>2. /\ MonthDays(y)[1] = 31 /\ MonthDays(y)[2] = 28 + LeapDay(y) /\ MonthDays(y)[3] = 31
      /\ MonthDays(y)[4] = 30 /\ MonthDays(y)[5] = 31 /\ MonthDays(y)[6] = 30
      /\ MonthDays(y)[7] = 31 /\ MonthDays(y)[8] = 31 /\ MonthDays(y)[9] = 30
      /\ MonthDays(y)[10] = 31 /\ MonthDays(y)[11] = 30 /\ MonthDays(y)[12] = 31
  BY DEF MonthDays, LeapDay
<1>3. ASSUME NEW m \in 1..12 PROVE MonthDays(y)[m] \in 28..31
  <2>1. m = 1 \/ m = 2 \/ m = 3 \/ m = 4 \/ m = 5 \/ m = 6 \/ m = 7 \/ m = 8 \/ m = 9 \/ m = 10
        \/ m = 11 \/ m = 12
    OBVIOUS
  <2> QED
    BY <1>1, <1>2, <2>1
<1> QED
  BY <1>1, <1>2, <1>3

\* The days of a year before month m, month by month.
DatesBefore(y, m) == {md \in (1 .. 12) \X (1 .. 31) : md[1] < m /\ md[2] <= MonthDays(y)[md[1]]}

LEMMA MonthByMonth ==
    ASSUME NEW y \in AllYears
    PROVE  /\ Before[y][1] = 0
           /\ \A m \in 1..12 : Before[y][m] \in Nat /\ Before[y][m + 1] = Before[y][m] + MonthDays(y)[m]
<1>0. y \in Nat
  BY CourtAssumption DEF AllYears
<1>1. \A m \in 1..13 : Before[y][m] = Cardinality(DatesBefore(y, m))
  BY DEF Before, DaysBefore, DatesBefore, AllYears
<1>2. IsFiniteSet((1..12) \X (1..31))
  <2>1. IsFiniteSet(1..12)
    <3>1. 12 \in Nat
      OBVIOUS
    <3> QED
      BY <3>1, FirstOnes, Zenon
  <2>2. IsFiniteSet(1..31)
    <3>1. 31 \in Nat
      OBVIOUS
    <3> QED
      BY <3>1, FirstOnes, Zenon
  <2> QED
    BY <2>1, <2>2, FS_Product, Zenon
<1>3. \A m : DatesBefore(y, m) \in SUBSET ((1..12) \X (1..31))
  BY DEF DatesBefore
<1>4. \A m : IsFiniteSet(DatesBefore(y, m)) /\ Cardinality(DatesBefore(y, m)) \in Nat
  BY <1>2, <1>3, FS_Subset, FS_CardinalityType
<1>5. Before[y][1] = 0
  <2>1. DatesBefore(y, 1) = {}
    BY DEF DatesBefore
  <2> QED
    BY <1>1, <2>1, FS_EmptySet
<1>6. ASSUME NEW m \in 1..12 PROVE Before[y][m + 1] = Before[y][m] + MonthDays(y)[m]
  <2> DEFINE days == {m} \X (1..MonthDays(y)[m])
  <2>1. MonthDays(y)[m] \in 28..31
    BY <1>0, MonthLengths
  <2>2. IsFiniteSet(days) /\ Cardinality(days) = MonthDays(y)[m]
    <3>1. IsFiniteSet({m}) /\ Cardinality({m}) = 1
      BY FS_Singleton
    <3>2. IsFiniteSet(1..MonthDays(y)[m]) /\ Cardinality(1..MonthDays(y)[m]) = MonthDays(y)[m]
      BY <2>1, FirstOnes
    <3>3. /\ IsFiniteSet(days)
          /\ Cardinality(days) = Cardinality({m}) * Cardinality(1..MonthDays(y)[m])
      BY <3>1, <3>2, FS_Product, Zenon
    <3> QED
      BY <2>1, <3>1, <3>2, <3>3
  <2>3. DatesBefore(y, m + 1) = DatesBefore(y, m) \cup days
    <3>1. ASSUME NEW md \in (1..12) \X (1..31)
          PROVE  md \in DatesBefore(y, m + 1) <=> md \in DatesBefore(y, m) \cup days
      <4>1. md[1] \in 1..12 /\ md[2] \in 1..31 /\ md = <<md[1], md[2]>>
        OBVIOUS
      <4>2. md \in days <=> md[1] = m /\ md[2] <= MonthDays(y)[m]
        BY <2>1, <4>1
      <4> QED
        BY <4>1, <4>2 DEF DatesBefore
    <3>2. DatesBefore(y, m) \cup days \subseteq (1..12) \X (1..31)
      BY <1>3, <2>1
    <3>3. DatesBefore(y, m + 1) \subseteq (1..12) \X (1..31)
      BY <1>3
    <3> HIDE DEF days
    <3> QED
      BY <3>1, <3>2, <3>3
  <2>4. DatesBefore(y, m) \cap days = {}
    BY DEF DatesBefore
  <2>5. Cardinality(DatesBefore(y, m + 1)) = Cardinality(DatesBefore(y, m)) + MonthDays(y)[m]
    BY <1>4, <2>1, <2>2, <2>3, <2>4, FS_Union, FS_EmptySet
  <2> QED
    BY <1>1, <2>5
<1> QED
  BY <1>1, <1>4, <1>5, <1>6

LEMMA BeforeTable ==
    ASSUME NEW y \in AllYears
    PROVE  /\ y \in Nat \ {0} /\ LeapDay(y) \in {0, 1}
           /\ Before[y][1] = 0 /\ Before[y][2] = 31 /\ Before[y][3] = 59 + LeapDay(y)
           /\ Before[y][4] = 90 + LeapDay(y) /\ Before[y][5] = 120 + LeapDay(y)
           /\ Before[y][6] = 151 + LeapDay(y) /\ Before[y][7] = 181 + LeapDay(y)
           /\ Before[y][8] = 212 + LeapDay(y) /\ Before[y][9] = 243 + LeapDay(y)
           /\ Before[y][10] = 273 + LeapDay(y) /\ Before[y][11] = 304 + LeapDay(y)
           /\ Before[y][12] = 334 + LeapDay(y) /\ Before[y][13] = 365 + LeapDay(y)
<1>1. y \in Nat \ {0}
  BY CourtAssumption DEF AllYears
<1>2. /\ Before[y][1] = 0
      /\ \A m \in 1..12 : Before[y][m] \in Nat /\ Before[y][m + 1] = Before[y][m] + MonthDays(y)[m]
  BY MonthByMonth
<1> DEFINE B == Before[y]
           M == MonthDays(y)
<1>3. /\ B[2] = B[1] + M[1] /\ B[3] = B[2] + M[2] /\ B[4] = B[3] + M[3] /\ B[5] = B[4] + M[4]
      /\ B[6] = B[5] + M[5] /\ B[7] = B[6] + M[6] /\ B[8] = B[7] + M[7] /\ B[9] = B[8] + M[8]
      /\ B[10] = B[9] + M[9] /\ B[11] = B[10] + M[10] /\ B[12] = B[11] + M[11] /\ B[13] = B[12] + M[12]
  BY <1>2
<1> QED
  BY <1>1, <1>2, <1>3, MonthLengths

\* A year begins after the last day of any year before it.
LEMMA YearsFollow ==
    ASSUME NEW x \in Nat, NEW y \in Nat, x < y
    PROVE  YearStart(x) + 365 + LeapDay(x) <= YearStart(y)
<1>1. YearStart(x + 1) = YearStart(x) + 365 + LeapDay(x)
  BY DEF YearStart, LeapDay, Leap
<1>2. YearStart(x + 1) <= YearStart(y)
  BY DEF YearStart
<1> QED
  BY <1>1, <1>2 DEF YearStart, LeapDay

LEMMA MonthsFollow ==
    ASSUME NEW y \in AllYears, NEW m \in 1..12
    PROVE  /\ Before[y][m] \in Nat /\ MonthDays(y)[m] \in 28..31
           /\ Before[y][m + 1] = Before[y][m] + MonthDays(y)[m]
           /\ \A p \in 1..13 : m < p => Before[y][m + 1] <= Before[y][p]
           /\ Before[y][m + 1] <= 365 + LeapDay(y)
<1>1. /\ Before[y][m] \in Nat /\ MonthDays(y)[m] \in 28..31
      /\ Before[y][m + 1] = Before[y][m] + MonthDays(y)[m]
  BY MonthByMonth, MonthLengths, BeforeTable
<1>2. m = 1 \/ m = 2 \/ m = 3 \/ m = 4 \/ m = 5 \/ m = 6 \/ m = 7 \/ m = 8 \/ m = 9 \/ m = 10
      \/ m = 11 \/ m = 12
  OBVIOUS
<1>3. Before[y][m + 1] <= 365 + LeapDay(y)
  BY <1>2, BeforeTable
<1>4. ASSUME NEW p \in 1..13, m < p PROVE Before[y][m + 1] <= Before[y][p]
  <2>1. p = 2 \/ p = 3 \/ p = 4 \/ p = 5 \/ p = 6 \/ p = 7 \/ p = 8 \/ p = 9 \/ p = 10 \/ p = 11
        \/ p = 12 \/ p = 13
    BY <1>4
  <2> QED
    BY <1>2, <1>4, <2>1, BeforeTable
<1> QED
  BY <1>1, <1>3, <1>4

\* A date of the calendar.
Date(y, m, d) == y \in AllYears /\ m \in 1..12 /\ d \in 1..MonthDays(y)[m]

LEMMA OrdinalLies ==
    ASSUME NEW y, NEW m, NEW d, Date(y, m, d)
    PROVE  /\ Ordinal(y, m, d) \in Nat /\ y \in Nat /\ YearStart(y) \in Nat
           /\ Ordinal(y, m, d) = YearStart(y) + Before[y][m] + d
           /\ YearStart(y) + 1 <= Ordinal(y, m, d) /\ Ordinal(y, m, d) <= YearStart(y) + 365 + LeapDay(y)
<1>1. y \in Nat \ {0} /\ y \in AllYears /\ m \in 1..12 /\ d \in 1..MonthDays(y)[m] /\ LeapDay(y) \in {0, 1}
  BY BeforeTable DEF Date
<1>2. YearStart(y) \in Nat
  BY <1>1 DEF YearStart
<1>3. Ordinal(y, m, d) = YearStart(y) + Before[y][m] + d
  BY DEF Ordinal, YearStart
<1>4. /\ Before[y][m] \in Nat /\ MonthDays(y)[m] \in 28..31
      /\ Before[y][m] + MonthDays(y)[m] <= 365 + LeapDay(y)
  BY <1>1, MonthsFollow
<1> QED
  BY <1>1, <1>2, <1>3, <1>4

LEMMA OneDate ==
    ASSUME NEW x, NEW m, NEW c, Date(x, m, c), NEW y, NEW p, NEW d, Date(y, p, d),
           Ordinal(x, m, c) = Ordinal(y, p, d)
    PROVE  x = y /\ m = p /\ c = d
<1>1. x = y
  BY OrdinalLies, YearsFollow, BeforeTable DEF Date
<1>2. m = p
  <2>1. x \in AllYears /\ m \in 1..12 /\ p \in 1..12 /\ c \in 1..MonthDays(x)[m] /\ d \in 1..MonthDays(x)[p]
    BY <1>1 DEF Date
  <2>2. /\ Before[x][m] \in Nat /\ MonthDays(x)[m] \in 28..31
        /\ Before[x][m + 1] = Before[x][m] + MonthDays(x)[m]
        /\ Before[x][p] \in Nat /\ MonthDays(x)[p] \in 28..31
        /\ Before[x][p + 1] = Before[x][p] + MonthDays(x)[p]
        /\ m < p => Before[x][m + 1] <= Before[x][p]
        /\ p < m => Before[x][p + 1] <= Before[x][m]
    BY <2>1, MonthsFollow
  <2>3. Before[x][m] + c = Before[x][p] + d
    BY <1>1, <2>1, <2>2, OrdinalLies
  <2>4. ~(m < p) /\ ~(p < m)
    BY <2>1, <2>2, <2>3
  <2> QED
    BY <2>1, <2>4
<1> QED
  BY <1>1, <1>2, OrdinalLies, MonthsFollow DEF Date

LEMMA TheHorizon ==
    ASSUME NEW n
    PROVE  n \in Horizon <=> n \in Nat /\ \E y \in Years : YearStart(y) + 1 <= n /\ n <= YearStart(y) + 365 + LeapDay(y)
<1>1. ASSUME NEW y \in Years
      PROVE  /\ Ordinal(y, 1, 1) = YearStart(y) + 1 /\ Ordinal(y, 12, 31) = YearStart(y) + 365 + LeapDay(y)
             /\ YearStart(y) \in Nat /\ LeapDay(y) \in {0, 1}
  <2>1. y \in AllYears
    BY DEF AllYears
  <2>2. Date(y, 1, 1) /\ Date(y, 12, 31)
    BY <2>1, MonthLengths, BeforeTable DEF Date
  <2> QED
    BY <2>1, <2>2, OrdinalLies, BeforeTable
<1> QED
  BY <1>1 DEF Horizon

\* datetime.date.fromordinal.
LEMMA FromOrdinal ==
    ASSUME NEW n \in Horizon
    PROVE  /\ Civil[n] = <<Civil[n][1], Civil[n][2], Civil[n][3]>> /\ Civil[n][1] \in Years
           /\ Date(Civil[n][1], Civil[n][2], Civil[n][3])
           /\ Ordinal(Civil[n][1], Civil[n][2], Civil[n][3]) = n
<1> DEFINE y == CHOOSE x \in Years : Ordinal(x, 1, 1) <= n /\ n <= Ordinal(x, 12, 31)
           m == CHOOSE x \in 1 .. 12 : Ordinal(y, x, 1) <= n /\ n < Ordinal(y, x, 1) + MonthDays(y)[x]
<1>1. Civil[n] = <<y, m, n - Ordinal(y, m, 1) + 1>>
  BY DEF Civil
<1>2. \A x \in Years : x \in AllYears /\ Date(x, 1, 1) /\ Date(x, 12, 31)
  BY MonthLengths, BeforeTable DEF Date, AllYears
<1>3. \E x \in Years : Ordinal(x, 1, 1) <= n /\ n <= Ordinal(x, 12, 31)
  BY DEF Horizon
<1>4. y \in Years /\ Ordinal(y, 1, 1) <= n /\ n <= Ordinal(y, 12, 31)
  BY <1>3
<1> HIDE DEF y
<1>5. n \in Nat /\ y \in AllYears /\ LeapDay(y) \in {0, 1} /\ y \in Nat /\ YearStart(y) \in Nat
  BY <1>2, <1>4, TheHorizon, BeforeTable, OrdinalLies
<1>6. YearStart(y) + 1 <= n /\ n <= YearStart(y) + 365 + LeapDay(y)
  BY <1>2, <1>4, OrdinalLies, BeforeTable
<1>7. \E x \in 1..12 : YearStart(y) + Before[y][x] + 1 <= n /\ n <= YearStart(y) + Before[y][x + 1]
  <2> DEFINE k == n - YearStart(y)
             In(x) == Before[y][x] + 1 <= k /\ k <= Before[y][x + 1]
  <2>1. k \in 1..365 + LeapDay(y)
    BY <1>5, <1>6
  <2>2. In(1) \/ In(2) \/ In(3) \/ In(4) \/ In(5) \/ In(6) \/ In(7) \/ In(8) \/ In(9) \/ In(10)
        \/ In(11) \/ In(12)
    BY <1>5, <2>1, BeforeTable
  <2>3. \A x \in 1..12 : Before[y][x] \in Nat /\ Before[y][x + 1] \in Nat
    BY <1>5, MonthsFollow
  <2> QED
    BY <1>5, <2>2, <2>3
<1>8. \A x \in 1..12 : /\ Date(y, x, 1) /\ MonthDays(y)[x] \in 28..31
                       /\ Ordinal(y, x, 1) = YearStart(y) + Before[y][x] + 1
                       /\ Before[y][x + 1] = Before[y][x] + MonthDays(y)[x] /\ Before[y][x] \in Nat
  BY <1>5, MonthsFollow, OrdinalLies DEF Date
<1>9. \E x \in 1..12 : Ordinal(y, x, 1) <= n /\ n < Ordinal(y, x, 1) + MonthDays(y)[x]
  BY <1>5, <1>7, <1>8
<1>10. m \in 1..12 /\ Ordinal(y, m, 1) <= n /\ n < Ordinal(y, m, 1) + MonthDays(y)[m]
  BY <1>9
<1> HIDE DEF m
<1> DEFINE d == n - Ordinal(y, m, 1) + 1
<1>11. d \in 1..MonthDays(y)[m]
  BY <1>5, <1>8, <1>10
<1>12. Date(y, m, d)
  BY <1>5, <1>10, <1>11 DEF Date
<1>13. Ordinal(y, m, d) = n
  BY <1>5, <1>8, <1>10, <1>12, OrdinalLies
<1> QED
  BY <1>1, <1>4, <1>12, <1>13

\* And back: the day of a date of the calendar is in the horizon, and its date is that one.
LEMMA ToOrdinal ==
    ASSUME NEW y \in Years, NEW m, NEW d, Date(y, m, d)
    PROVE  Ordinal(y, m, d) \in Horizon /\ Civil[Ordinal(y, m, d)] = <<y, m, d>>
<1>1. Ordinal(y, m, d) \in Horizon
  BY OrdinalLies, TheHorizon
<1> QED
  BY <1>1, FromOrdinal, OneDate

-----------------------------------------------------------------------------
(***************************************************************************)
(* What reason finds, day by day, is what the rules say of whole years.    *)
(***************************************************************************)
LEMMA WeekendsRight ==
    ASSUME NEW n \in Horizon
    PROVE  Weekday(n) \in {5, 6} <=> n \in Weekends
<1>3. n \in Nat
  BY TheHorizon
<1> QED
  BY <1>3 DEF Weekends, Weekday

\* A date in the terms of its year, and the date of a day.
LEMMA DateTerms ==
    ASSUME NEW y, NEW m, NEW d, Date(y, m, d)
    PROVE  /\ y \in AllYears /\ y \in Nat /\ m \in 1..12 /\ d \in 1..MonthDays(y)[m]
           /\ Ordinal(y, m, d) = YearStart(y) + Before[y][m] + d /\ Ordinal(y, m, d) \in Nat
           /\ YearStart(y) \in Nat /\ Before[y][m] \in Nat /\ MonthDays(y)[m] \in 28..31
           /\ LeapDay(y) \in {0, 1}
<1>1. y \in AllYears /\ m \in 1..12 /\ d \in 1..MonthDays(y)[m]
  BY DEF Date
<1>2. /\ y \in Nat /\ YearStart(y) \in Nat /\ Ordinal(y, m, d) = YearStart(y) + Before[y][m] + d
      /\ Ordinal(y, m, d) \in Nat
  BY OrdinalLies
<1>3. Before[y][m] \in Nat /\ MonthDays(y)[m] \in 28..31
  BY <1>1, MonthsFollow
<1>4. LeapDay(y) \in {0, 1}
  BY <1>1, BeforeTable
<1> QED
  BY <1>1, <1>2, <1>3, <1>4

LEMMA CivilDay ==
    ASSUME NEW n \in Horizon
    PROVE  LET y == Civil[n][1]
               m == Civil[n][2]
               d == Civil[n][3]
           IN /\ y \in Years /\ y \in AllYears /\ y \in Nat /\ m \in 1..12 /\ d \in 1..MonthDays(y)[m]
              /\ Date(y, m, d) /\ n = Ordinal(y, m, d) /\ n = YearStart(y) + Before[y][m] + d
              /\ YearStart(y) \in Nat /\ Before[y][m] \in Nat /\ MonthDays(y)[m] \in 28..31
              /\ LeapDay(y) \in {0, 1} /\ n \in Nat
<1> DEFINE y == Civil[n][1]
           m == Civil[n][2]
           d == Civil[n][3]
<1>1. y \in Years /\ Date(y, m, d) /\ n = Ordinal(y, m, d)
  BY FromOrdinal
<1> HIDE DEF y, m, d
<1>2. /\ y \in AllYears /\ y \in Nat /\ m \in 1..12 /\ d \in 1..MonthDays(y)[m]
      /\ Ordinal(y, m, d) = YearStart(y) + Before[y][m] + d /\ Ordinal(y, m, d) \in Nat
      /\ YearStart(y) \in Nat /\ Before[y][m] \in Nat /\ MonthDays(y)[m] \in 28..31
      /\ LeapDay(y) \in {0, 1}
  BY <1>1, DateTerms
<1>3. /\ y \in Years /\ y \in AllYears /\ y \in Nat /\ m \in 1..12 /\ d \in 1..MonthDays(y)[m]
      /\ Date(y, m, d) /\ n = Ordinal(y, m, d) /\ n = YearStart(y) + Before[y][m] + d
      /\ YearStart(y) \in Nat /\ Before[y][m] \in Nat /\ MonthDays(y)[m] \in 28..31
      /\ LeapDay(y) \in {0, 1} /\ n \in Nat
  BY <1>1, <1>2, Zenon
<1> QED
  BY <1>3 DEF y, m, d

\* A day between two days of year y is a day of y.
LEMMA SameYear ==
    ASSUME NEW y \in Years, NEW n \in Horizon, YearStart(y) + 1 <= n, n <= YearStart(y) + 365 + LeapDay(y)
    PROVE  Civil[n][1] = y
<1> DEFINE x == Civil[n][1]
<1>1. x \in Nat /\ x \in AllYears /\ y \in AllYears /\ n \in Nat
  BY CivilDay DEF AllYears
<1>2. YearStart(x) + 1 <= n /\ n <= YearStart(x) + 365 + LeapDay(x) /\ YearStart(x) \in Nat /\ LeapDay(x) \in {0, 1}
  BY FromOrdinal, OrdinalLies, BeforeTable, <1>1
<1>3. y \in Nat /\ LeapDay(y) \in {0, 1} /\ YearStart(y) \in Nat
  <2>1. y \in Nat \ {0} /\ LeapDay(y) \in {0, 1}
    BY <1>1, BeforeTable
  <2> QED
    BY <2>1 DEF YearStart
<1> HIDE DEF x
<1>4. ~(x < y) /\ ~(y < x)
  BY <1>1, <1>2, <1>3, YearsFollow
<1> QED
  BY <1>1, <1>3, <1>4 DEF x

LEMMA RecessRight ==
    ASSUME NEW n \in Horizon
    PROVE  InRecess(Civil[n]) <=> n \in Recesses
<1>1. ASSUME NEW y \in Years
      PROVE  /\ YearStart(y) \in Nat /\ LeapDay(y) \in {0, 1}
             /\ Interval(<<y, 12, 20>>, <<y, 12, 31>>) =
                    YearStart(y) + 354 + LeapDay(y) .. YearStart(y) + 365 + LeapDay(y)
             /\ Interval(<<y, 1, 1>>, <<y, 1, 20>>) = YearStart(y) + 1 .. YearStart(y) + 20
  <2>1. y \in AllYears
    BY DEF AllYears
  <2>2. Date(y, 1, 1) /\ Date(y, 1, 20) /\ Date(y, 12, 20) /\ Date(y, 12, 31)
    BY <2>1, MonthLengths, BeforeTable DEF Date
  <2>3. /\ Ordinal(y, 1, 1) = YearStart(y) + Before[y][1] + 1 /\ Ordinal(y, 1, 20) = YearStart(y) + Before[y][1] + 20
        /\ Ordinal(y, 12, 20) = YearStart(y) + Before[y][12] + 20 /\ Ordinal(y, 12, 31) = YearStart(y) + Before[y][12] + 31
        /\ YearStart(y) \in Nat
    BY <2>2, OrdinalLies
  <2>4. LeapDay(y) \in {0, 1} /\ Before[y][1] = 0 /\ Before[y][12] = 334 + LeapDay(y)
    BY <2>1, BeforeTable
  <2>5. /\ Interval(<<y, 12, 20>>, <<y, 12, 31>>) = Ordinal(y, 12, 20) .. Ordinal(y, 12, 31)
        /\ Interval(<<y, 1, 1>>, <<y, 1, 20>>) = Ordinal(y, 1, 1) .. Ordinal(y, 1, 20)
    BY DEF Interval
  <2>6. /\ Ordinal(y, 12, 20) = YearStart(y) + 354 + LeapDay(y) /\ Ordinal(y, 12, 31) = YearStart(y) + 365 + LeapDay(y)
        /\ Ordinal(y, 1, 1) = YearStart(y) + 1 /\ Ordinal(y, 1, 20) = YearStart(y) + 20
    BY <2>3, <2>4
  <2> QED
    BY <2>3, <2>4, <2>5, <2>6, Zenon
<1>2. ASSUME InRecess(Civil[n]) PROVE n \in Recesses
  <2> DEFINE y == Civil[n][1]
  <2>1. y \in Years /\ y \in AllYears
    BY CivilDay
  <2>2. \/ Civil[n][2] = 12 /\ Civil[n][3] >= 20
        \/ Civil[n][2] = 1 /\ Civil[n][3] <= 20
    BY <1>2 DEF InRecess
  <2>3. /\ n = YearStart(y) + Before[y][Civil[n][2]] + Civil[n][3] /\ n \in Nat /\ y \in Nat
        /\ Civil[n][2] \in 1..12 /\ Civil[n][3] \in 1..MonthDays(y)[Civil[n][2]]
    BY CivilDay
  <2> HIDE DEF y
  <2>3a. MonthDays(y)[1] = 31 /\ MonthDays(y)[12] = 31
    BY <2>3, MonthLengths
  <2>3b. Before[y][1] = 0 /\ Before[y][12] = 334 + LeapDay(y)
    BY <2>1, BeforeTable
  <2> DEFINE m == Civil[n][2]
             d == Civil[n][3]
  <2>3c. d \in 1..31
    BY <2>2, <2>3, <2>3a
  <2>4. \/ n \in Interval(<<y, 12, 20>>, <<y, 12, 31>>)
        \/ n \in Interval(<<y, 1, 1>>, <<y, 1, 20>>)
    <3>1. /\ YearStart(y) \in Nat /\ LeapDay(y) \in {0, 1}
          /\ Interval(<<y, 12, 20>>, <<y, 12, 31>>) =
                    YearStart(y) + 354 + LeapDay(y) .. YearStart(y) + 365 + LeapDay(y)
          /\ Interval(<<y, 1, 1>>, <<y, 1, 20>>) = YearStart(y) + 1 .. YearStart(y) + 20
      BY <1>1, <2>1
    <3>2. CASE m = 12 /\ d >= 20
      <4> HIDE DEF m, d
      <4>1. n = YearStart(y) + Before[y][m] + d
        BY <2>3 DEF m, d
      <4>2. n = YearStart(y) + (334 + LeapDay(y)) + d
        BY <2>3b, <3>2, <4>1
      <4>3. n \in YearStart(y) + 354 + LeapDay(y) .. YearStart(y) + 365 + LeapDay(y)
        <5> DEFINE s == YearStart(y)
                   l == LeapDay(y)
        <5>1. d \in 20..31
          BY <2>3c, <3>2
        <5>2. s \in Nat /\ l \in Nat /\ n = s + (334 + l) + d
          BY <3>1, <4>2
        <5> HIDE DEF s, l
        <5>3. n \in s + 354 + l .. s + 365 + l
          BY <5>1, <5>2
        <5> QED
          BY <5>3 DEF s, l
      <4> QED
        BY <3>1, <4>3, Zenon
    <3>3. CASE m = 1 /\ d <= 20
      <4> HIDE DEF m, d
      <4>1. n = YearStart(y) + Before[y][m] + d
        BY <2>3 DEF m, d
      <4>2. n = YearStart(y) + 0 + d
        BY <2>3b, <3>3, <4>1
      <4>3. ASSUME NEW s \in Nat, NEW c \in 1..20, NEW x, x = s + 0 + c
            PROVE  x \in s + 1 .. s + 20
        BY <4>3
      <4>4. n \in YearStart(y) + 1 .. YearStart(y) + 20
        <5>1. d \in 1..20
          BY <2>3c, <3>3
        <5> QED
          BY <3>1, <4>2, <4>3, <5>1, Zenon
      <4> QED
        BY <3>1, <4>4, Zenon
    <3> QED
      BY <2>2, <3>2, <3>3
  <2> QED
    BY <2>1, <2>4 DEF Recesses
<1>3. ASSUME n \in Recesses PROVE InRecess(Civil[n])
  <2>1. PICK y \in Years : \/ n \in Interval(<<y, 12, 20>>, <<y, 12, 31>>)
                           \/ n \in Interval(<<y, 1, 1>>, <<y, 1, 20>>)
    BY <1>3 DEF Recesses
  <2>2. YearStart(y) + 1 <= n /\ n <= YearStart(y) + 365 + LeapDay(y)
    BY <1>1, <2>1
  <2>3. Civil[n][1] = y
    BY <2>2, SameYear
  <2> DEFINE m == Civil[n][2]
             d == Civil[n][3]
  <2>4. /\ y \in AllYears /\ m \in 1..12 /\ d \in 1..MonthDays(y)[m] /\ n = YearStart(y) + Before[y][m] + d
        /\ MonthDays(y)[m] \in 28..31 /\ Before[y][m] \in Nat
    BY <2>3, CivilDay
  <2> HIDE DEF m, d
  <2>5. /\ Before[y][m + 1] = Before[y][m] + MonthDays(y)[m]
        /\ m < 12 => Before[y][m + 1] <= Before[y][12]
        /\ 1 < m => Before[y][2] <= Before[y][m]
        /\ Before[y][12] = 334 + LeapDay(y) /\ Before[y][1] = 0 /\ Before[y][2] = 31
    BY <2>4, MonthsFollow, BeforeTable
  <2>5a. /\ YearStart(y) \in Nat /\ LeapDay(y) \in {0, 1} /\ n \in Nat
         /\ Interval(<<y, 12, 20>>, <<y, 12, 31>>) =
                    YearStart(y) + 354 + LeapDay(y) .. YearStart(y) + 365 + LeapDay(y)
         /\ Interval(<<y, 1, 1>>, <<y, 1, 20>>) = YearStart(y) + 1 .. YearStart(y) + 20
    BY <1>1, TheHorizon
  <2> HIDE DEF Interval, InRecess
  <2>5b. ASSUME NEW s \in Nat, NEW l \in {0, 1}, NEW b \in Nat, NEW k \in 28..31, NEW c \in 1..k, NEW x,
                x = s + b + c, b + k <= 334 + l
         PROVE  ~(s + 354 + l <= x)
    BY <2>5b
  <2>5c. ASSUME NEW s \in Nat, NEW b \in Nat, NEW c \in Nat \ {0}, NEW x, x = s + b + c, 31 <= b
         PROVE  ~(x <= s + 20)
    BY <2>5c
  <2>5d. YearStart(y) \in Nat /\ LeapDay(y) \in {0, 1} /\ n = YearStart(y) + Before[y][m] + d /\ d \in Nat \ {0}
    BY <2>4, <2>5a
  <2>6. CASE n \in Interval(<<y, 12, 20>>, <<y, 12, 31>>)
    <3>0. YearStart(y) + 354 + LeapDay(y) <= n
      BY <2>5a, <2>6
    <3>1. m = 12
      <4>1. m < 12 => Before[y][m] + MonthDays(y)[m] <= 334 + LeapDay(y)
        BY <2>5, Zenon
      <4>2. ~(m < 12)
        BY <2>4, <2>5b, <2>5d, <3>0, <4>1, SMTT(30)
      <4> QED
        BY <2>4, <4>2
    <3>2. d >= 20
      <4>1. n = YearStart(y) + (334 + LeapDay(y)) + d
        BY <2>5, <2>5d, <3>1
      <4> QED
        BY <2>5d, <3>0, <4>1
    <3> QED
      BY <3>1, <3>2 DEF InRecess, m, d
  <2>7. CASE n \in Interval(<<y, 1, 1>>, <<y, 1, 20>>)
    <3>0. n <= YearStart(y) + 20
      BY <2>5a, <2>7
    <3>1. m = 1
      <4>1. 1 < m => 31 <= Before[y][m]
        BY <2>5
      <4>2. ~(1 < m)
        BY <2>4, <2>5c, <2>5d, <3>0, <4>1, Zenon
      <4> QED
        BY <2>4, <4>2
    <3>2. d <= 20
      BY <2>4, <2>5, <2>5a, <3>0, <3>1
    <3> QED
      BY <3>1, <3>2 DEF InRecess, m, d
  <2> QED
    BY <2>1, <2>6, <2>7
<1> QED
  BY <1>2, <1>3

\* Easter falls from 15 March to 26 April, whatever the year.
LEMMA EasterLies ==
    ASSUME NEW y \in AllYears
    PROVE  /\ Easter(y) \in Nat /\ YearStart(y) \in Nat
           /\ YearStart(y) + 74 <= Easter(y) /\ Easter(y) <= YearStart(y) + 117
<1>1. y \in Nat \ {0} /\ LeapDay(y) \in {0, 1} /\ Before[y][3] = 59 + LeapDay(y) /\ Before[y][4] = 90 + LeapDay(y)
  BY BeforeTable
<1>2. YearStart(y) \in Nat
  BY <1>1 DEF YearStart
<1> DEFINE a == y % 19
           b == y \div 100
           c == y % 100
           d == b \div 4
           e == b % 4
           f == (b + 8) \div 25
           g == (b - f + 1) \div 3
           h == (19 * a + b - d - g + 15) % 30
           i == c \div 4
           k == c % 4
           l == (32 + 2 * e + 2 * i - h - k) % 7
           m == (a + 11 * h + 22 * l) \div 451
           r == h + l - 7 * m + 114
<1>3. Easter(y) = Ordinal(y, r \div 31, (r % 31) + 1)
  BY Zenon DEF Easter
<1>4. a \in 0..18 /\ h \in 0..29 /\ l \in 0..6
  <2>1. a \in 0..18 /\ b \in Nat /\ c \in 0..99
    BY <1>1
  <2> HIDE DEF a, b, c
  <2>2. d \in Nat /\ e \in 0..3 /\ f \in Nat /\ i \in Nat /\ k \in 0..3
    BY <2>1
  <2> HIDE DEF d, e, f, i, k
  <2>3. g \in Int
    BY <2>1, <2>2
  <2> HIDE DEF g
  <2>4. h \in 0..29
    BY <2>1, <2>2, <2>3
  <2> HIDE DEF h
  <2>5. l \in 0..6
    BY <2>1, <2>2, <2>4
  <2> QED
    BY <2>1, <2>4, <2>5
<1> HIDE DEF a, b, c, d, e, f, g, h, i, k, l
<1>5. m \in {0, 1}
  BY <1>4
<1> HIDE DEF m
<1>6. r \in 107..149
  BY <1>4, <1>5
<1> HIDE DEF r
<1>7. \/ r \div 31 = 3 /\ r % 31 = r - 93
      \/ r \div 31 = 4 /\ r % 31 = r - 124
  BY <1>6
<1>8. Easter(y) = YearStart(y) + Before[y][r \div 31] + ((r % 31) + 1)
  <2>1. \A p, q : Ordinal(y, p, q) = YearStart(y) + Before[y][p] + q
    BY DEF Ordinal, YearStart
  <2> QED
    BY <1>3, <2>1, Zenon
<1>9. CASE r \div 31 = 3 /\ r % 31 = r - 93
  <2>1. Easter(y) = YearStart(y) + (59 + LeapDay(y)) + (r - 93 + 1)
    BY <1>1, <1>8, <1>9
  <2>2. ASSUME NEW s \in Nat, NEW v \in {0, 1}, NEW q \in 107..149, NEW x, x = s + (59 + v) + (q - 93 + 1), q \div 31 = 3
        PROVE  x \in Nat /\ s + 74 <= x /\ x <= s + 117
    <3>1. q <= 123
      BY <2>2
    <3> QED
      BY <2>2, <3>1
  <2> QED
    BY <1>1, <1>2, <1>6, <1>9, <2>1, <2>2
<1>10. CASE r \div 31 = 4 /\ r % 31 = r - 124
  <2>1. Easter(y) = YearStart(y) + (90 + LeapDay(y)) + (r - 124 + 1)
    BY <1>1, <1>8, <1>10
  <2>2. ASSUME NEW s \in Nat, NEW v \in {0, 1}, NEW q \in 107..149, NEW x, x = s + (90 + v) + (q - 124 + 1), q \div 31 = 4
        PROVE  x \in Nat /\ s + 74 <= x /\ x <= s + 117
    <3>1. 124 <= q
      BY <2>2
    <3> QED
      BY <2>2, <3>1
  <2> QED
    BY <1>1, <1>2, <1>6, <1>10, <2>1, <2>2
<1> QED
  BY <1>7, <1>9, <1>10

\* A fixed holiday is a day of every year.
LEMMA FixedDates ==
    ASSUME NEW y \in Years, NEW md \in Fixed \cup FederalExtra
    PROVE  Date(y, md[1], md[2])
<1>1. md[1] \in 1..12 /\ md[2] \in 1..MonthDays(1)[md[1]]
  BY DatesAssumption
<1>2. y \in AllYears /\ y \in Nat
  BY CourtAssumption DEF AllYears
<1>3. LeapDay(1) = 0 /\ 1 \in Nat
  BY DEF LeapDay, Leap
<1> DEFINE M == MonthDays(1)
           Y == MonthDays(y)
<1>4. /\ M[1] = 31 /\ M[2] = 28 + LeapDay(1) /\ M[3] = 31 /\ M[4] = 30 /\ M[5] = 31 /\ M[6] = 30
      /\ M[7] = 31 /\ M[8] = 31 /\ M[9] = 30 /\ M[10] = 31 /\ M[11] = 30 /\ M[12] = 31
  BY <1>3, MonthLengths
<1>5. /\ Y[1] = 31 /\ Y[2] = 28 + LeapDay(y) /\ Y[3] = 31 /\ Y[4] = 30 /\ Y[5] = 31 /\ Y[6] = 30
      /\ Y[7] = 31 /\ Y[8] = 31 /\ Y[9] = 30 /\ Y[10] = 31 /\ Y[11] = 30 /\ Y[12] = 31
      /\ LeapDay(y) \in {0, 1}
  BY <1>2, MonthLengths
<1>6. \A m \in 1..12 : M[m] \in Nat /\ Y[m] \in Nat /\ M[m] <= Y[m]
  <2> TAKE m \in 1..12
  <2>1. m = 1 \/ m = 2 \/ m = 3 \/ m = 4 \/ m = 5 \/ m = 6 \/ m = 7 \/ m = 8 \/ m = 9 \/ m = 10
        \/ m = 11 \/ m = 12
    OBVIOUS
  <2> HIDE DEF M, Y
  <2> QED
    BY <1>3, <1>4, <1>5, <2>1
<1> HIDE DEF M, Y
<1>7. md[2] \in 1..Y[md[1]]
  BY <1>1, <1>6 DEF M
<1> QED
  BY <1>1, <1>2, <1>7 DEF Date, Y

\* The closures of a year are days of that year.
LEMMA ClosuresLie ==
    ASSUME NEW y \in Years, NEW federal, NEW n \in NationalClosures(y, federal)
    PROVE  n \in Nat /\ YearStart(y) + 1 <= n /\ n <= YearStart(y) + 365 + LeapDay(y)
<1>1. /\ y \in AllYears /\ Easter(y) \in Nat /\ YearStart(y) \in Nat /\ LeapDay(y) \in {0, 1}
      /\ YearStart(y) + 74 <= Easter(y) /\ Easter(y) <= YearStart(y) + 117
  <2>1. y \in AllYears
    BY DEF AllYears
  <2> QED
    BY <2>1, EasterLies, BeforeTable
<1>2. \/ \E md \in Fixed \cup FederalExtra : n = Ordinal(y, md[1], md[2])
      \/ n \in {Easter(y) - 48, Easter(y) - 47, Easter(y) - 2, Easter(y) + 60, Easter(y) - 4, Easter(y) - 3}
  BY Zenon DEF NationalClosures
<1>3. CASE \E md \in Fixed \cup FederalExtra : n = Ordinal(y, md[1], md[2])
  <2>1. PICK md \in Fixed \cup FederalExtra : n = Ordinal(y, md[1], md[2])
    BY <1>3
  <2>2. Date(y, md[1], md[2])
    BY FixedDates
  <2> QED
    BY <2>1, <2>2, OrdinalLies
<1>4. CASE n \in {Easter(y) - 48, Easter(y) - 47, Easter(y) - 2, Easter(y) + 60, Easter(y) - 4, Easter(y) - 3}
  BY <1>1, <1>4
<1> QED
  BY <1>2, <1>3, <1>4

LEMMA ClosuresRight ==
    ASSUME NEW n \in Horizon, NEW federal
    PROVE  n \in NationalClosures(Civil[n][1], federal) <=> n \in UNION {NationalClosures(y, federal) : y \in Years}
<1>1. Civil[n][1] \in Years
  BY FromOrdinal
<1>2. \A y \in Years : n \in NationalClosures(y, federal) => Civil[n][1] = y
  BY ClosuresLie, SameYear
<1> QED
  BY <1>1, <1>2, Zenon

LEMMA RegisteredRight ==
    ASSUME NEW n \in Horizon, NEW court
    PROVE  Registered(court, Civil[n]) <=> n \in RowDays(court)
<1> DEFINE y == Civil[n][1]
           m == Civil[n][2]
           d == Civil[n][3]
           OnDay == \E h \in Holidays : HoldsFor(h, court) /\ h.date[2] = m /\ h.date[3] = d /\ (h.yearly \/ h.date[1] = y)
           Suspended == \E s \in Suspensions : s.whole /\ HoldsFor(s, court) /\ Ordinal(y, m, d) \in Interval(s.from, s.to)
           RowDay == \E h \in Holidays, x \in Years :
                        /\ HoldsFor(h, court) /\ (h.yearly \/ h.date[1] = x)
                        /\ h.date[3] <= MonthDays(x)[h.date[2]] /\ n = Ordinal(x, h.date[2], h.date[3])
           SuspendedDay == \E s \in Suspensions : s.whole /\ HoldsFor(s, court) /\ n \in Interval(s.from, s.to)
<1>1. Registered(court, Civil[n]) <=> OnDay \/ Suspended
  BY Zenon DEF Registered, Interval
<1>2. n \in RowDays(court) <=> RowDay \/ SuspendedDay
  BY Zenon DEF RowDays
<1>3. /\ y \in Years /\ m \in 1..12 /\ d \in 1..MonthDays(y)[m] /\ n = Ordinal(y, m, d) /\ MonthDays(y)[m] \in 28..31
      /\ Date(y, m, d) /\ d <= MonthDays(y)[m]
  <2>1. /\ y \in Years /\ m \in 1..12 /\ d \in 1..MonthDays(y)[m] /\ n = Ordinal(y, m, d) /\ MonthDays(y)[m] \in 28..31
        /\ Date(y, m, d)
    BY CivilDay
  <2> HIDE DEF y, m, d
  <2> QED
    BY <2>1
<1> HIDE DEF y, m, d
<1>4. OnDay => RowDay
  <2> SUFFICES ASSUME OnDay PROVE RowDay
    OBVIOUS
  <2>1. PICK h \in Holidays : HoldsFor(h, court) /\ h.date[2] = m /\ h.date[3] = d /\ (h.yearly \/ h.date[1] = y)
    OBVIOUS
  <2> QED
    BY <1>3, <2>1
<1>5. RowDay => OnDay
  <2> SUFFICES ASSUME RowDay PROVE OnDay
    OBVIOUS
  <2>1. PICK h \in Holidays, x \in Years :
            /\ HoldsFor(h, court) /\ (h.yearly \/ h.date[1] = x)
            /\ h.date[3] <= MonthDays(x)[h.date[2]] /\ n = Ordinal(x, h.date[2], h.date[3])
    OBVIOUS
  <2>2. Date(x, h.date[2], h.date[3])
    <3>1. h.date[1] \in Years /\ h.date[2] \in 1..12 /\ h.date[3] \in 1..MonthDays(h.date[1])[h.date[2]]
      BY DatesAssumption DEF IsDate
    <3>2. h.date[1] \in Nat /\ x \in Nat /\ x \in AllYears
      BY <3>1, CourtAssumption DEF AllYears
    <3>3. MonthDays(h.date[1])[h.date[2]] \in 28..31 /\ MonthDays(x)[h.date[2]] \in 28..31
      BY <3>1, <3>2, MonthLengths
    <3>4. h.date[3] \in 1..MonthDays(x)[h.date[2]]
      BY <2>1, <3>1, <3>3
    <3> QED
      BY <3>1, <3>2, <3>4 DEF Date
  <2>3. x = y /\ h.date[2] = m /\ h.date[3] = d
    <3> DEFINE p == h.date[2]
               q == h.date[3]
    <3>1. Date(x, p, q) /\ Date(y, m, d) /\ Ordinal(x, p, q) = Ordinal(y, m, d)
      BY <1>3, <2>1, <2>2
    <3> HIDE DEF p, q
    <3>2. x = y /\ p = m /\ q = d
      BY <3>1, OneDate
    <3> QED
      BY <3>2 DEF p, q
  <2> QED
    BY <2>1, <2>3
<1>6. Suspended <=> SuspendedDay
  BY <1>3
<1> HIDE DEF OnDay, Suspended, RowDay, SuspendedDay
<1> QED
  BY <1>1, <1>2, <1>4, <1>5, <1>6

\* A day is a business day for the code exactly when it is one by law.
LEMMA BusinessRight ==
    ASSUME NEW court \in Courts, NEW n \in Horizon
    PROVE  IsBusinessDay(court, n) <=> n \in ByLaw[court]
<1>1. Reason(court, n) <=> n \in Weekends \/ n \in Recesses \/ n \in ClosureDays(court) \/ n \in RowDays(court)
  <2>1. n \in NationalClosures(Civil[n][1], court \in Federal) <=> n \in ClosureDays(court)
    BY ClosuresRight DEF ClosureDays
  <2> QED
    BY <2>1, WeekendsRight, RecessRight, RegisteredRight, Zenon DEF Reason
<1>2. n \in ByLaw[court] <=> ~(n \in Weekends \/ n \in Recesses \/ n \in ClosureDays(court) \/ n \in RowDays(court))
  BY DEF ByLaw
<1>3. IsBusinessDay(court, n) <=> ~Reason(court, n)
  BY DEF IsBusinessDay, ClosedDays
<1> QED
  BY <1>1, <1>2, <1>3

-----------------------------------------------------------------------------
(***************************************************************************)
(* Counting.                                                               *)
(***************************************************************************)
LEMMA EmptyDays == ASSUME NEW a \in Nat, NEW b \in Int, b < a PROVE a .. b = {}
OBVIOUS

LEMMA OneMoreDay ==
    ASSUME NEW B, NEW a \in Nat, NEW b \in Int, a <= b + 1
    PROVE  /\ Cardinality(B \cap (a .. b)) \in Nat
           /\ b + 1 \in B => Cardinality(B \cap (a .. b + 1)) = Cardinality(B \cap (a .. b)) + 1
           /\ b + 1 \notin B => Cardinality(B \cap (a .. b + 1)) = Cardinality(B \cap (a .. b))
<1> DEFINE S == B \cap (a .. b)
<1>1. IsFiniteSet(S) /\ Cardinality(S) \in Nat
  <2>1. IsFiniteSet(a .. b)
    BY FS_Interval
  <2>2. S \in SUBSET (a .. b)
    OBVIOUS
  <2> QED
    BY <2>1, <2>2, FS_Subset, FS_CardinalityType
<1>2. b + 1 \notin S
  OBVIOUS
<1>3. ASSUME b + 1 \in B PROVE Cardinality(B \cap (a .. b + 1)) = Cardinality(S) + 1
  <2>1. B \cap (a .. b + 1) = S \cup {b + 1}
    BY <1>3
  <2> QED
    BY <1>1, <1>2, <2>1, FS_AddElement
<1>4. ASSUME b + 1 \notin B PROVE B \cap (a .. b + 1) = S
  BY <1>4
<1> QED
  BY <1>1, <1>3, <1>4

Calls ==
    [pc : {"none", "refused", "publishing", "counting", "back", "feast"}, court : Courts \cup {AllCourts}, start : Nat,
     days : Nat, eve : BOOLEAN, published : Nat, day : Nat, counted : Nat, skipped : SUBSET Horizon, year : Nat]

\* The business days of the court of call d from one day to another.
Open(d, from, to) == ByLaw[d.court] \cap (from .. to)

\* A call that goes on was given a court and a number of days, and begins at its publication.
GivenOK(d) ==
    d.pc \in {"publishing", "counting", "back"} =>
        d.court \in Courts /\ d.days \in 1 .. MaxDays /\ d.start <= d.published /\ d.counted <= d.days
\* Nothing was open since the gazette, and all of it was skipped.
PublishingOK(d) ==
    d.pc = "publishing" =>
        /\ d.published = d.start /\ d.day > d.start /\ d.counted = 0
        /\ Open(d, d.start + 1, d.day - 1) = {} /\ d.skipped = d.start + 1 .. d.day - 1
\* So many business days were counted since the publication, and the others were skipped.
CountingOK(d) ==
    d.pc = "counting" =>
        /\ d.published <= d.day /\ Cardinality(Open(d, d.published + 1, d.day)) = d.counted
        /\ d.skipped = (d.start + 1 .. d.day) \ ByLaw[d.court]
        /\ d.eve => d.published \in Open(d, d.start + 1, d.day) /\ Open(d, d.start + 1, d.published - 1) = {}
        /\ d.counted = d.days => d.day \in ByLaw[d.court]
\* On the way back, one business day more has to come than those left after the publication; behind it,
\* the first one ends the way.
WayBack(d) ==
    IF d.published < d.day THEN d.counted >= 1 /\ Cardinality(Open(d, d.published + 1, d.day - 1)) = d.counted - 1
    ELSE \/ d.counted = 1 /\ Open(d, d.day, d.published) = {}
         \/ d.counted = 0 /\ d.day \in ByLaw[d.court] /\ Open(d, d.day + 1, d.published) = {}
BackOK(d) == d.pc = "back" => WayBack(d)
FeastOK(d) == d.pc = "feast" => d.year \in FeastYears /\ d.day = Easter(d.year)

CallOK(d) == GivenOK(d) /\ PublishingOK(d) /\ CountingOK(d) /\ BackOK(d) /\ FeastOK(d)
CcInv == deadline \in Calls /\ CallOK(deadline)

LEMMA HorizonNat == Horizon \subseteq Nat
BY TheHorizon

LEMMA AskStep == ASSUME CcInv, AskDeadline PROVE CcInv'
<1>1. deadline.pc = "none"
  BY DEF AskDeadline
<1>2. PICK court \in Courts, s \in Starts, n \in Lengths, eve \in BOOLEAN :
        LET start == Ordinal(s[1], s[2], s[3])
        IN deadline' = [NoDeadline EXCEPT !.court = court, !.start = start, !.days = n, !.eve = eve,
                            !.pc = IF n \notin 1 .. MaxDays THEN "refused" ELSE IF eve THEN "publishing" ELSE "counting",
                            !.published = start, !.day = IF eve THEN start + 1 ELSE start]
  BY Zenon DEF AskDeadline
<1> DEFINE start == Ordinal(s[1], s[2], s[3])
           d == deadline'
<1>3. start \in Nat /\ n \in Nat /\ MaxDays \in Nat
  <2>1. Date(s[1], s[2], s[3])
    BY DatesAssumption DEF IsDate, Date, AllYears
  <2> QED
    BY <2>1, OrdinalLies, CourtAssumption
<1> HIDE DEF start
<1>4. /\ d.pc = (IF n \notin 1 .. MaxDays THEN "refused" ELSE IF eve THEN "publishing" ELSE "counting")
      /\ d.court = court /\ d.start = start /\ d.days = n /\ d.eve = eve /\ d.published = start
      /\ d.day = (IF eve THEN start + 1 ELSE start) /\ d.counted = 0 /\ d.skipped = {} /\ d.year = 0
  BY <1>2 DEF NoDeadline, start
<1>5. d \in Calls
  <2>1. d = [pc |-> IF n \notin 1 .. MaxDays THEN "refused" ELSE IF eve THEN "publishing" ELSE "counting",
             court |-> court, start |-> start, days |-> n, eve |-> eve, published |-> start,
             day |-> IF eve THEN start + 1 ELSE start, counted |-> 0, skipped |-> {}, year |-> 0]
    BY <1>2 DEF NoDeadline, start
  <2> QED
    BY <1>3, <2>1 DEF Calls
<1> HIDE DEF d
<1>6. d.pc \in {"publishing", "counting"} => n \in 1 .. MaxDays
  BY <1>4
<1>7. GivenOK(d)
  BY <1>3, <1>4, <1>6 DEF GivenOK
<1>8. PublishingOK(d)
  <2>1. start + 1 .. start = {}
    BY <1>3
  <2>2. d.pc = "publishing" => eve /\ d.day - 1 = start
    BY <1>3, <1>4
  <2> QED
    BY <1>3, <1>4, <2>1, <2>2 DEF PublishingOK, Open
<1>9. CountingOK(d)
  <2>1. start + 1 .. start = {}
    BY <1>3
  <2>2. d.pc = "counting" => ~eve /\ d.day = start /\ n # 0
    BY <1>3, <1>4, <1>6
  <2>3. Cardinality({}) = 0
    BY FS_EmptySet
  <2> QED
    <3> SUFFICES ASSUME d.pc = "counting" PROVE CountingOK(d)
      BY DEF CountingOK
    <3>1. Open(d, d.published + 1, d.day) = {} /\ d.start + 1 .. d.day = {}
      BY <1>4, <2>1, <2>2 DEF Open
    <3>2. d.published <= d.day /\ ~d.eve /\ d.counted # d.days /\ d.skipped = (d.start + 1 .. d.day) \ ByLaw[d.court]
      BY <1>3, <1>4, <2>2, <3>1
    <3> QED
      BY <1>4, <2>3, <3>1, <3>2 DEF CountingOK
<1>10. BackOK(d) /\ FeastOK(d)
  BY <1>4 DEF BackOK, FeastOK
<1> QED
  BY <1>5, <1>7, <1>8, <1>9, <1>10 DEF CcInv, CallOK, d

\* What is known of the call that moves.
LEMMA CallMoves ==
    ASSUME CcInv
    PROVE  /\ deadline.start \in Nat /\ deadline.days \in Nat /\ deadline.published \in Nat /\ deadline.day \in Nat
           /\ deadline.counted \in Nat /\ deadline.skipped \subseteq Horizon /\ deadline.eve \in BOOLEAN
           /\ deadline.pc \in {"publishing", "counting", "back"} =>
                deadline.court \in Courts /\ deadline.days \in 1 .. MaxDays /\ deadline.start <= deadline.published
                /\ deadline.counted <= deadline.days
BY DEF CcInv, CallOK, Calls, GivenOK

LEMMA PublishStep == ASSUME CcInv, PublishOn PROVE CcInv'
<1> DEFINE d == deadline
           e == deadline'
           B == ByLaw[d.court]
<1>1. d.pc = "publishing" /\ d.day \in Horizon
  BY DEF PublishOn
<1>2. /\ d.start \in Nat /\ d.days \in Nat /\ d.published \in Nat /\ d.day \in Nat /\ d.counted = 0
      /\ d.skipped \subseteq Horizon /\ d.court \in Courts /\ d.days \in 1 .. MaxDays
      /\ d.published = d.start /\ d.day > d.start /\ d.skipped = d.start + 1 .. d.day - 1
      /\ B \cap (d.start + 1 .. d.day - 1) = {} /\ MaxDays \in Nat
  BY <1>1, CallMoves, CourtAssumption DEF CcInv, CallOK, PublishingOK, Open
<1>3. IsBusinessDay(d.court, d.day) <=> d.day \in B
  BY <1>1, <1>2, BusinessRight
<1>4. CASE d.day \in B
  <2>1. e = [deadline EXCEPT !.pc = "counting", !.published = deadline.day]
    BY <1>3, <1>4 DEF PublishOn
  <2>2. /\ e \in Calls /\ e.pc = "counting" /\ e.published = d.day /\ e.day = d.day /\ e.start = d.start
        /\ e.days = d.days /\ e.counted = d.counted /\ e.skipped = d.skipped /\ e.court = d.court
    BY <1>2, <2>1 DEF CcInv, Calls
  <2> HIDE DEF B, d, e
  <2>3. GivenOK(e) /\ PublishingOK(e) /\ BackOK(e) /\ FeastOK(e)
    BY <1>2, <2>2 DEF GivenOK, PublishingOK, BackOK, FeastOK
  <2>4. CountingOK(e)
    <3>1. Cardinality(Open(e, e.published + 1, e.day)) = 0
      <4>1. d.day + 1 .. d.day = {}
        BY <1>2
      <4> QED
        BY <2>2, <4>1, FS_EmptySet DEF Open
    <3>2. d.skipped = (d.start + 1 .. d.day) \ B
      BY <1>2, <1>4
    <3>3. d.day \in d.start + 1 .. d.day
      BY <1>2
    <3> QED
      BY <1>2, <1>4, <2>2, <3>1, <3>2, <3>3 DEF CountingOK, Open, B
  <2> QED
    BY <2>2, <2>3, <2>4 DEF CcInv, CallOK, e
<1>5. CASE d.day \notin B
  <2>1. e = [deadline EXCEPT !.skipped = deadline.skipped \cup {deadline.day}, !.day = deadline.day + 1]
    BY <1>3, <1>5 DEF PublishOn
  <2>2. /\ e \in Calls /\ e.pc = "publishing" /\ e.published = d.published /\ e.day = d.day + 1 /\ e.start = d.start
        /\ e.days = d.days /\ e.counted = d.counted /\ e.skipped = d.skipped \cup {d.day} /\ e.court = d.court
    <3>1. d.skipped \cup {d.day} \in SUBSET Horizon /\ d.day + 1 \in Nat
      BY <1>1, <1>2
    <3>2. deadline \in Calls
      BY DEF CcInv
    <3> QED
      BY <1>1, <2>1, <3>1, <3>2 DEF Calls
  <2> HIDE DEF B, d, e
  <2>3. GivenOK(e) /\ CountingOK(e) /\ BackOK(e) /\ FeastOK(e)
    BY <1>2, <2>2 DEF GivenOK, CountingOK, BackOK, FeastOK
  <2>4. PublishingOK(e)
    <3>1. d.start + 1 .. d.day = (d.start + 1 .. d.day - 1) \cup {d.day} /\ d.day + 1 - 1 = d.day /\ d.day + 1 > d.start
      BY <1>2
    <3> QED
      BY <1>2, <1>5, <2>2, <3>1 DEF PublishingOK, Open, B
  <2> QED
    BY <2>2, <2>3, <2>4 DEF CcInv, CallOK, e
<1> QED
  BY <1>4, <1>5

LEMMA CountStep == ASSUME CcInv, CountDay PROVE CcInv'
<1> DEFINE d == deadline
           e == deadline'
           B == ByLaw[d.court]
           next == d.day + 1
<1>1. d.pc = "counting" /\ next \in Horizon /\ d.counted < d.days
  BY DEF CountDay
<1>2. /\ d.start \in Nat /\ d.days \in Nat /\ d.published \in Nat /\ d.day \in Nat /\ d.counted \in Nat
      /\ d.skipped \subseteq Horizon /\ d.court \in Courts /\ d.days \in 1 .. MaxDays /\ MaxDays \in Nat
      /\ d.start <= d.published /\ d.published <= d.day
      /\ Cardinality(B \cap (d.published + 1 .. d.day)) = d.counted
      /\ d.skipped = (d.start + 1 .. d.day) \ B
      /\ d.eve => d.published \in B \cap (d.start + 1 .. d.day) /\ B \cap (d.start + 1 .. d.published - 1) = {}
      /\ deadline \in Calls
  BY <1>1, CallMoves, CourtAssumption DEF CcInv, CallOK, CountingOK, Open
<1>3. IsBusinessDay(d.court, next) <=> next \in B
  BY <1>1, <1>2, BusinessRight
<1>4. d.eve => d.published \in B \cap (d.start + 1 .. next)
  BY <1>2
<1>5. (d.start + 1 .. next) \ B = d.skipped \cup ({next} \ B)
  <2>1. d.start + 1 .. next = (d.start + 1 .. d.day) \cup {next}
    BY <1>2
  <2> HIDE DEF next, B
  <2> QED
    BY <1>2, <2>1
<1>6. /\ next \in B => Cardinality(B \cap (d.published + 1 .. next)) = d.counted + 1
      /\ next \notin B => Cardinality(B \cap (d.published + 1 .. next)) = d.counted
  <2>1. d.published + 1 \in Nat /\ d.published + 1 <= d.day + 1
    BY <1>2
  <2> HIDE DEF B
  <2> QED
    BY <1>2, <2>1, OneMoreDay
<1>7. next \in Nat /\ d.published <= next /\ d.counted + 1 \in Nat /\ d.counted + 1 <= d.days
  BY <1>1, <1>2
<1>8. CASE next \in B
  <2>1. e = [deadline EXCEPT !.day = next, !.counted = deadline.counted + 1]
    BY <1>3, <1>8 DEF CountDay
  <2> HIDE DEF next
  <2>2. /\ e \in Calls /\ e.pc = d.pc /\ e.published = d.published /\ e.day = next /\ e.start = d.start /\ e.eve = d.eve
        /\ e.days = d.days /\ e.counted = d.counted + 1 /\ e.skipped = d.skipped /\ e.court = d.court
    BY <1>2, <1>7, <2>1 DEF Calls
  <2> HIDE DEF B, d, e
  <2>3. GivenOK(e) /\ PublishingOK(e) /\ BackOK(e) /\ FeastOK(e)
    BY <1>1, <1>2, <1>7, <2>2 DEF GivenOK, PublishingOK, BackOK, FeastOK
  <2>4. CountingOK(e)
    <3>1. e.published <= e.day /\ Cardinality(Open(e, e.published + 1, e.day)) = e.counted /\ e.day \in ByLaw[e.court]
      BY <1>6, <1>7, <1>8, <2>2 DEF Open, B
    <3>2. e.skipped = (e.start + 1 .. e.day) \ ByLaw[e.court]
      BY <1>5, <1>8, <2>2 DEF B
    <3>3. e.eve => e.published \in Open(e, e.start + 1, e.day) /\ Open(e, e.start + 1, e.published - 1) = {}
      BY <1>2, <1>4, <2>2 DEF Open, B
    <3> QED
      BY <3>1, <3>2, <3>3 DEF CountingOK
  <2> QED
    BY <2>2, <2>3, <2>4 DEF CcInv, CallOK, e
<1>9. CASE next \notin B
  <2>1. e = [deadline EXCEPT !.day = next, !.skipped = deadline.skipped \cup {next}]
    BY <1>3, <1>9 DEF CountDay
  <2> HIDE DEF next
  <2>2. /\ e \in Calls /\ e.pc = d.pc /\ e.published = d.published /\ e.day = next /\ e.start = d.start /\ e.eve = d.eve
        /\ e.days = d.days /\ e.counted = d.counted /\ e.skipped = d.skipped \cup {next} /\ e.court = d.court
    <3>1. d.skipped \cup {next} \in SUBSET Horizon
      BY <1>1, <1>2
    <3> QED
      BY <1>2, <1>7, <2>1, <3>1 DEF Calls
  <2> HIDE DEF B, d, e
  <2>3. GivenOK(e) /\ PublishingOK(e) /\ BackOK(e) /\ FeastOK(e)
    BY <1>1, <1>2, <1>7, <2>2 DEF GivenOK, PublishingOK, BackOK, FeastOK
  <2>4. CountingOK(e)
    <3>1. e.published <= e.day /\ Cardinality(Open(e, e.published + 1, e.day)) = e.counted
      BY <1>6, <1>7, <1>9, <2>2 DEF Open, B
    <3>2. e.skipped = (e.start + 1 .. e.day) \ ByLaw[e.court]
      BY <1>5, <1>9, <2>2 DEF B
    <3>3. e.eve => e.published \in Open(e, e.start + 1, e.day) /\ Open(e, e.start + 1, e.published - 1) = {}
      BY <1>2, <1>4, <2>2 DEF Open, B
    <3>4. e.counted # e.days
      BY <1>1, <1>2, <2>2
    <3> QED
      BY <3>1, <3>2, <3>3, <3>4 DEF CountingOK
  <2> QED
    BY <2>2, <2>3, <2>4 DEF CcInv, CallOK, e
<1> QED
  BY <1>8, <1>9

\* When the deadline is found, the way back begins like any other day of it.
LEMMA AnswerStarts == ASSUME CcInv, Answered PROVE WayBack(deadline)
<1> DEFINE d == deadline
           B == ByLaw[d.court]
<1>1. d.pc = "counting" /\ d.counted = d.days
  BY DEF Answered
<1>2. /\ d.days \in Nat /\ d.published \in Nat /\ d.day \in Nat /\ d.counted \in Nat \ {0}
      /\ d.published <= d.day /\ Cardinality(B \cap (d.published + 1 .. d.day)) = d.counted /\ d.day \in B
  <2>1. MaxDays \in Nat
    BY CourtAssumption
  <2> QED
    BY <1>1, <2>1, CallMoves DEF CcInv, CallOK, CountingOK, Open
<1> HIDE DEF B, d
<1>3. d.published < d.day
  <2>1. SUFFICES ASSUME d.published = d.day PROVE FALSE
    BY <1>2
  <2>2. d.published + 1 .. d.day = {}
    BY <1>2, <2>1
  <2>3. B \cap (d.published + 1 .. d.day) = {}
    BY <2>2
  <2> QED
    BY <1>2, <2>3, FS_EmptySet
<1>4. Cardinality(B \cap (d.published + 1 .. d.day)) = Cardinality(B \cap (d.published + 1 .. d.day - 1)) + 1
  <2> DEFINE b == d.day - 1
  <2>1. d.published + 1 \in Nat /\ b \in Int /\ d.published + 1 <= b + 1 /\ b + 1 = d.day
    BY <1>2, <1>3
  <2> HIDE DEF b
  <2>2. b + 1 \in B => Cardinality(B \cap (d.published + 1 .. b + 1)) = Cardinality(B \cap (d.published + 1 .. b)) + 1
    BY <2>1, OneMoreDay
  <2> QED
    BY <1>2, <2>1, <2>2 DEF b
<1>5. Cardinality(B \cap (d.published + 1 .. d.day - 1)) = d.counted - 1
  <2>1. Cardinality(B \cap (d.published + 1 .. d.day - 1)) \in Nat
    <3>1. d.published + 1 \in Nat /\ d.day - 1 \in Int /\ d.published + 1 <= d.day - 1 + 1
      BY <1>2, <1>3
    <3> QED
      BY <3>1, OneMoreDay
  <2> QED
    BY <1>2, <1>4, <2>1
<1> QED
  BY <1>2, <1>3, <1>5 DEF WayBack, Open, B, d

\* The same count, one day before x.
LEMMA OneDayLess ==
    ASSUME NEW B, NEW p \in Nat, NEW x \in Nat, p < x
    PROVE  /\ Cardinality(B \cap (p + 1 .. x - 1)) \in Nat
           /\ x \in B => Cardinality(B \cap (p + 1 .. x)) = Cardinality(B \cap (p + 1 .. x - 1)) + 1
           /\ x \notin B => Cardinality(B \cap (p + 1 .. x)) = Cardinality(B \cap (p + 1 .. x - 1))
<1> DEFINE a == p + 1
           b == x - 1
<1>1. a \in Nat /\ b \in Int /\ a <= b + 1 /\ b + 1 = x
  OBVIOUS
<1> HIDE DEF a, b
<1>2. /\ Cardinality(B \cap (a .. b)) \in Nat
      /\ b + 1 \in B => Cardinality(B \cap (a .. b + 1)) = Cardinality(B \cap (a .. b)) + 1
      /\ b + 1 \notin B => Cardinality(B \cap (a .. b + 1)) = Cardinality(B \cap (a .. b))
  BY <1>1, OneMoreDay
<1> QED
  BY <1>1, <1>2 DEF a, b

\* A day further back, for a call d that moves to e.
LEMMA WayBackMoves ==
    ASSUME NEW d, NEW e, NEW x, WayBack(d), d.counted > 0, d.counted \in Nat, d.day \in Nat, d.published \in Nat,
           x \in Nat, d.day = x + 1, e.day = x, e.published = d.published, e.court = d.court,
           e.counted = (IF x \in ByLaw[d.court] THEN d.counted - 1 ELSE d.counted)
    PROVE  WayBack(e)
<1> DEFINE B == ByLaw[d.court]
           p == d.published
<1>1. x - 1 \in Int /\ x - 1 + 1 = x /\ p + 1 \in Nat /\ p \in Nat /\ d.day - 1 = x
  OBVIOUS
<1>2. CASE p < x
  <2>1. d.counted >= 1 /\ Cardinality(B \cap (p + 1 .. x)) = d.counted - 1
    BY <1>1, <1>2 DEF WayBack, Open
  <2>2. /\ Cardinality(B \cap (p + 1 .. x - 1)) \in Nat
        /\ x \in B => Cardinality(B \cap (p + 1 .. x)) = Cardinality(B \cap (p + 1 .. x - 1)) + 1
        /\ x \notin B => Cardinality(B \cap (p + 1 .. x)) = Cardinality(B \cap (p + 1 .. x - 1))
    <3> HIDE DEF B, p
    <3> QED
      BY <1>1, <1>2, OneDayLess
  <2>3. e.counted >= 1 /\ Cardinality(B \cap (p + 1 .. x - 1)) = e.counted - 1
    <3> DEFINE C == Cardinality(B \cap (p + 1 .. x - 1))
    <3>1. C \in Nat /\ (x \in B => C + 1 = d.counted - 1) /\ (x \notin B => C = d.counted - 1)
      BY <2>1, <2>2
    <3>2. e.counted = (IF x \in B THEN d.counted - 1 ELSE d.counted) /\ d.counted \in Nat
      OBVIOUS
    <3> HIDE DEF C, B
    <3> QED
      BY <3>1, <3>2 DEF C
  <2> QED
    BY <1>2, <2>3 DEF WayBack, Open
<1>3. CASE p = x
  <2>1. Cardinality(B \cap (p + 1 .. x)) = d.counted - 1
    BY <1>1, <1>3 DEF WayBack, Open
  <2>2. p + 1 .. x = {}
    BY <1>1, <1>3
  <2>3. d.counted = 1
    <3>1. B \cap (p + 1 .. x) = {}
      BY <2>2
    <3>2. 0 = d.counted - 1
      BY <2>1, <3>1, FS_EmptySet, Zenon
    <3> QED
      BY <3>2
  <2>4. e.counted = (IF x \in B THEN 0 ELSE 1)
    BY <2>3
  <2>5. x .. p = {x} /\ x + 1 .. p = {}
    BY <1>1, <1>3
  <2>6. ~(p < x)
    BY <1>1, <1>3
  <2> HIDE DEF p
  <2> QED
    BY <2>4, <2>5, <2>6 DEF WayBack, Open, p
<1>4. CASE x < p
  <2>1. d.counted = 1 /\ B \cap (d.day .. p) = {}
    BY <1>1, <1>4 DEF WayBack, Open
  <2>2. e.counted = (IF x \in B THEN 0 ELSE 1)
    BY <2>1
  <2>3. x .. p = {x} \cup (d.day .. p) /\ x + 1 .. p = d.day .. p
    BY <1>1, <1>4
  <2>4. ~(p < x)
    BY <1>1, <1>4
  <2> HIDE DEF p
  <2> QED
    BY <2>1, <2>2, <2>3, <2>4 DEF WayBack, Open, p
<1> QED
  BY <1>1, <1>2, <1>3, <1>4

LEMMA BackStep == ASSUME CcInv, BackDay PROVE CcInv'
<1> DEFINE d == deadline
           e == deadline'
           B == ByLaw[d.court]
           x == d.day - 1
<1>1. /\ Answered \/ (d.pc = "back" /\ d.counted > 0)
      /\ x \in Horizon
      /\ e = [d EXCEPT !.pc = "back", !.day = x, !.counted = IF IsBusinessDay(d.court, x) THEN d.counted - 1 ELSE d.counted]
  BY DEF BackDay
<1>2. d.pc \in {"counting", "back"} /\ WayBack(d)
  BY <1>1, AnswerStarts DEF Answered, CcInv, CallOK, BackOK
<1>3. /\ d.start \in Nat /\ d.days \in Nat /\ d.published \in Nat /\ d.day \in Nat /\ d.counted \in Nat
      /\ d.skipped \subseteq Horizon /\ d.court \in Courts /\ d.days \in 1 .. MaxDays /\ MaxDays \in Nat
      /\ d.start <= d.published /\ d.counted <= d.days /\ deadline \in Calls
  BY <1>2, CallMoves, CourtAssumption DEF CcInv
<1>4. d.counted > 0
  BY <1>1, <1>3 DEF Answered
<1>5. x \in Nat /\ d.day = x + 1
  BY <1>1, <1>3, HorizonNat
<1>6. IsBusinessDay(d.court, x) <=> x \in B
  BY <1>1, <1>3, BusinessRight
<1> DEFINE c == IF x \in B THEN d.counted - 1 ELSE d.counted
<1>7. c \in Nat /\ c <= d.days
  BY <1>3, <1>4
<1>8. e = [d EXCEPT !.pc = "back", !.day = x, !.counted = c]
  BY <1>1, <1>6
<1> HIDE DEF x, c, B
<1>9. /\ e \in Calls /\ e.pc = "back" /\ e.published = d.published /\ e.day = x /\ e.start = d.start
      /\ e.days = d.days /\ e.counted = c /\ e.court = d.court
  BY <1>3, <1>5, <1>7, <1>8 DEF Calls
<1> HIDE DEF d, e
<1>10. GivenOK(e) /\ PublishingOK(e) /\ CountingOK(e) /\ FeastOK(e)
  BY <1>3, <1>7, <1>9 DEF GivenOK, PublishingOK, CountingOK, FeastOK
<1>11. WayBack(e)
  <2>1. e.counted = (IF x \in ByLaw[d.court] THEN d.counted - 1 ELSE d.counted)
    BY <1>9 DEF c, B
  <2> QED
    BY <1>2, <1>3, <1>4, <1>5, <1>9, <2>1, WayBackMoves
<1> QED
  BY <1>9, <1>10, <1>11 DEF CcInv, CallOK, BackOK, e

LEMMA EasterStep == ASSUME CcInv, AskEaster PROVE CcInv'
<1>1. PICK y \in FeastYears : deadline' = [NoDeadline EXCEPT !.pc = "feast", !.year = y, !.day = Easter(y)]
  BY DEF AskEaster
<1>2. y \in Nat /\ Easter(y) \in Nat
  <2>1. y \in AllYears
    BY DEF AllYears
  <2> QED
    BY <2>1, EasterLies, BeforeTable
<1> DEFINE e == deadline'
<1>3. e = [pc |-> "feast", court |-> AllCourts, start |-> 0, days |-> 0, eve |-> FALSE, published |-> 0, day |-> Easter(y),
           counted |-> 0, skipped |-> {}, year |-> y]
  BY <1>1 DEF NoDeadline
<1>4. e \in Calls /\ e.pc = "feast" /\ e.day = Easter(y) /\ e.year = y
  BY <1>2, <1>3 DEF Calls
<1> HIDE DEF e
<1> QED
  BY <1>4 DEF CcInv, CallOK, GivenOK, PublishingOK, CountingOK, BackOK, FeastOK, e

LEMMA CcStep == CcInv /\ [CcNext]_ccVars => CcInv'
<1>1. ASSUME CcInv, UNCHANGED ccVars PROVE CcInv'
  BY <1>1 DEF CcInv, ccVars
<1> QED
  BY <1>1, AskStep, PublishStep, CountStep, BackStep, EasterStep DEF CcNext

LEMMA CcStart == CcInit => CcInv
<1> SUFFICES ASSUME CcInit PROVE CcInv
  OBVIOUS
<1>1. deadline \in Calls /\ deadline.pc = "none"
  BY DEF CcInit, NoDeadline, Calls
<1> QED
  BY <1>1 DEF CcInv, CallOK, GivenOK, PublishingOK, CountingOK, BackOK, FeastOK

-----------------------------------------------------------------------------
(***************************************************************************)
(* Easter.                                                                 *)
(***************************************************************************)

\* The days from the start of the era to the end of February, in the terms of the algorithm: year 400 q +
\* 100 e + 4 i + k, of century b = 4 q + e.
LEMMA MarchBegins ==
    ASSUME NEW y \in AllYears
    PROVE  YearStart(y) + Before[y][3] = 365 * y + y \div 4 - y \div 100 + y \div 400 - 306
<1>1. y \in Nat \ {0} /\ Before[y][3] = 59 + LeapDay(y)
  BY BeforeTable
<1>2. (y - 1) \div 4 = y \div 4 - (IF y % 4 = 0 THEN 1 ELSE 0)
  BY <1>1
<1>3. (y - 1) \div 100 = y \div 100 - (IF y % 100 = 0 THEN 1 ELSE 0)
  BY <1>1
<1>4. (y - 1) \div 400 = y \div 400 - (IF y % 400 = 0 THEN 1 ELSE 0)
  BY <1>1
<1>5. (y % 100 = 0 => y % 4 = 0) /\ (y % 400 = 0 => y % 100 = 0)
  BY <1>1
<1> DEFINE p == y \div 4
           q == y \div 100
           r == y \div 400
<1>6. p \in Nat /\ q \in Nat /\ r \in Nat
  BY <1>1
<1>7. LeapDay(y) = (IF y % 4 = 0 THEN 1 ELSE 0) - (IF y % 100 = 0 THEN 1 ELSE 0) + (IF y % 400 = 0 THEN 1 ELSE 0)
  BY <1>5 DEF LeapDay, Leap
<1> QED
  BY <1>1, <1>2, <1>3, <1>4, <1>6, <1>7 DEF YearStart

\* Easter is h + l days after 22 March, or a week before that, and h + l makes it a Sunday.  For three
\* centuries h is the day of the moon in the tables.
EasterFrom(y, h, l, m) ==
    /\ Easter(y) = Ordinal(y, 3, 21) + 1 + h + l - 7 * m
    /\ (Ordinal(y, 3, 21) + 1 + h + l) % 7 = 0
    /\ m = ((y % 19) + 11 * h + 22 * l) \div 451
    /\ y \in 1900..2199 => h = (24 + 19 * (y % 19)) % 30

LEMMA EasterTerms == ASSUME NEW y \in AllYears PROVE \E h \in 0..29, l \in 0..6, m \in {0, 1} : EasterFrom(y, h, l, m)
<1>1. /\ y \in Nat \ {0} /\ LeapDay(y) \in {0, 1} /\ Before[y][3] = 59 + LeapDay(y) /\ Before[y][4] = 90 + LeapDay(y)
      /\ YearStart(y) \in Nat
  <2>1. y \in Nat \ {0} /\ LeapDay(y) \in {0, 1} /\ Before[y][3] = 59 + LeapDay(y) /\ Before[y][4] = 90 + LeapDay(y)
    BY BeforeTable
  <2> QED
    BY <2>1 DEF YearStart
<1> DEFINE a == y % 19
           b == y \div 100
           c == y % 100
           d == b \div 4
           e == b % 4
           f == (b + 8) \div 25
           g == (b - f + 1) \div 3
           h == (19 * a + b - d - g + 15) % 30
           i == c \div 4
           k == c % 4
           l == (32 + 2 * e + 2 * i - h - k) % 7
           m == (a + 11 * h + 22 * l) \div 451
           r == h + l - 7 * m + 114
           w == (32 + 2 * e + 2 * i - h - k) \div 7
<1>2. Easter(y) = Ordinal(y, r \div 31, (r % 31) + 1)
  BY Zenon DEF Easter
<1>3. a \in 0..18 /\ b \in Nat /\ c \in 0..99 /\ y = 100 * b + c
  BY <1>1
<1>4. y \div 4 = 25 * b + i /\ y \div 400 = d
  BY <1>1, <1>3
<1>5. y \in 1900..2199 => b \in 19..21
  BY <1>1
<1> HIDE DEF a, b, c
<1>6. d \in Nat /\ e \in 0..3 /\ f \in Nat /\ i \in Nat /\ k \in 0..3 /\ b = 4 * d + e /\ c = 4 * i + k
  BY <1>3
<1>7. b \in 19..21 => b - d - g + 15 = 24
  <2>1. b = 19 => d = 4 /\ g = 6
    BY <1>3
  <2>2. b = 20 => d = 5 /\ g = 6
    BY <1>3
  <2>3. b = 21 => d = 5 /\ g = 7
    BY <1>3
  <2>4. b \in 19..21 => b = 19 \/ b = 20 \/ b = 21
    OBVIOUS
  <2> HIDE DEF d, g
  <2> QED
    BY <2>1, <2>2, <2>3, <2>4
<1> HIDE DEF d, e, f, i, k
<1>8. g \in Int
  BY <1>3, <1>6
<1> HIDE DEF g
<1>9. h \in 0..29 /\ (b \in 19..21 => h = (24 + 19 * a) % 30)
  <2>1. h \in 0..29
    BY <1>3, <1>6, <1>8
  <2>2. b \in 19..21 => 19 * a + b - d - g + 15 = 24 + 19 * a
    BY <1>3, <1>6, <1>7, <1>8
  <2> QED
    BY <2>1, <2>2
<1> HIDE DEF h
<1>10. l \in 0..6 /\ w \in Int /\ 32 + 2 * e + 2 * i - h - k = 7 * w + l
  BY <1>6, <1>9
<1> HIDE DEF l, w
<1>11. m \in {0, 1}
  BY <1>3, <1>9, <1>10
<1>12. m = (a + 11 * h + 22 * l) \div 451
  OBVIOUS
<1> HIDE DEF m
<1>13. r \in 107..149 /\ r = h + l - 7 * m + 114
  BY <1>9, <1>10, <1>11
<1> HIDE DEF r
<1>14. \A p, q : Ordinal(y, p, q) = YearStart(y) + Before[y][p] + q
  BY DEF Ordinal, YearStart
<1>15. Ordinal(y, 3, 21) = YearStart(y) + (59 + LeapDay(y)) + 21 /\ Ordinal(y, 3, 21) \in Nat
  BY <1>1, <1>14
<1>16. \/ r \div 31 = 3 /\ r % 31 = r - 93
       \/ r \div 31 = 4 /\ r % 31 = r - 124
  BY <1>13
<1>17. Easter(y) = YearStart(y) + Before[y][r \div 31] + ((r % 31) + 1)
  BY <1>2, <1>14, Zenon
<1>18. Easter(y) = YearStart(y) + (59 + LeapDay(y)) + (r - 92)
  <2>1. CASE r \div 31 = 3 /\ r % 31 = r - 93
    <3>1. Easter(y) = YearStart(y) + (59 + LeapDay(y)) + (r - 93 + 1)
      BY <1>1, <1>17, <2>1
    <3> QED
      BY <1>1, <1>13, <3>1
  <2>2. CASE r \div 31 = 4 /\ r % 31 = r - 124
    <3>1. Easter(y) = YearStart(y) + (90 + LeapDay(y)) + (r - 124 + 1)
      BY <1>1, <1>17, <2>2
    <3> QED
      BY <1>1, <1>13, <3>1
  <2> QED
    BY <1>16, <2>1, <2>2
<1>19. Easter(y) = Ordinal(y, 3, 21) + 1 + h + l - 7 * m
  BY <1>1, <1>9, <1>10, <1>11, <1>13, <1>15, <1>18
<1>20. (Ordinal(y, 3, 21) + 1 + h + l) % 7 = 0
  <2>1. YearStart(y) + Before[y][3] = 365 * y + (25 * b + i) - b + d - 306
    BY <1>4, MarchBegins DEF b
  <2>2. Ordinal(y, 3, 21) = 365 * (100 * b + c) + (25 * b + i) - b + d - 306 + 21
    BY <1>1, <1>3, <1>6, <1>14, <2>1
  <2> DEFINE z == 20871 * d + 5218 * e + 209 * i + 52 * k - 36 - w
  <2>3. z \in Int /\ Ordinal(y, 3, 21) + 1 + h + l = 7 * z
    BY <1>3, <1>6, <1>9, <1>10, <2>2
  <2> HIDE DEF z
  <2> QED
    BY <2>3
<1>21. m = ((y % 19) + 11 * h + 22 * l) \div 451
  BY <1>12 DEF a
<1>22. y \in 1900..2199 => h = (24 + 19 * (y % 19)) % 30
  BY <1>5, <1>9 DEF a
<1>23. h \in 0..29 /\ l \in 0..6 /\ m \in {0, 1}
  BY <1>9, <1>10, <1>11
<1>24. EasterFrom(y, h, l, m)
  BY <1>19, <1>20, <1>21, <1>22 DEF EasterFrom
<1> QED
  BY <1>23, <1>24, Zenon

\* Easter is the Sunday that the tables give.
LEMMA EasterHolds ==
    ASSUME NEW y \in FeastYears
    PROVE  Easter(y) = CHOOSE n \in PaschalMoon(y) + 1 .. PaschalMoon(y) + 7 : Weekday(n) = 6
<1>1. y \in 1900..2199 /\ y \in AllYears
  BY CourtAssumption DEF AllYears
<1>2a. PICK h \in 0..29, l \in 0..6, m \in {0, 1} : EasterFrom(y, h, l, m)
  <2>1. y \in AllYears
    BY <1>1
  <2> QED
    BY <2>1, EasterTerms, Zenon
<1>2. /\ Easter(y) = Ordinal(y, 3, 21) + 1 + h + l - 7 * m
      /\ (Ordinal(y, 3, 21) + 1 + h + l) % 7 = 0
      /\ m = ((y % 19) + 11 * h + 22 * l) \div 451
      /\ y \in 1900..2199 => h = (24 + 19 * (y % 19)) % 30
  BY <1>2a DEF EasterFrom
<1> DEFINE a == y % 19
           late == IF h = 29 \/ (h = 28 /\ a > 10) THEN h - 1 ELSE h
           o == Ordinal(y, 3, 21)
           moon == PaschalMoon(y)
<1>3. moon = o + late
  BY <1>1, <1>2 DEF PaschalMoon
<1>4. a \in 0..18 /\ m = (a + 11 * h + 22 * l) \div 451
  BY <1>1, <1>2
<1>5. o \in Nat
  <2>1. Date(y, 3, 21)
    <3>1. y \in Nat
      BY <1>1
    <3> QED
      BY <1>1, <3>1, MonthLengths DEF Date
  <2> QED
    BY <2>1, OrdinalLies
<1> HIDE DEF a, o, moon
<1>6. IF (h = 29 \/ (h = 28 /\ a > 10)) /\ l = 6 THEN m = 1 ELSE m = 0
  BY <1>4
<1>7. late \in Int /\ 1 + h + l - 7 * m \in late + 1 .. late + 7
  BY <1>6
<1> HIDE DEF late
<1>8. Easter(y) \in moon + 1 .. moon + 7 /\ moon \in Int /\ Easter(y) \in Int
  <2>1. Easter(y) = o + 1 + h + l - 7 * m
    BY <1>2 DEF o
  <2>2. moon \in Int
    BY <1>3, <1>5, <1>7
  <2> QED
    BY <1>3, <1>5, <1>7, <2>1, <2>2
<1>9. Weekday(Easter(y)) = 6
  <2>1. Easter(y) = o + 1 + h + l - 7 * m /\ (o + 1 + h + l) % 7 = 0
    BY <1>2 DEF o
  <2>2. Easter(y) % 7 = 0
    BY <1>5, <2>1
  <2> QED
    BY <1>8, <2>2 DEF Weekday
<1>10. ASSUME NEW n \in moon + 1 .. moon + 7, Weekday(n) = 6 PROVE n = Easter(y)
  BY <1>8, <1>9, <1>10 DEF Weekday
<1> QED
  BY <1>8, <1>9, <1>10 DEF moon

-----------------------------------------------------------------------------
\* For any court, start and length, the deadline ends on the business day the law names, counting back
\* returns to its publication, and Easter is the Sunday of the tables: DeadlinesAreRight.
THEOREM CalendarObeyed == CcSpec => []DeadlinesAreRight
<1>1. CcInv => DeadlinesAreRight
  <2> SUFFICES ASSUME CcInv PROVE DeadlinesAreRight
    OBVIOUS
  <2>1. CountIsRight
    <3> DEFINE d == deadline
    <3>1. \A from, to : OpenIn(from, to) = Open(d, from, to)
      BY DEF OpenIn, Open
    <3>2. ASSUME d.pc = "counting"
          PROVE  /\ Cardinality(OpenIn(d.published + 1, d.day)) = d.counted
                 /\ d.eve => d.published \in OpenIn(d.start + 1, d.day) /\ OpenIn(d.start + 1, d.published - 1) = {}
                 /\ d.counted = d.days => d.day \in ByLaw[d.court]
                 /\ d.skipped = (d.start + 1 .. d.day) \ ByLaw[d.court]
      BY <3>1, <3>2 DEF CcInv, CallOK, CountingOK
    <3> QED
      BY <3>2 DEF CountIsRight, Answered
  <2>2. BackReturns
    <3> SUFFICES ASSUME deadline.pc = "back", deadline.counted = 0
                 PROVE  /\ deadline.day \in ByLaw[deadline.court] /\ deadline.day <= deadline.published
                        /\ OpenIn(deadline.day + 1, deadline.published) = {}
      BY DEF BackReturns
    <3>1. WayBack(deadline) /\ deadline.day \in Nat /\ deadline.published \in Nat
      BY CallMoves DEF CcInv, CallOK, BackOK
    <3> QED
      BY <3>1 DEF WayBack, Open, OpenIn
  <2>3. EasterIsRight
    BY EasterHolds DEF CcInv, CallOK, FeastOK, EasterIsRight
  <2> QED
    BY <2>1, <2>2, <2>3 DEF DeadlinesAreRight
<1> QED
  BY <1>1, CcStart, CcStep, PTL DEF CcSpec

-----------------------------------------------------------------------------
(***************************************************************************)
(* The types of MCDeadlines: the bounds the invariants of the calendars    *)
(* leave out, and then the eight components together.                      *)
(***************************************************************************)
CsBounds == clock <= MaxClock /\ Created \subseteq Ids

LEMMA NoneCreated ==
    ASSUME CsBounds, UNCHANGED Created, clock' = clock \/ Tick, clock \in Nat
    PROVE  CsBounds'
  BY CsAssumption DEF CsBounds, Tick, Ids

LEMMA OneCreated == ASSUME CsRows, CsBounds, NEW s \in Syncers, PostEvent(s) PROVE CsBounds'
<1>1. PICK n \in Nat : Created = 1 .. n
  BY DEF CsRows
<1>2. Cardinality(Created) = n
  BY <1>1, FS_Interval
<1>3. n < MaxEvents /\ Tick
  BY <1>2 DEF PostEvent
<1>4. Created' = Created \cup {n + 1}
  <2>1. \E body : events' = [i \in Created \cup {n + 1} |-> IF i = n + 1 THEN body ELSE events[i]]
    BY <1>2 DEF PostEvent
  <2> QED
    BY <2>1 DEF Created
<1>5. Created' \subseteq Ids
  BY <1>1, <1>3, <1>4, CsAssumption DEF Ids
<1> QED
  BY <1>3, <1>5, CsAssumption DEF CsRows, CsBounds, Tick, Ids

LEMMA CsBoundsStep == CsRows /\ CsBounds /\ [CsNext]_csVars => CsBounds'
<1> SUFFICES ASSUME CsRows, CsBounds, [CsNext]_csVars PROVE CsBounds'
  OBVIOUS
<1>0. clock \in Nat
  BY DEF CsRows
<1>1. CASE UNCHANGED <<events, clock>>
  BY <1>0, <1>1, NoneCreated DEF Created
<1>2. ASSUME NEW id, Removes(id) PROVE CsBounds'
  <2>1. Created' = Created /\ (clock' = clock \/ Tick)
    BY <1>2 DEF Removes, Live, Created
  <2> QED
    BY <1>0, <2>1, NoneCreated
<1>3. ASSUME NEW s \in Syncers, PatchEvent(s) PROVE CsBounds'
  <2>1. Created' = Created /\ (clock' = clock \/ Tick)
    BY <1>3 DEF PatchEvent, Live, Created
  <2> QED
    BY <1>0, <2>1, NoneCreated
<1>4. CASE MoveEvent \/ DropEvent
  <2>1. Created' = Created /\ Tick
    BY <1>4 DEF MoveEvent, DropEvent, Created
  <2> QED
    BY <1>0, <2>1, NoneCreated
<1>5. CASE TickTask
  BY <1>0, <1>5, NoneCreated DEF TickTask, Created
<1>6. ASSUME NEW s \in Syncers, PostEvent(s) PROVE CsBounds'
  BY <1>6, OneCreated
<1>7. ASSUME NEW s \in Syncers,
             \/ TakePush(s) \/ KeepTime(s) \/ KeepEvent(s) \/ SyncBreaks(s)
             \/ PullEvents(s) \/ ApplyPulled(s) \/ KeepToken(s) \/ PullBreaks(s)
      PROVE  CsBounds'
  BY <1>1, <1>7 DEF TakePush, KeepTime, KeepEvent, SyncBreaks, PullEvents, ApplyPulled, KeepToken, PullBreaks
<1>8. ASSUME NEW s \in Syncers, RemoveEvent(s) PROVE CsBounds'
  BY <1>2, <1>8 DEF RemoveEvent
<1>9. CASE DeleteEvent
  BY <1>2, <1>9 DEF DeleteEvent
<1>10. CASE DeleteTask \/ LoseAccess \/ Connect \/ Disconnect \/ UNCHANGED csVars
  BY <1>1, <1>10 DEF DeleteTask, LoseAccess, Connect, Disconnect, csVars
<1> QED
  BY <1>3, <1>4, <1>5, <1>6, <1>7, <1>8, <1>9, <1>10 DEF CsNext

LEMMA CalendarTyped == CsSpec => []CsTypeOK
<1>1. CsInit => CsBounds
  <2> SUFFICES ASSUME CsInit PROVE CsBounds
    OBVIOUS
  <2>1. Created = {} /\ clock = 0
    BY DEF CsInit, Created
  <2> QED
    BY <2>1, CsAssumption DEF CsBounds
<1>2. CsInv /\ CsBounds => CsTypeOK
  <2> SUFFICES ASSUME CsRows, TimesOK, CsBounds PROVE CsTypeOK
    BY DEF CsInv
  <2>1. map.id \in Nat /\ map.at \in Nat /\ token \in Nat /\ clock \in Nat /\ MaxClock \in Nat /\ MaxEvents \in Nat
    BY CsAssumption DEF CsRows
  <2>2. map.id \in 0 .. MaxEvents
    BY <2>1 DEF TimesOK, CsBounds, Ids
  <2>3. map.at \in 0 .. MaxClock /\ token \in 0 .. MaxClock
    BY <2>1 DEF TimesOK, CsBounds
  <2> QED
    BY <2>2, <2>3 DEF CsRows, TaskRow, TimesOK, CsBounds, CsTypeOK
<1>3. CsInv => CsRows
  BY DEF CsInv
<1> QED
  BY <1>1, <1>2, <1>3, CsBoundsStep, CsStart, CsStep, PTL DEF CsSpec

\* What was not answered was not counted.
UncountedOK == deadline.pc \in {"none", "refused", "feast"} => deadline.counted = 0

LEMMA CourtTyped == CcSpec => []CcTypeOK
<1>1. CcInit => UncountedOK
  BY DEF CcInit, UncountedOK, NoDeadline
<1>2. CcInv /\ UncountedOK /\ [CcNext]_ccVars => UncountedOK'
  <2> SUFFICES ASSUME deadline \in Calls, UncountedOK, [CcNext]_ccVars PROVE UncountedOK'
    BY DEF CcInv
  <2>1. CASE AskDeadline
    BY <2>1 DEF AskDeadline, NoDeadline, UncountedOK
  <2>2. CASE AskEaster
    BY <2>2 DEF AskEaster, NoDeadline, UncountedOK
  <2>3. CASE PublishOn
    <3>1. deadline'.pc \in {"publishing", "counting"}
      BY <2>3 DEF PublishOn, Calls
    <3> QED
      BY <3>1 DEF UncountedOK
  <2>4. CASE CountDay
    <3>1. deadline'.pc = "counting"
      BY <2>4 DEF CountDay, Calls
    <3> QED
      BY <3>1 DEF UncountedOK
  <2>5. CASE BackDay
    <3>1. deadline'.pc = "back"
      BY <2>5 DEF BackDay, Calls
    <3> QED
      BY <3>1 DEF UncountedOK
  <2>6. CASE UNCHANGED ccVars
    BY <2>6 DEF ccVars, UncountedOK
  <2> QED
    BY <2>1, <2>2, <2>3, <2>4, <2>5, <2>6 DEF CcNext
<1>3. CcInv /\ UncountedOK => CcTypeOK
  <2> SUFFICES ASSUME deadline \in Calls, GivenOK(deadline), UncountedOK PROVE CcTypeOK
    BY DEF CcInv, CallOK
  <2> DEFINE d == deadline
  <2>1. /\ d.pc \in {"none", "refused", "publishing", "counting", "back", "feast"} /\ d.start \in Nat /\ d.day \in Nat
        /\ d.skipped \subseteq Horizon /\ d.counted \in Nat
    BY DEF Calls
  <2>2. d.pc \in {"publishing", "counting", "back"} => d.days \in 1 .. MaxDays /\ d.counted <= d.days
    BY DEF GivenOK
  <2>3. d.counted \in 0 .. MaxDays
    <3>1. d.counted = 0 \/ d.counted <= MaxDays
      BY <2>1, <2>2, CourtAssumption DEF UncountedOK
    <3> QED
      BY <2>1, <3>1, CourtAssumption
  <2> QED
    BY <2>1, <2>2, <2>3 DEF CcTypeOK
<1> QED
  BY <1>1, <1>2, <1>3, CcStart, CcStep, PTL DEF CcSpec

\* While one of the eight moves the others rest, so each of them keeps its own specification.
LEMMA OneMovesAlone ==
    DeadlinesSpec => PubSpec /\ MonSpec /\ DocSpec /\ CsSpec /\ CcSpec /\ TrgSpec /\ SugSpec /\ PieceSpec
<1>1. DeadlinesInit => PubInit /\ MonInit /\ DocInit /\ CsInit /\ CcInit /\ TrgInit /\ SugInit /\ PieceInit
  BY DEF DeadlinesInit, PubRest, MonRest, DocRest, CsRest
<1>2. [DeadlinesNext]_<<moves, pubVars, monVars, docVars, csVars, ccVars, trgVars, sugVars, pieceVars>> =>
          /\ [PubNext]_pubVars /\ [MonNext]_monVars /\ [DocNext]_docVars /\ [CsNext]_csVars /\ [CcNext]_ccVars
          /\ [TrgNext]_trgVars /\ [SugNext]_sugVars /\ [PieceNext]_pieceVars
  BY DEF DeadlinesNext
<1> QED
  BY <1>1, <1>2, PTL DEF DeadlinesSpec, PubSpec, MonSpec, DocSpec, CsSpec, CcSpec, TrgSpec, SugSpec, PieceSpec

\* Every variable of the eight modules keeps to its range: no time of the calendar is later than now, an event
\* that is mapped or to be removed was created, and a deadline never counts more days than it may have.
THEOREM DeadlinesTypesOK == DeadlinesSpec => []TypesOK
<1>1. (PubSpec => []PubTypeOK) /\ (MonSpec => []MonTypeOK) /\ (DocSpec => []DocTypeOK)
  BY PubInvHolds, MonInvHolds, DocInvHolds, PTL
<1>2. (TrgSpec => []TrgTypeOK) /\ (SugSpec => []SugTypeOK) /\ (PieceSpec => []PieceTypeOK)
  BY TrgInvHolds, SugInvHolds, PieceInvHolds, PTL
<1> QED
  BY <1>1, <1>2, OneMovesAlone, CalendarTyped, CourtTyped, PTL DEF TypesOK
=============================================================================
