----------------------------- MODULE MCDeadlines -----------------------------
(***************************************************************************)
(* The ways something that arrives becomes a task, an entry of a calendar  *)
(* or a notice (Publications, CaseMonitor, Documents, CalendarSync,        *)
(* CourtCalendar), what time makes of it (Triggers of rules, and the       *)
(* Suggestions of new ones), and what the office sends out                 *)
(* (ContentPieces).  Tasks go from the first ones to the others and        *)
(* nothing comes back, so in this instance one moves while the others rest *)
(* in an initial state, and TLC explores each of them completely.          *)
(***************************************************************************)
EXTENDS Publications, CaseMonitor, Documents, CalendarSync, MCCourtCalendar, Triggers, Suggestions, ContentPieces, TLC

VARIABLE moves  \* the component that moves in this behaviour

PubRest == PubInit /\ \A p \in Pubs : gazette[p] = NotShown
MonRest == MonInit /\ source = {}
DocRest == DocInit /\ queue = 1 /\ level = "review"
CsRest == CsInit /\ wish = CHOOSE d \in Dates : TRUE

DeadlinesInit ==
    /\ moves \in {"publications", "movements", "documents", "calendar", "court", "triggers", "suggestions", "pieces"}
    /\ IF moves = "publications" THEN PubInit ELSE PubRest
    /\ IF moves = "movements" THEN MonInit ELSE MonRest
    /\ IF moves = "documents" THEN DocInit ELSE DocRest
    /\ IF moves = "calendar" THEN CsInit ELSE CsRest
    /\ TrgInit /\ (moves = "triggers" \/ (trigger = "schedule" /\ \A x \in Things : thing[x].date = 0))
    /\ SugInit /\ (moves = "suggestions" \/ (offeredBy = "interview" /\ ~pattern))
    /\ CcInit /\ PieceInit

DeadlinesNext ==
    /\ UNCHANGED moves
    /\ \/ moves = "publications" /\ PubNext /\ UNCHANGED <<monVars, docVars, csVars, ccVars, trgVars, sugVars, pieceVars>>
       \/ moves = "movements" /\ MonNext /\ UNCHANGED <<pubVars, docVars, csVars, ccVars, trgVars, sugVars, pieceVars>>
       \/ moves = "documents" /\ DocNext /\ UNCHANGED <<pubVars, monVars, csVars, ccVars, trgVars, sugVars, pieceVars>>
       \/ moves = "calendar" /\ CsNext /\ UNCHANGED <<pubVars, monVars, docVars, ccVars, trgVars, sugVars, pieceVars>>
       \/ moves = "court" /\ CcNext /\ UNCHANGED <<pubVars, monVars, docVars, csVars, trgVars, sugVars, pieceVars>>
       \/ moves = "triggers" /\ TrgNext /\ UNCHANGED <<pubVars, monVars, docVars, csVars, ccVars, sugVars, pieceVars>>
       \/ moves = "suggestions" /\ SugNext /\ UNCHANGED <<pubVars, monVars, docVars, csVars, ccVars, trgVars, pieceVars>>
       \/ moves = "pieces" /\ PieceNext /\ UNCHANGED <<pubVars, monVars, docVars, csVars, ccVars, trgVars, sugVars>>

DeadlinesSpec == DeadlinesInit /\ [][DeadlinesNext]_<<moves, pubVars, monVars, docVars, csVars, ccVars, trgVars, sugVars, pieceVars>>

\* Two publications, each on its page, while one consultation runs at a time; one publication while two run
\* at once, people review it, on the day the lawyer is registered, or the registration changes.
SearchOrReview ==
    /\ decisions = 0 \/ (saves = 0 /\ today = FirstWindow)
    /\ Cardinality(Shown) <= 1 \/ (decisions + saves = 0 /\ \E c \in Pollers : poller[c].pc = "idle")

\* Once a handler has overtaken another ConfirmationHolds says nothing of the reading any more.
BeforeOvertaking == ~overtaken

\* Every variable of the eight modules keeps to its range.
TypesOK == PubTypeOK /\ MonTypeOK /\ DocTypeOK /\ CsTypeOK /\ CcTypeOK /\ TrgTypeOK /\ SugTypeOK /\ PieceTypeOK

\* The components' processes are the same model values: only one component moves in a behaviour.
DeadlinesSymmetry == Permutations(Pollers)
=============================================================================
