---------------------------- MODULE Customizations ----------------------------
(***************************************************************************)
(* A request of an office to have something set up for it, and the ticket  *)
(* in which the two talk (src/support): staff analyse and propose, the     *)
(* office approves or cancels, staff carry out.  A handler loads the row   *)
(* and its ticket, decides on what it loaded and saves the whole row;      *)
(* nothing locks it and no transaction joins its writes.  The messages,    *)
(* written before or after, tell the other side.                           *)
(***************************************************************************)
EXTENDS Naturals

CONSTANTS
    People,     \* requests being handled, of staff and of the office
    MaxOffers,  \* bound: proposals written
    MaxTurns    \* bound: times a handler takes the request or the ticket up

ASSUME CustomizationAssumption == MaxOffers \in Nat /\ MaxTurns \in Nat

Stages == {"received", "analysis", "proposal", "approved", "in_progress", "delivered", "declined", "canceled"}
TicketStatus == {"open", "waiting_client", "resolved", "closed"}  \* "in_progress" goes as "open"

VARIABLES
    req,   \* CustomizationRequest: [stage, offer: proposal, term and price as one number, 0 none; approved: the offer or 0]
    ticket,    \* Ticket.status
    hand,      \* a handler: [pc, row, seen: the ticket's status; both as loaded, to: the stage it gives]
    offers,    \* proposals written so far
    turns,
    told,      \* history: offers whose note is in the ticket
    lastWord,  \* history: who wrote the last message the office sees
    inPlace,   \* history: offers written over another while it was with the office
    untold,    \* history: offers whose note was refused (closed ticket), or not written by a handler that died
    final,     \* history: the last stage first reached, or "none"
    upset      \* history: a handler loaded while another was between loading and its last write, or died

\* The columns a handler saves, and what a handler has.
RequestRow == [stage : Stages, offer : 0 .. MaxOffers, approved : 0 .. MaxOffers]
HandRow ==
    [pc : {"idle", "update", "note", "after_note", "reply", "after_reply", "approve", "approving", "cancel", "answer", "answered"},
     row : RequestRow, seen : TicketStatus, to : Stages]

custVars == <<req, ticket, hand, offers, turns, told, lastWord, inPlace, untold, final, upset>>

Free == [pc |-> "idle", row |-> [stage |-> "received", offer |-> 0, approved |-> 0], seen |-> "open", to |-> "received"]

\* create: the ticket, its first message and the request, in one transaction.
CustInit ==
    /\ req = Free.row /\ ticket = "open" /\ hand = [p \in People |-> Free] /\ offers = 0 /\ turns = 0
    /\ told = {} /\ lastWord = "office" /\ inPlace = {} /\ untold = {} /\ final = "none" /\ upset = FALSE

\* STAFF_MOVES.
StaffMoves ==
    [s \in Stages |->
        CASE s = "received" -> {"analysis", "declined"}   [] s = "analysis" -> {"proposal", "declined"}
          [] s = "proposal" -> {"analysis", "declined"}   [] s = "approved" -> {"in_progress"}
          [] s = "in_progress" -> {"delivered"}           [] OTHER -> {}]

Loads(p, pc, to) ==
    /\ hand[p].pc = "idle" /\ turns < MaxTurns /\ turns' = turns + 1
    /\ hand' = [hand EXCEPT ![p] = [pc |-> pc, row |-> req, seen |-> ticket, to |-> to]]
    /\ upset' = (upset \/ \E q \in People \ {p} : hand[q].pc # "idle")
    /\ UNCHANGED <<req, ticket, offers, told, lastWord, inPlace, untold, final>>

Finishes(stage) == final' = IF final = "none" /\ stage \in {"delivered", "declined", "canceled"} THEN stage ELSE final
GoesTo(p, pc) == hand' = [hand EXCEPT ![p].pc = pc]
LetsGo(p) == hand' = [hand EXCEPT ![p] = Free]

-----------------------------------------------------------------------------
\* staff_update: the stage asked for must be the one the row has, or one it may go to.
StaffTakes(p, to) == (to = req.stage \/ to \in StaffMoves[req.stage]) /\ Loads(p, "update", to)

\* Mutant: only the columns of the proposal and the stage are saved.
SaveColumns(p, offer) == [req EXCEPT !.stage = hand[p].to, !.offer = offer]
StaffRow(p, offer) == [hand[p].row EXCEPT !.stage = hand[p].to, !.offer = offer]

\* req.save().  Asking for "proposal" writes a proposal, over the one that is with the office too.
StaffSaves(p) ==
    /\ hand[p].pc = "update"
    /\ IF hand[p].to = "proposal"
       THEN /\ offers < MaxOffers /\ offers' = offers + 1
            /\ req' = StaffRow(p, offers + 1)
            /\ inPlace' = IF hand[p].row.stage = "proposal" THEN inPlace \cup {offers + 1} ELSE inPlace
       ELSE req' = StaffRow(p, hand[p].row.offer) /\ UNCHANGED <<offers, inPlace>>
    /\ hand' = [hand EXCEPT ![p].pc = IF hand[p].to \in {"proposal", "declined", "delivered"} /\ hand[p].to # hand[p].row.stage
                                      THEN "note" ELSE "idle",
                            ![p].row.offer = IF hand[p].to = "proposal" THEN offers + 1 ELSE hand[p].row.offer]
    /\ Finishes(hand[p].to)
    /\ UNCHANGED <<ticket, turns, told, lastWord, untold, upset>>

\* The note of a new stage is a reply of staff, which a closed ticket refuses: the stage stays.
StaffNotes(p) ==
    /\ hand[p].pc = "note"
    /\ IF hand[p].seen = "closed"
       THEN LetsGo(p) /\ untold' = untold \cup {hand[p].row.offer} /\ UNCHANGED <<told, lastWord>>
       ELSE /\ GoesTo(p, "after_note") /\ lastWord' = "staff" /\ UNCHANGED untold
            /\ told' = IF hand[p].to = "proposal" THEN told \cup {hand[p].row.offer} ELSE told
    /\ UNCHANGED <<req, ticket, offers, turns, inPlace, final, upset>>

\* The reply puts an open ticket in wait of the office, and a proposal any ticket.
StaffWaits(p) ==
    /\ hand[p].pc = "after_note" /\ LetsGo(p)
    /\ ticket' = IF hand[p].to = "proposal" \/ hand[p].seen = "open" THEN "waiting_client" ELSE ticket
    /\ UNCHANGED <<req, offers, turns, told, lastWord, inPlace, untold, final, upset>>

\* staff_reply, to be seen by the office.
StaffReplies(p) == ticket # "closed" /\ Loads(p, "reply", "received")
StaffSpeaks(p) ==
    /\ hand[p].pc = "reply" /\ GoesTo(p, "after_reply") /\ lastWord' = "staff"
    /\ UNCHANGED <<req, ticket, offers, turns, told, inPlace, untold, final, upset>>
StaffReplied(p) ==
    /\ hand[p].pc = "after_reply" /\ LetsGo(p)
    /\ ticket' = IF hand[p].seen = "open" THEN "waiting_client" ELSE ticket
    /\ UNCHANGED <<req, offers, turns, told, lastWord, inPlace, untold, final, upset>>

-----------------------------------------------------------------------------
\* client_decide: approve what is proposed (the message first), or cancel what has not begun.
ClientApproves(p) == req.stage = "proposal" /\ Loads(p, "approve", "approved")
ClientSaysYes(p) ==
    /\ hand[p].pc = "approve" /\ GoesTo(p, "approving") /\ lastWord' = "office"
    /\ UNCHANGED <<req, ticket, offers, turns, told, inPlace, untold, final, upset>>
ClientSaves(p) ==
    /\ hand[p].pc = "approving" /\ LetsGo(p)
    /\ req' = [hand[p].row EXCEPT !.stage = "approved", !.approved = hand[p].row.offer]
    /\ UNCHANGED <<ticket, offers, turns, told, lastWord, inPlace, untold, final, upset>>

\* Mutant: what is carried out may be cancelled.
CancelsAny == Stages
Cancelable == Stages \ {"in_progress", "delivered", "declined", "canceled"}
ClientCancels(p) == req.stage \in Cancelable /\ Loads(p, "cancel", "canceled")
ClientCanceled(p) ==
    /\ hand[p].pc = "cancel" /\ LetsGo(p) /\ req' = [hand[p].row EXCEPT !.stage = "canceled"] /\ Finishes("canceled")
    /\ UNCHANGED <<ticket, offers, turns, told, lastWord, inPlace, untold, upset>>

\* client_reply: a reply opens a ticket that waits for the office or is resolved.
ClientReplies(p) == ticket # "closed" /\ Loads(p, "answer", "received")
ClientSpeaks(p) ==
    /\ hand[p].pc = "answer" /\ GoesTo(p, "answered") /\ lastWord' = "office"
    /\ UNCHANGED <<req, ticket, offers, turns, told, inPlace, untold, final, upset>>
\* Mutant: the status stays as it is.
AnsweredAsSeen(seen) == seen
Answered(seen) == IF seen \in {"waiting_client", "resolved"} THEN "open" ELSE seen
ClientAnswered(p) ==
    /\ hand[p].pc = "answered" /\ LetsGo(p) /\ ticket' = Answered(hand[p].seen)
    /\ UNCHANGED <<req, offers, turns, told, lastWord, inPlace, untold, final, upset>>

\* set_status: the office closes or reopens, staff set any status; by hand, so what follows is not the handlers' doing.
SetsStatus(status) ==
    /\ turns < MaxTurns /\ turns' = turns + 1 /\ ticket' = status /\ ticket # status
    /\ lastWord' = "by_hand"
    /\ upset' = (upset \/ \E q \in People : hand[q].pc # "idle")
    /\ UNCHANGED <<req, hand, offers, told, inPlace, untold, final>>

\* A handler is killed between two writes.
HandlerDies(p) ==
    /\ hand[p].pc \in {"note", "after_note", "approving", "answered", "after_reply"} /\ LetsGo(p) /\ upset' = TRUE
    /\ untold' = IF hand[p].pc = "note" THEN untold \cup {hand[p].row.offer} ELSE untold
    /\ UNCHANGED <<req, ticket, offers, turns, told, lastWord, inPlace, final>>

CustNext ==
    \/ \E p \in People :
        \/ \E to \in Stages : StaffTakes(p, to)
        \/ StaffSaves(p) \/ StaffNotes(p) \/ StaffWaits(p)
        \/ StaffReplies(p) \/ StaffSpeaks(p) \/ StaffReplied(p)
        \/ ClientApproves(p) \/ ClientSaysYes(p) \/ ClientSaves(p)
        \/ ClientCancels(p) \/ ClientCanceled(p)
        \/ ClientReplies(p) \/ ClientSpeaks(p) \/ ClientAnswered(p)
        \/ HandlerDies(p)
    \/ \E status \in TicketStatus : SetsStatus(status)

CustSpec == CustInit /\ [][CustNext]_custVars

-----------------------------------------------------------------------------
CustTypeOK ==
    /\ req \in RequestRow /\ hand \in [People -> HandRow]
    /\ ticket \in TicketStatus /\ offers \in 0 .. MaxOffers /\ turns \in 0 .. MaxTurns
    /\ told \subseteq 1 .. MaxOffers /\ inPlace \subseteq 1 .. MaxOffers
    /\ lastWord \in {"office", "staff", "by_hand"} /\ upset \in BOOLEAN
    /\ untold \subseteq 0 .. MaxOffers /\ final \in {"none", "delivered", "declined", "canceled"}

\* "Nothing that may be charged is carried out without the recorded approval" (src/support/customization.py:5):
\* whatever crosses, what is being done is the very offer that was approved.
DoneAsApproved == req.stage \in {"approved", "in_progress", "delivered"} => req.offer # 0 /\ req.approved = req.offer

\* The offer in the request was sent to the office in the ticket, or is about to be; except one written over another
\* (no note when the stage stays, src/support/customization.py:99), and one whose note was refused or lost.
OfferWasTold ==
    req.offer # 0 => \/ req.offer \in told \cup inPlace \cup untold
                         \/ \E p \in People : hand[p].pc = "note" /\ hand[p].row.offer = req.offer

\* Unless handlers crossed or died: what is delivered, refused or cancelled stays so; and while nobody is at work a
\* ticket that waits for the office has not the office's word last (an approval apart: it leaves the ticket as it
\* is), nor one that is open the staff's, so nobody waits for an answer already given.
EndIsTheEnd == final # "none" /\ ~upset => req.stage = final
NobodyWaitsInVain ==
    ~upset /\ (\A p \in People : hand[p].pc = "idle") =>
        /\ ticket = "waiting_client" => lastWord # "office" \/ req.approved # 0
        /\ ticket = "open" => lastWord # "staff"

RequestKept == DoneAsApproved /\ OfferWasTold /\ EndIsTheEnd /\ NobodyWaitsInVain
=============================================================================
