------------------------------ MODULE FiscalNotes ------------------------------
(***************************************************************************)
(* The fiscal note (NFS-e) of one payment of an office                     *)
(* (src/backoffice/nfse.py): people of the fiscal sector emit, refresh and *)
(* cancel it, a command refreshes the notes in process every 15 minutes,   *)
(* and an emitter outside, who knows notes by the reference they were sent *)
(* with, authorizes them.  Every operation loads the Payment, asks the     *)
(* emitter, and saves the fields it changed; nothing locks the row.        *)
(***************************************************************************)
EXTENDS Naturals, FiniteSets

CONSTANTS
    Clerks,   \* requests of the fiscal sector, and the command that syncs
    MaxRefs,  \* bound: references sent to the emitter
    MaxCalls, \* bound: operations
    MaxLost   \* bound: answers lost and deaths

ASSUME FiscalAssumption == MaxRefs \in Nat \ {0} /\ MaxCalls \in Nat /\ MaxLost \in Nat

VARIABLES
    payment,  \* the Payment: [status: invoice_status, ref: nfse_ref (0: none)]
    emitter,  \* the state of the note the emitter has with each reference
    refs,     \* references made so far; 1 is 'cadrius-<pk>', the others end in a timestamp
    clerk,    \* an operation: [pc, copy: the row it loaded, ref: the one it sends, answer]
    calls,
    mailed,   \* times the client was sent the note of each reference
    losses,   \* history: answers lost and operations that died after asking
    crossed,  \* history: how operations overlapped: two refreshes, or others
    byHand    \* history: a status was registered by hand while the emitter had a living note

fiscalVars == <<payment, emitter, refs, clerk, calls, mailed, losses, crossed, byHand>>

InvoiceStatus == {"pending", "processing", "issued", "error", "canceled", "not_required"}
NoteStates == {"none", "processing", "authorized", "rejected", "canceled"}
NoRow == [status |-> "pending", ref |-> 0]
NoCall == [pc |-> "idle", copy |-> NoRow, ref |-> 0, answer |-> "none"]

FiscalInit ==
    /\ payment = NoRow /\ emitter = [r \in 1 .. MaxRefs |-> "none"] /\ refs = 1
    /\ clerk = [c \in Clerks |-> NoCall] /\ calls = 0 /\ mailed = [r \in 1 .. MaxRefs |-> 0]
    /\ losses = 0 /\ crossed = {} /\ byHand = FALSE

Living == {r \in 1 .. MaxRefs : emitter[r] \in {"processing", "authorized"}}

LookingUp == {"get", "got"}

Begin(c, call) ==
    /\ clerk[c].pc = "idle" /\ calls < MaxCalls
    /\ clerk' = [clerk EXCEPT ![c] = call]
    /\ calls' = calls + 1
    /\ crossed' = crossed \cup {IF clerk[d].pc \in LookingUp /\ call.pc \in LookingUp THEN "refreshes" ELSE "others" :
                                d \in {e \in Clerks \ {c} : clerk[e].pc # "idle"}}

Finish(c) == clerk' = [clerk EXCEPT ![c] = NoCall]

\* emit: a note that is out, or on its way, is not sent again; mutant: one on its way is.
EmittableOnItsWay(status) == status # "issued"
Emittable(status) == status \notin {"issued", "processing"}

\* After an error or a cancellation the note goes out under a new reference, else under the payment's.
AskEmit(c) ==
    /\ Emittable(payment.status)
    /\ LET again == payment.status \in {"error", "canceled"}
           ref == IF again THEN refs + 1 ELSE IF payment.ref = 0 THEN 1 ELSE payment.ref
       IN /\ ref <= MaxRefs
          /\ refs' = IF again THEN ref ELSE refs
          /\ Begin(c, [pc |-> "post", copy |-> payment, ref |-> ref, answer |-> "none"])
    /\ UNCHANGED <<payment, emitter, mailed, losses, byHand>>

\* The emitter takes a note with a reference it does not know, and may refuse it; of one it knows it
\* makes no second note, and answers 422 or with the note it has.
Post(c) ==
    LET ref == clerk[c].ref
        known == emitter[ref] # "none"
    IN \E note \in {"none", "processing", "rejected"}, answer \in {"accepted", "unprocessable", "refused", "lost"} :
        /\ clerk[c].pc = "post"
        /\ known => note = emitter[ref] \/ note = "none"
        /\ answer = "accepted" => known \/ note = "processing"
        /\ answer = "refused" => note = "none"
        /\ answer = "unprocessable" => note # "processing"
        /\ answer = "lost" => losses < MaxLost
        /\ emitter' = [emitter EXCEPT ![ref] = IF known THEN emitter[ref] ELSE note]
        /\ losses' = IF answer = "lost" THEN losses + 1 ELSE losses
        /\ IF answer \in {"refused", "lost"} THEN Finish(c)
           ELSE clerk' = [clerk EXCEPT ![c].pc = "posted", ![c].answer = answer]
        /\ UNCHANGED <<payment, refs, calls, mailed, crossed, byHand>>

\* The reference and the status are saved; a note in process is looked up at once.
SaveEmission(c) ==
    LET status == IF clerk[c].answer = "accepted" THEN "processing" ELSE "error"
        row == [status |-> status, ref |-> clerk[c].ref]
    IN /\ clerk[c].pc = "posted"
       /\ payment' = row
       /\ IF status = "processing" THEN clerk' = [clerk EXCEPT ![c].pc = "get", ![c].copy = row] ELSE Finish(c)
       /\ UNCHANGED <<emitter, refs, calls, mailed, losses, crossed, byHand>>

\* refresh, by a person or for each payment of sync_processing.
AskRefresh(c) ==
    /\ payment.ref # 0 /\ payment.status \in {"processing", "issued"}
    /\ Begin(c, [pc |-> "get", copy |-> payment, ref |-> payment.ref, answer |-> "none"])
    /\ UNCHANGED <<payment, emitter, refs, mailed, losses, byHand>>

Get(c) ==
    LET answer == emitter[clerk[c].copy.ref] IN
    /\ clerk[c].pc = "get"
    /\ IF answer \in {"authorized", "rejected", "canceled"}
       THEN clerk' = [clerk EXCEPT ![c].pc = "got", ![c].answer = answer]
       ELSE Finish(c)
    /\ UNCHANGED <<payment, emitter, refs, calls, mailed, losses, crossed, byHand>>

\* The answer of the emitter becomes the status.
StatusOf(answer) == IF answer = "authorized" THEN "issued" ELSE IF answer = "rejected" THEN "error" ELSE "canceled"

\* The client is sent the note the first time the row becomes issued.
SaveRefresh(c) ==
    LET status == StatusOf(clerk[c].answer) IN
    /\ clerk[c].pc = "got"
    /\ payment' = [payment EXCEPT !.status = status]
    /\ mailed' = IF status = "issued" /\ clerk[c].copy.status # "issued"
                 THEN [mailed EXCEPT ![clerk[c].copy.ref] = mailed[clerk[c].copy.ref] + 1] ELSE mailed
    /\ Finish(c)
    /\ UNCHANGED <<emitter, refs, calls, losses, crossed, byHand>>

\* cancel: only a note that is out; one registered by hand has no reference and needs no emitter.
AskCancel(c) ==
    /\ payment.status = "issued"
    /\ Begin(c, [pc |-> IF payment.ref = 0 THEN "canceled" ELSE "delete", copy |-> payment, ref |-> payment.ref,
                 answer |-> "none"])
    /\ UNCHANGED <<payment, emitter, refs, mailed, losses, byHand>>

\* The emitter cancels the note, or refuses; only a note it has canceled lets the operation go on.
CancelAtEmitter(c) ==
    LET ref == clerk[c].copy.ref IN
    \E cancels, answered \in BOOLEAN :
        /\ clerk[c].pc = "delete"
        /\ cancels => emitter[ref] \in {"authorized", "canceled"}
        /\ ~answered => losses < MaxLost
        /\ emitter' = IF cancels THEN [emitter EXCEPT ![ref] = "canceled"] ELSE emitter
        /\ losses' = IF answered THEN losses ELSE losses + 1
        /\ IF cancels /\ answered THEN clerk' = [clerk EXCEPT ![c].pc = "canceled"] ELSE Finish(c)
        /\ UNCHANGED <<payment, refs, calls, mailed, crossed, byHand>>

SaveCancellation(c) ==
    /\ clerk[c].pc = "canceled"
    /\ payment' = [payment EXCEPT !.status = "canceled"]
    /\ Finish(c)
    /\ UNCHANGED <<emitter, refs, calls, mailed, losses, crossed, byHand>>

\* register_invoice: a person registers what was done outside; the reference stays.
RegisterByHand ==
    \E status \in {"issued", "not_required", "pending"} :
        /\ calls < MaxCalls /\ calls' = calls + 1
        /\ payment' = [payment EXCEPT !.status = status]
        /\ byHand' = (byHand \/ Living # {} \/ \E c \in Clerks : clerk[c].pc # "idle")
        /\ UNCHANGED <<emitter, refs, clerk, mailed, losses, crossed>>

EmitterDecides ==
    \E r \in 1 .. MaxRefs, note \in {"authorized", "rejected"} :
        /\ emitter[r] = "processing"
        /\ emitter' = [emitter EXCEPT ![r] = note]
        /\ UNCHANGED <<payment, refs, clerk, calls, mailed, losses, crossed, byHand>>

\* A request dies, or the database fails it, between two of its steps.
ClerkDies(c) ==
    /\ clerk[c].pc # "idle" /\ losses < MaxLost
    /\ losses' = losses + 1
    /\ Finish(c)
    /\ UNCHANGED <<payment, emitter, refs, calls, mailed, crossed, byHand>>

FiscalNext ==
    \/ \E c \in Clerks :
        \/ AskEmit(c) \/ Post(c) \/ SaveEmission(c) \/ AskRefresh(c) \/ Get(c) \/ SaveRefresh(c)
        \/ AskCancel(c) \/ CancelAtEmitter(c) \/ SaveCancellation(c) \/ ClerkDies(c)
    \/ RegisterByHand \/ EmitterDecides

FiscalSpec == FiscalInit /\ [][FiscalNext]_fiscalVars

-----------------------------------------------------------------------------
FiscalTypeOK ==
    /\ payment \in [status : InvoiceStatus, ref : 0 .. MaxRefs] /\ emitter \in [1 .. MaxRefs -> NoteStates]
    /\ refs \in 1 .. MaxRefs /\ losses \in 0 .. MaxLost /\ calls \in 0 .. MaxCalls /\ crossed \subseteq {"refreshes", "others"}
    /\ \A c \in Clerks : clerk[c].pc \in {"idle", "post", "posted", "get", "got", "delete", "canceled"}

\* A payment has one living note at most, the one its row has in process or issued, and the client is
\* sent it once (src/backoffice/nfse.py:4: a unique reference makes the emission idempotent); unless an
\* answer of the emitter was lost, operations overlapped that were not two refreshes, or somebody
\* registered by hand over a note the emitter had.  A row whose note is authorized does not say canceled
\* whatever is lost, and the client is sent a note twice only by two refreshes at once.
NotesKept ==
    LET calm == "others" \notin crossed /\ ~byHand
        resting == \A c \in Clerks : clerk[c].pc = "idle"
    IN /\ calm /\ losses = 0 => Cardinality(Living) <= 1
       /\ calm /\ losses = 0 /\ resting /\ Living # {} =>
            payment.status \in {"processing", "issued"} /\ payment.ref \in Living
       /\ calm /\ payment.ref # 0 /\ payment.status = "canceled" => emitter[payment.ref] # "authorized"
       /\ calm /\ losses = 0 /\ Living # {} /\ payment.status = "issued" => emitter[payment.ref] = "authorized"
       /\ calm /\ crossed = {} => \A r \in 1 .. MaxRefs : mailed[r] <= 1
=============================================================================
