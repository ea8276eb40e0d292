------------------------------- MODULE Portfolio -------------------------------
(***************************************************************************)
(* The receivables of an office (src/carteira): one agreement with its     *)
(* instalments and the reimbursements of expenses, worked on by members of *)
(* the office and by the webhook of the charging service (Asaas), which    *)
(* repeats its events.  A handler loads a row, decides on what it loaded,  *)
(* and saves some columns of it; no row is locked.                         *)
(***************************************************************************)
EXTENDS Naturals, FiniteSets, Sequences

CONSTANTS
    NoItem,         \* the item of a desk at rest
    Desks,          \* requests of members and deliveries of the webhook
    Instalments,    \* receivables of the agreement
    Reimbursements, \* receivables of an expense each
    MaxCharges,     \* bound: charges made at Asaas
    MaxWork         \* bound: requests and deliveries served

ASSUME PfAssumption ==
    /\ Instalments \cap Reimbursements = {} /\ MaxCharges \in Nat /\ MaxWork \in Nat

Items == Instalments \cup Reimbursements

VARIABLES
    item,      \* Receivable: [status, asaas: its charge (0: none), note: of its NFS-e]
    agreement, \* FeeAgreement.status
    charges,   \* the service's charges, in the order they were made: [item, state]
    notes,     \* the fiscal notes asked for, per item, less those that ended in an error
    posted,    \* events the service has for the office; it may deliver each again and again
    received,  \* AsaasEvent rows
    desk,      \* what a request or a delivery is doing, with the rows as it loaded them
    work,      \* requests and deliveries so far
    raced,     \* history: items two handlers worked on at once
    decided,   \* history: items a person closed, reopened or paid with a charge standing
    lost       \* history: something ended between two of its steps, or events came out of order

pfVars == <<item, agreement, charges, notes, posted, received, desk, work, raced, decided, lost>>

Statuses == {"none", "open", "paid", "canceled", "gone"}
IdleDesk == [pc |-> "idle", item |-> NoItem, ag |-> "none", event |-> <<0, "none">>]

PfInit ==
    /\ item = [i \in Items |-> [status |-> "none", asaas |-> 0, note |-> "none"]]
    /\ agreement = "none" /\ charges = <<>> /\ notes = [i \in Items |-> 0]
    /\ posted = {} /\ received = {} /\ desk = [d \in Desks |-> IdleDesk] /\ work = 0
    /\ raced = {} /\ decided = {} /\ lost = FALSE

\* The items whose rows a handler of i reads or writes: closing looks at every instalment.
Touches(i) == IF i \in Instalments THEN Instalments ELSE {i}
Busy(d) == {j \in Items : \E e \in Desks \ {d} : desk[e].pc # "idle" /\ j \in Touches(desk[e].item)}
Race(d, i) == raced \cup (Touches(i) \cap Busy(d))

Exists(i) == item[i].status \notin {"none", "gone"}
Ends(d) == desk' = [desk EXCEPT ![d] = IdleDesk]

\* create_agreement: the agreement and its instalments in one transaction.
CreateAgreement ==
    /\ agreement = "none"
    /\ agreement' = "active"
    /\ item' = [i \in Items |-> IF i \in Instalments THEN [item[i] EXCEPT !.status = "open"] ELSE item[i]]
    /\ UNCHANGED <<charges, notes, posted, received, desk, work, raced, decided, lost>>

\* create_expense with a reimbursement: both rows in one transaction.
CreateExpense(i) ==
    /\ i \in Reimbursements /\ item[i].status = "none"
    /\ item' = [item EXCEPT ![i].status = "open"]
    /\ UNCHANGED <<agreement, charges, notes, posted, received, desk, work, raced, decided, lost>>

NotCharged(i) == item[i].asaas = 0

\* ReceivableActionView and ExpenseDetailView load the row, with its agreement, and refuse what
\* its status does not allow.
Allowed(i, action) ==
    CASE action = "pay" -> item[i].status # "canceled"
      [] action = "reopen" -> TRUE
      [] action = "cancel" -> item[i].status = "open"
      [] action = "charge" -> item[i].status = "open" /\ NotCharged(i)
      [] action = "note" -> item[i].status = "paid" /\ item[i].asaas # 0 /\ item[i].note \in {"none", "error"}
      [] action = "delete" -> i \in Reimbursements /\ item[i].status # "paid"

Ask(d, i, action) ==
    /\ desk[d].pc = "idle" /\ work < MaxWork
    /\ Exists(i) /\ Allowed(i, action)
    /\ desk' = [desk EXCEPT ![d] = [pc |-> action, item |-> i, ag |-> agreement, event |-> <<0, "none">>]]
    /\ work' = work + 1
    /\ raced' = Race(d, i)
    /\ decided' = IF action \in {"pay", "reopen", "cancel", "delete"} THEN decided \cup {i} ELSE decided
    /\ UNCHANGED <<item, agreement, charges, notes, posted, received, lost>>

\* A save with update_fields: an error when the row is gone, else the columns named.
Saves(d, i, row) == item' = [item EXCEPT ![i] = IF Exists(i) THEN row ELSE item[i]]

\* mark_paid
Pay(d) ==
    LET i == desk[d].item IN
    /\ desk[d].pc = "pay"
    /\ Saves(d, i, [item[i] EXCEPT !.status = "paid"])
    /\ desk' = [desk EXCEPT ![d] = IF Exists(i) /\ i \in Instalments
                                   THEN [desk[d] EXCEPT !.pc = "closing"] ELSE IdleDesk]
    /\ UNCHANGED <<agreement, charges, notes, posted, received, work, raced, decided, lost>>

\* _close_if_done looks at the agreement (a member's request loaded it with the row, the webhook
\* loads it here) and at the open instalments ...
CloseIfDone(d) ==
    /\ desk[d].pc = "closing"
    /\ LET ag == IF desk[d].event[2] = "none" THEN desk[d].ag ELSE agreement
           done == ag = "active" /\ ~\E j \in Instalments : item[j].status = "open"
       IN desk' = [desk EXCEPT ![d] = IF done THEN [desk[d] EXCEPT !.pc = "close"] ELSE IdleDesk]
    /\ UNCHANGED <<item, agreement, charges, notes, posted, received, work, raced, decided, lost>>

\* ... and saves.
Close(d) ==
    /\ desk[d].pc = "close"
    /\ agreement' = "done"
    /\ Ends(d)
    /\ UNCHANGED <<item, charges, notes, posted, received, work, raced, decided, lost>>

\* reopen
Reopen(d) ==
    LET i == desk[d].item IN
    /\ desk[d].pc = "reopen"
    /\ Saves(d, i, [item[i] EXCEPT !.status = "open"])
    /\ desk' = [desk EXCEPT ![d] = IF Exists(i) /\ i \in Instalments
                                   THEN [desk[d] EXCEPT !.pc = "reactivate"] ELSE IdleDesk]
    /\ UNCHANGED <<agreement, charges, notes, posted, received, work, raced, decided, lost>>

\* Mutant: the agreement stays done.
ReactivateNot(d) ==
    /\ desk[d].pc = "reactivate"
    /\ Ends(d)
    /\ UNCHANGED <<item, agreement, charges, notes, posted, received, work, raced, decided, lost>>

Reactivate(d) ==
    /\ desk[d].pc = "reactivate"
    /\ agreement' = IF (IF desk[d].event[2] = "none" THEN desk[d].ag ELSE agreement) = "done"
                    THEN "active" ELSE agreement
    /\ Ends(d)
    /\ UNCHANGED <<item, charges, notes, posted, received, work, raced, decided, lost>>

CancelItem(d) ==
    LET i == desk[d].item IN
    /\ desk[d].pc = "cancel"
    /\ Saves(d, i, [item[i] EXCEPT !.status = "canceled"])
    /\ Ends(d)
    /\ UNCHANGED <<agreement, charges, notes, posted, received, work, raced, decided, lost>>

\* cancel_agreement: one transaction, two updates; whoever has loaded an instalment works on.
CancelAgreement ==
    /\ agreement # "none" /\ work < MaxWork
    /\ agreement' = "canceled"
    /\ item' = [i \in Items |-> IF i \in Instalments /\ item[i].status = "open"
                                THEN [item[i] EXCEPT !.status = "canceled"] ELSE item[i]]
    /\ work' = work + 1
    /\ raced' = raced \cup (Instalments \cap UNION {Touches(desk[d].item) : d \in {e \in Desks : desk[e].pc # "idle"}})
    /\ decided' = decided \cup {i \in Instalments : item[i].status = "open"}
    /\ UNCHANGED <<charges, notes, posted, received, desk, lost>>

\* charge: the charge is made at the service, or the call fails ...
MakeCharge(d) ==
    /\ desk[d].pc = "charge"
    /\ \/ /\ Len(charges) < MaxCharges
          /\ charges' = Append(charges, [item |-> desk[d].item, state |-> "pending"])
          /\ desk' = [desk EXCEPT ![d].pc = "charged", ![d].event = <<Len(charges) + 1, "none">>]
       \/ Ends(d) /\ UNCHANGED charges
    /\ UNCHANGED <<item, agreement, notes, posted, received, work, raced, decided, lost>>

\* ... and then its id is saved in the row.
SaveCharge(d) ==
    LET i == desk[d].item IN
    /\ desk[d].pc = "charged"
    /\ Saves(d, i, [item[i] EXCEPT !.asaas = desk[d].event[1]])
    /\ Ends(d)
    /\ UNCHANGED <<agreement, charges, notes, posted, received, work, raced, decided, lost>>

\* issue_nfse: the note is asked for, or the call fails; then it is saved.
AskNote(d) ==
    /\ desk[d].pc = "note"
    /\ \/ notes' = [notes EXCEPT ![desk[d].item] = notes[desk[d].item] + 1]
          /\ desk' = [desk EXCEPT ![d].pc = "noted"]
       \/ Ends(d) /\ UNCHANGED notes
    /\ UNCHANGED <<item, agreement, charges, posted, received, work, raced, decided, lost>>

SaveNote(d) ==
    LET i == desk[d].item IN
    /\ desk[d].pc = "noted"
    /\ Saves(d, i, [item[i] EXCEPT !.note = "asked"])
    /\ Ends(d)
    /\ UNCHANGED <<agreement, charges, notes, posted, received, work, raced, decided, lost>>

\* ExpenseDetailView.delete removes the reimbursement of the expense it loaded.
Delete(d) ==
    /\ desk[d].pc = "delete"
    /\ item' = [item EXCEPT ![desk[d].item].status = "gone"]
    /\ Ends(d)
    /\ UNCHANGED <<agreement, charges, notes, posted, received, work, raced, decided, lost>>

\* The service: the client pays, the payment is given back, the charge or the note changes; each
\* change is an event with an id of its own.
Changes == {<<"pending", "paid">>, <<"paid", "refunded">>, <<"pending", "deleted">>}

ServiceChanges ==
    /\ \E c \in DOMAIN charges, change \in Changes :
        /\ charges[c].state = change[1]
        /\ charges' = [charges EXCEPT ![c].state = change[2]]
        /\ posted' = posted \cup {<<c, change[2]>>}
    /\ UNCHANGED <<item, agreement, notes, received, desk, work, raced, decided, lost>>

NoteFails(i) ==
    /\ item[i].note = "asked" /\ notes[i] > 0
    /\ notes' = [notes EXCEPT ![i] = notes[i] - 1]
    /\ item' = [item EXCEPT ![i].note = "error"]
    /\ UNCHANGED <<agreement, charges, posted, received, desk, work, raced, decided, lost>>

\* handle_asaas_event: the event is recorded first, in a transaction of its own; one that is there
\* already changes nothing.
TakeEvent(d, e) ==
    /\ desk[d].pc = "idle" /\ work < MaxWork
    /\ e \in posted /\ e \notin received
    /\ received' = received \cup {e}
    /\ desk' = [desk EXCEPT ![d] = [IdleDesk EXCEPT !.pc = "event", !.item = charges[e[1]].item, !.event = e]]
    /\ work' = work + 1
    /\ raced' = Race(d, charges[e[1]].item)
    /\ lost' = (lost \/ (e[2] = "paid" /\ <<e[1], "refunded">> \in received))
    /\ UNCHANGED <<item, agreement, charges, notes, posted, decided>>

\* The receivable of the charge, if one carries its id, and what the event does to it; mark_paid
\* refuses a receivable that is canceled, and the event stays recorded.
Response(row, kind) ==
    CASE kind = "paid" /\ row.status = "open" -> "pay"
      [] kind = "refunded" /\ row.status = "paid" -> "reopen"
      [] kind = "deleted" /\ row.status = "open" -> "cancel"
      [] OTHER -> "idle"

Settle(d) ==
    LET e == desk[d].event
        i == desk[d].item
        act == IF Exists(i) /\ item[i].asaas = e[1] THEN Response(item[i], e[2]) ELSE "idle"
    IN /\ desk[d].pc = "event"
       /\ desk' = [desk EXCEPT ![d] = IF act = "idle" THEN IdleDesk
                                      ELSE [desk[d] EXCEPT !.pc = act]]
       /\ UNCHANGED <<item, agreement, charges, notes, posted, received, work, raced, decided, lost>>

\* A process ends between two of its steps.
Dies(d) ==
    /\ desk[d].pc # "idle"
    /\ Ends(d)
    /\ lost' = TRUE
    /\ UNCHANGED <<item, agreement, charges, notes, posted, received, work, raced, decided>>

PfNext ==
    \/ CreateAgreement \/ CancelAgreement \/ ServiceChanges
    \/ \E i \in Items : CreateExpense(i) \/ NoteFails(i)
    \/ \E d \in Desks, i \in Items, a \in {"pay", "reopen", "cancel", "charge", "note", "delete"} : Ask(d, i, a)
    \/ \E d \in Desks, e \in posted : TakeEvent(d, e)
    \/ \E d \in Desks : Pay(d) \/ CloseIfDone(d) \/ Close(d) \/ Reopen(d) \/ Reactivate(d) \/ CancelItem(d)
                        \/ MakeCharge(d) \/ SaveCharge(d) \/ AskNote(d) \/ SaveNote(d) \/ Delete(d)
                        \/ Settle(d) \/ Dies(d)

PfSpec == PfInit /\ [][PfNext]_pfVars

-----------------------------------------------------------------------------
PfTypeOK ==
    /\ item \in [Items -> [status : Statuses, asaas : Nat, note : {"none", "asked", "error"}]]
    /\ agreement \in {"none", "active", "done", "canceled"}
    /\ charges \in Seq([item : Items, state : {"pending", "paid", "refunded", "deleted"}])
    /\ notes \in [Items -> Nat] /\ received \subseteq posted /\ raced \subseteq Items /\ decided \subseteq Items

\* An agreement that has ended has no instalment left to pay, however payments, refunds and
\* reopenings follow one another, unless two handlers of its instalments overlapped or one of them
\* died half way; a reopening takes the agreement with it in its next step
\* (src/carteira/services.py:209).
DoneIsDone ==
    agreement = "done" /\ raced \cap Instalments = {} /\ ~lost =>
        \/ \A i \in Instalments : item[i].status # "open"
        \/ \E d \in Desks : desk[d].pc = "reactivate"

\* A receivable is charged once and has one fiscal note at a time, and the charge that stands is the
\* one the row names, so that its payment finds the row again; unless two handlers of the receivable
\* overlapped or one died half way (src/carteira/services.py:282, 306).
AskedOnce ==
    ~lost => \A i \in Items \ raced :
        /\ notes[i] <= 1
        /\ \A c \in DOMAIN charges : charges[c].item = i =>
              item[i].asaas = c \/ \E d \in Desks : desk[d].pc = "charged" /\ desk[d].event[1] = c

\* When every event of the service has been handled, a receivable nobody decided by hand is paid
\* exactly when its charge is, unless handlers of it overlapped, one died between recording the
\* event and acting on it, or a refund came before its payment (src/carteira/services.py:371).
BooksFollowCharges ==
    posted \subseteq received /\ (\A d \in Desks : desk[d].pc = "idle") /\ ~lost =>
        \A c \in DOMAIN charges :
            charges[c].item \notin raced \cup decided =>
                (item[charges[c].item].status = "paid" <=> charges[c].state = "paid")

\* The books of the office follow its money, and nobody is asked twice: BooksFollowCharges, DoneIsDone
\* and AskedOnce.
BooksHold == BooksFollowCharges /\ DoneIsDone /\ AskedOnce
=============================================================================
