---------------------------- MODULE Subscriptions ----------------------------
(***************************************************************************)
(* The subscription of one office: src/billing/stripe_sync.py.             *)
(*                                                                         *)
(* Stripe tells the webhook what it collected, at least once and in no     *)
(* particular order; every web worker may handle an event at any time, and *)
(* an answer other than 200 makes Stripe send it again.  A handler loads   *)
(* the row of the office, and later saves the whole row or a few columns   *)
(* of it; nothing is locked.                                               *)
(*                                                                         *)
(* The plan of the office and the id of its subscription are written by    *)
(* the same save, so one field stands for both.                            *)
(***************************************************************************)
EXTENDS Integers, Sequences, FiniteSets

CONSTANTS
    Plans,         \* subscriptions of a plan
    Addons,        \* subscriptions of the media add-on
    Packs,         \* checkout sessions of a pack of credits
    None,          \* no subscription, no job
    Workers,       \* web workers
    MaxEvents,     \* bound: events Stripe creates
    MaxResends,    \* bound: deliveries of an event Stripe delivered before
    MaxCrashes,    \* bound: handlers that raise or die
    MaxDay         \* bound: days the model runs through

ASSUME KindsAssumption ==
    /\ Plans \cap Addons = {} /\ Plans \cap Packs = {} /\ Addons \cap Packs = {}
    /\ None \notin Plans \cup Addons \cup Packs
ASSUME BoundsAssumption ==
    /\ MaxEvents \in Nat /\ MaxResends \in Nat /\ MaxCrashes \in Nat /\ MaxDay \in Nat \ {0}

Subs == Plans \cup Addons

VARIABLES
    atStripe,    \* state of each subscription at Stripe
    events,      \* what Stripe has to tell, in the order it happened
    delivered,   \* events that reached a worker
    resends,     \* deliveries of an event that reached one before
    acked,       \* events answered with 200
    today,
    org,         \* subscription_status, stripe_subscription_id and plan, past_due_since
    addon,       \* MediaAddon: active, stripe_subscription_id
    lots,        \* CreditLot rows of each session
    book,        \* Payment.stripe_id: sessions, and invoices by the number of their event
    pc, job,     \* workers: the event each one handles
    copy,        \* the row of the office as each one loaded it
    crashes,
    latest,      \* history: the latest event handled so far
    disordered   \* history: an event was handled after a later one, before an earlier one
                 \* had its 200, or while another was in hand

stripe == <<atStripe, events>>
deliveries == <<delivered, resends>>
rows == <<org, addon, lots, book>>
history == <<latest, disordered>>
vars == <<stripe, deliveries, acked, today, rows, pc, job, copy, crashes, history>>

StripeStates == {"nenhuma", "pendente", "active", "past_due", "canceled"}
Types == {"pacote", "checkout", "pago", "falhou", "cancelada"}
PcValues == {"idle", "handle", "book", "save"}
Events == [type : Types, ref : Subs \cup Packs, paid : BOOLEAN]
Rows == [status : {"trialing", "active", "past_due", "canceled"},
         sub : Plans \cup {None}, since : 0..MaxDay]
NewRow == [status |-> "trialing", sub |-> None, since |-> 0]
Event(t, ref, paid) == [type |-> t, ref |-> ref, paid |-> paid]

Init ==
    /\ atStripe = [s \in Subs |-> "nenhuma"]
    /\ events = <<>>
    /\ delivered = {} /\ resends = 0
    /\ acked = {}
    /\ today = 1
    /\ org = NewRow
    /\ addon = [active |-> FALSE, sub |-> None]
    /\ lots = [k \in Packs |-> 0]
    /\ book = {}
    /\ pc = [w \in Workers |-> "idle"]
    /\ job = [w \in Workers |-> 0]
    /\ copy = [w \in Workers |-> NewRow]
    /\ crashes = 0
    /\ latest = 0 /\ disordered = FALSE

(***************************************************************************)
(* Stripe (outside the program): what is paid, fails and is cancelled.     *)
(***************************************************************************)
Tell(news) ==
    /\ Len(events) + Len(news) <= MaxEvents
    /\ events' = events \o news
    /\ UNCHANGED <<deliveries, acked, today, rows, pc, job, copy, crashes, history>>

Told(t, ref, paid) == \E i \in 1..Len(events) : events[i] = Event(t, ref, paid)

\* A pack is paid at once, or by a bank slip that is settled later or never.
BuyPack(k) ==
    /\ ~Told("pacote", k, TRUE)
    /\ \/ Tell(<<Event("pacote", k, TRUE)>>)
       \/ ~Told("pacote", k, FALSE) /\ Tell(<<Event("pacote", k, FALSE)>>)
    /\ UNCHANGED atStripe

\* A subscription paid at once is told by its session and by its first
\* invoice, in either order; a bank slip only by an unpaid session.
Subscribe(s) ==
    LET session == Event("checkout", s, TRUE)
        invoice == Event("pago", s, TRUE)
    IN  \/ /\ atStripe[s] \in {"nenhuma", "pendente"}
           /\ Tell(<<session, invoice>>) \/ Tell(<<invoice, session>>)
           /\ atStripe' = [atStripe EXCEPT ![s] = "active"]
        \/ /\ atStripe[s] = "nenhuma"
           /\ Tell(<<Event("checkout", s, FALSE)>>)
           /\ atStripe' = [atStripe EXCEPT ![s] = "pendente"]

Bill(s) ==
    /\ atStripe[s] \in {"active", "past_due"}
    /\ \/ Tell(<<Event("pago", s, TRUE)>>) /\ atStripe' = [atStripe EXCEPT ![s] = "active"]
       \/ Tell(<<Event("falhou", s, FALSE)>>) /\ atStripe' = [atStripe EXCEPT ![s] = "past_due"]
       \/ Tell(<<Event("cancelada", s, FALSE)>>) /\ atStripe' = [atStripe EXCEPT ![s] = "canceled"]

(***************************************************************************)
(* The webhook: apply_event and its handlers.                              *)
(***************************************************************************)
Goto(w, p) == pc' = [pc EXCEPT ![w] = p]

\* The handler is over, and what it had loaded is forgotten.
End(w) ==
    /\ Goto(w, "idle")
    /\ job' = [job EXCEPT ![w] = 0]
    /\ copy' = [copy EXCEPT ![w] = NewRow]

\* The webhook answers 200, or its process dies before it does; what was
\* written stays.
Respond(w) ==
    /\ End(w)
    /\ \/ acked' = acked \cup {job[w]} /\ UNCHANGED crashes
       \/ crashes < MaxCrashes /\ crashes' = crashes + 1 /\ UNCHANGED acked

\* An event reaches a worker, again if need be, and the office is loaded.
Receive(w, i) ==
    /\ pc[w] = "idle"
    /\ \/ i \notin delivered /\ UNCHANGED resends
       \/ i \in delivered /\ resends < MaxResends /\ resends' = resends + 1
    /\ delivered' = delivered \cup {i}
    /\ job' = [job EXCEPT ![w] = i]
    /\ copy' = [copy EXCEPT ![w] = org]
    /\ disordered' = (\/ disordered
                      \/ i < latest \/ ~(1..i - 1 \subseteq acked)
                      \/ \E v \in Workers : pc[v] # "idle")
    /\ latest' = IF i < latest THEN latest ELSE i
    /\ Goto(w, "handle")
    /\ UNCHANGED <<stripe, acked, today, rows, crashes>>

Handles(w, t) == pc[w] = "handle" /\ events[job[w]].type = t
Ref(w) == events[job[w]].ref
OnlyRows == UNCHANGED <<stripe, deliveries, today, history>>
MidHandler == UNCHANGED <<acked, job, copy, crashes>>

\* payment_status != 'paid'
PaidAlways(w) == TRUE  \* mutant: the completed session of a bank slip is taken for a payment
Paid(w) == events[job[w]].paid

NotPaid(w) ==
    /\ Handles(w, "pacote") \/ Handles(w, "checkout")
    /\ ~Paid(w)
    /\ Respond(w)
    /\ UNCHANGED rows /\ OnlyRows

\* stripe_session_id is unique: the second get_or_create finds the lot.
\* Only the request that created it books the payment.
Creates(w) == lots[Ref(w)] = 0

AddPack(w) ==
    /\ Handles(w, "pacote") /\ Paid(w)
    /\ lots' = [lots EXCEPT ![Ref(w)] = IF Creates(w) THEN @ + 1 ELSE @]
    /\ IF Creates(w) THEN Goto(w, "book") /\ MidHandler ELSE Respond(w)
    /\ UNCHANGED <<org, addon, book>> /\ OnlyRows

BookPack(w) ==
    /\ pc[w] = "book"
    /\ book' = book \cup {Ref(w)}
    /\ Respond(w)
    /\ UNCHANGED <<org, addon, lots>> /\ OnlyRows

\* addons.activate
ActivateAddon(w) ==
    /\ Handles(w, "checkout") /\ Paid(w) /\ Ref(w) \in Addons
    /\ addon' = [active |-> TRUE, sub |-> Ref(w)]
    /\ Respond(w)
    /\ UNCHANGED <<org, lots, book>> /\ OnlyRows

\* kind, as the checkout wrote it in the session's metadata
IsPlanOrAddon(w) == Ref(w) \in Subs  \* mutant: the add-on is taken for a plan
IsPlan(w) == Ref(w) \in Plans

\* The whole row is saved, but every column this module keeps is set first.
ActivatePlan(w) ==
    /\ Handles(w, "checkout") /\ Paid(w) /\ IsPlan(w)
    /\ org' = [status |-> "active", sub |-> Ref(w), since |-> 0]
    /\ Respond(w)
    /\ UNCHANGED <<addon, lots, book>> /\ OnlyRows

\* _record_payment
Booked(w) == book \cup {job[w]}

\* _payment_succeeded: the invoice of the plan is booked, then the whole row
\* is saved as it was loaded, active again.
BookInvoice(w) ==
    /\ Handles(w, "pago") /\ copy[w].sub = Ref(w)
    /\ book' = Booked(w)
    /\ Goto(w, "save")
    /\ UNCHANGED <<org, addon, lots>> /\ OnlyRows /\ MidHandler

RenewedStill(w) == [copy[w] EXCEPT !.since = 0]  \* mutant: the status is left as it was
Renewed(w) == [copy[w] EXCEPT !.status = "active", !.since = 0]

SaveRenewal(w) ==
    /\ pc[w] = "save"
    /\ org' = Renewed(w)
    /\ Respond(w)
    /\ UNCHANGED <<addon, lots, book>> /\ OnlyRows

RenewAddon(w) ==
    /\ Handles(w, "pago") /\ copy[w].sub # Ref(w) /\ addon.sub = Ref(w)
    /\ book' = Booked(w)
    /\ addon' = [addon EXCEPT !.active = TRUE]
    /\ Respond(w)
    /\ UNCHANGED <<org, lots>> /\ OnlyRows

\* _payment_failed opens the grace, unless it is open already.
OpensGraceAgain(w) == copy[w].sub = Ref(w)  \* mutant: every failure opens it
OpensGrace(w) == copy[w].sub = Ref(w) /\ copy[w].status # "past_due"

PaymentFailed(w) ==
    /\ Handles(w, "falhou") /\ OpensGrace(w)
    /\ org' = [org EXCEPT !.status = "past_due", !.since = today]
    /\ Respond(w)
    /\ UNCHANGED <<addon, lots, book>> /\ OnlyRows

\* _subscription_deleted looks for the add-on first.
CancelAddon(w) ==
    /\ Handles(w, "cancelada") /\ addon.sub = Ref(w)
    /\ addon' = [addon EXCEPT !.active = FALSE]
    /\ Respond(w)
    /\ UNCHANGED <<org, lots, book>> /\ OnlyRows

CancelPlan(w) ==
    /\ Handles(w, "cancelada") /\ addon.sub # Ref(w) /\ copy[w].sub = Ref(w)
    /\ org' = [org EXCEPT !.status = "canceled"]
    /\ Respond(w)
    /\ UNCHANGED <<addon, lots, book>> /\ OnlyRows

\* 'ignored:unknown_subscription', or a grace that is open already: 200, and
\* Stripe does not send the event again.
Ignored(w) ==
    \/ Handles(w, "pago") /\ copy[w].sub # Ref(w) /\ addon.sub # Ref(w)
    \/ Handles(w, "falhou") /\ ~OpensGrace(w)
    \/ Handles(w, "cancelada") /\ addon.sub # Ref(w) /\ copy[w].sub # Ref(w)

Ignore(w) ==
    /\ Ignored(w)
    /\ Respond(w)
    /\ UNCHANGED rows /\ OnlyRows

\* A handler raises (500) or its process dies: what it wrote is committed.
Crash(w) ==
    /\ pc[w] # "idle" /\ crashes < MaxCrashes
    /\ crashes' = crashes + 1
    /\ End(w)
    /\ UNCHANGED <<stripe, deliveries, acked, today, rows, history>>

DayPasses ==
    /\ today < MaxDay
    /\ today' = today + 1
    /\ UNCHANGED <<stripe, deliveries, acked, rows, pc, job, copy, crashes, history>>

Handle(w) ==
    \/ \E i \in 1..Len(events) : Receive(w, i)
    \/ NotPaid(w) \/ AddPack(w) \/ BookPack(w)
    \/ ActivateAddon(w) \/ ActivatePlan(w)
    \/ BookInvoice(w) \/ SaveRenewal(w) \/ RenewAddon(w)
    \/ PaymentFailed(w) \/ CancelAddon(w) \/ CancelPlan(w)
    \/ Ignore(w) \/ Crash(w)

Next ==
    \/ \E w \in Workers : Handle(w)
    \/ \E k \in Packs : BuyPack(k)
    \/ \E s \in Subs : Subscribe(s) \/ Bill(s)
    \/ DayPasses

Spec == Init /\ [][Next]_vars

-----------------------------------------------------------------------------
TypeOK ==
    /\ atStripe \in [Subs -> StripeStates]
    /\ events \in Seq(Events) /\ Len(events) <= MaxEvents
    /\ delivered \subseteq 1..Len(events) /\ resends \in 0..MaxResends
    /\ acked \subseteq 1..Len(events)
    /\ today \in 1..MaxDay
    /\ org \in Rows
    /\ addon \in [active : BOOLEAN, sub : Addons \cup {None}]
    /\ lots \in [Packs -> Nat]
    /\ book \subseteq Packs \cup 1..Len(events)
    /\ pc \in [Workers -> PcValues]
    /\ job \in [Workers -> 0..Len(events)]
    /\ copy \in [Workers -> Rows]
    /\ crashes \in 0..MaxCrashes
    /\ latest \in 0..Len(events) /\ disordered \in BOOLEAN

\* Nothing is given for money that has not come in, or twice for money that
\* came in once: however often an event is delivered, a session gives one lot
\* of credits, and a plan or an add-on is on only if its session was paid.
OnlyWhatWasPaid ==
    /\ \A k \in Packs : lots[k] <= 1 /\ (lots[k] = 1 => Told("pacote", k, TRUE))
    /\ org.sub # None => Told("checkout", org.sub, TRUE)
    /\ org.status \in {"active", "past_due"} => org.sub # None
    /\ addon.active => Told("checkout", addon.sub, TRUE)

Quiet == acked = 1..Len(events) /\ \A w \in Workers : pc[w] = "idle"
LastPlan == {s \in Plans : \E i \in 1..Len(events) :
                /\ events[i] = Event("checkout", s, TRUE)
                /\ \A j \in i + 1..Len(events) : ~(events[j].type = "checkout" /\ events[j].paid
                                                  /\ events[j].ref \in Plans)}

\* When every event was handled, one at a time and none after a later one, the
\* office has the plan it subscribed last, in the state Stripe has it, and the
\* add-on unless it was cancelled; repeated deliveries and crashes included.
MirrorsStripe ==
    Quiet /\ ~disordered =>
        /\ \A s \in LastPlan : /\ org.sub = s /\ org.status = atStripe[s]
                               /\ org.since > 0 => atStripe[s] # "active"
        /\ \A s \in Addons : addon.sub = s => addon.active = (atStripe[s] # "canceled")

\* The grace runs from the first failure: another one does not start it again
\* (tests_subscription.py:157), unless two are handled at the same time.
GraceKept == org.status = "past_due" /\ org'.status = "past_due" /\ ~disordered' => org'.since = org.since

Invoices == {i \in 1..Len(events) : events[i].type = "pago"}
\* Invoices that arrive when the office already has the subscription they bill.
Known(i) ==
    /\ ~disordered
    /\ \E j \in 1..i - 1 :
           /\ events[j] = Event("checkout", events[i].ref, TRUE)
           /\ \A m \in j + 1..i - 1 : events[m].type # "checkout"

\* What Stripe collected, and was told 200 for, is in the book of payments: a
\* pack (the handler that made its lot does it next, unless it crashes), an
\* invoice if its subscription was known when it came.
CollectedIsBooked ==
    /\ \A i \in acked : events[i].type = "pacote" /\ events[i].paid =>
           /\ lots[events[i].ref] = 1
           /\ \/ events[i].ref \in book \/ crashes > 0
              \/ \E w \in Workers : pc[w] = "book" /\ Ref(w) = events[i].ref
    /\ \A i \in acked \cap Invoices : Known(i) => i \in book

\* What the platform believes and what it books agree with what Stripe collected:
\* MirrorsStripe and CollectedIsBooked.
BillingAgrees == MirrorsStripe /\ CollectedIsBooked

\* And the grace of who did not pay is the one that was given: every step leaves BillingAgrees (which
\* an office without events has) and takes GraceKept.
BillingKept == [][BillingAgrees' /\ GraceKept]_vars

\* The subscription enters the book by its invoices, the first one included
\* (stripe_sync.py:144, models.py:199).
InvoicesAreBooked == acked \cap Invoices \subseteq book
=============================================================================
