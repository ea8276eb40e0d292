------------------------- MODULE SubscriptionsProofs -------------------------
(***************************************************************************)
(* Proofs about what the office pays and is owed.  The four components      *)
(* share no variable.                                                       *)
(* Subscriptions: for any number of subscriptions, packs, web workers,      *)
(* deliveries and crashes, the office gets nothing that was not paid, and   *)
(* nothing twice.  Handlers save rows they loaded before, so the            *)
(* invariant also speaks of the copies: a subscription a worker has         *)
(* loaded was paid, and the office has had one ever since.  What Stripe     *)
(* has told only grows.  While events are handled one at a time and in      *)
(* order, the office stands as the events handled so far say.               *)
(* FiscalNotes: what the emitter has of a payment is what its row says,     *)
(* or the operation that will say it is under way, and it is alone.         *)
(* Portfolio: what was posted for a receivable is in its agreement and in   *)
(* the books, or the desk that posted it has yet to write it there.         *)
(* Coupons: who made the row of a use counts it and gives its days; a       *)
(* copy of the office has no more days than the uses there are.             *)
(***************************************************************************)
EXTENDS MCEvents, FiniteSetTheorems, SequenceTheorems, TLAPS

\* The types of everything but the rows.
Control ==
    /\ atStripe \in [Subs -> StripeStates]
    /\ events \in Seq(Events) /\ Len(events) <= MaxEvents
    /\ delivered \subseteq 1..Len(events) /\ resends \in 0..MaxResends
    /\ acked \subseteq 1..Len(events)
    /\ today \in 1..MaxDay
    /\ pc \in [Workers -> PcValues]
    /\ job \in [Workers -> 0..Len(events)]
    /\ copy \in [Workers -> Rows]
    /\ crashes \in 0..MaxCrashes
    /\ latest \in 0..Len(events) /\ disordered \in BOOLEAN

RowTypes ==
    /\ org \in Rows
    /\ addon \in [active : BOOLEAN, sub : Addons \cup {None}]
    /\ lots \in [Packs -> Nat]
    /\ book \subseteq Packs \cup 1..Len(events)

\* What a worker in the middle of a handler knows of its event.
InHand ==
    /\ \A i \in 1..Len(events) : events[i].type = "pacote" <=> events[i].ref \in Packs
    /\ \A w \in Workers : pc[w] # "idle" => job[w] # 0
    /\ \A w \in Workers : pc[w] = "book" => Ref(w) \in Packs
    /\ \A w \in Workers : pc[w] = "save" => copy[w].sub # None

Loaded ==
    /\ \A w \in Workers : copy[w].sub # None =>
           org.sub # None /\ Told("checkout", copy[w].sub, TRUE)
    /\ addon.sub # None => Told("checkout", addon.sub, TRUE)

LEMMA NewRowType == NewRow \in Rows /\ NewRow.sub = None
<1>1. 0 \in 0..MaxDay
  BY BoundsAssumption
<1> QED
  BY <1>1 DEF NewRow, Rows

LEMMA Rowsets ==
    /\ \A s \in Plans : [status |-> "active", sub |-> s, since |-> 0] \in Rows
    /\ \A r \in Rows : /\ [r EXCEPT !.status = "active", !.since = 0] \in Rows
                       /\ [r EXCEPT !.status = "active", !.since = 0].sub = r.sub
                       /\ [r EXCEPT !.status = "canceled"] \in Rows
                       /\ [r EXCEPT !.status = "canceled"].sub = r.sub
    /\ \A r \in Rows, d \in 1..MaxDay :
           /\ [r EXCEPT !.status = "past_due", !.since = d] \in Rows
           /\ [r EXCEPT !.status = "past_due", !.since = d].sub = r.sub
<1>1. 0 \in 0..MaxDay /\ \A d \in 1..MaxDay : d \in 0..MaxDay
  BY BoundsAssumption
<1> QED
  BY <1>1 DEF Rows

LEMMA EventTypes ==
    ASSUME NEW t \in Types, NEW ref \in Subs \cup Packs, NEW paid \in BOOLEAN
    PROVE  Event(t, ref, paid) \in Events
  BY DEF Event, Events

-----------------------------------------------------------------------------
(***************************************************************************)
(* Stripe.                                                                 *)
(***************************************************************************)
Shaped(news) == \A j \in 1..Len(news) : news[j].type = "pacote" <=> news[j].ref \in Packs

\* What was told stays told, at the same place.
LEMMA Grows ==
    ASSUME Control, NEW news \in Seq(Events), Tell(news)
    PROVE  /\ events' \in Seq(Events) /\ Len(events') <= MaxEvents
           /\ Len(events) \in Nat /\ Len(events') \in Nat /\ Len(events) <= Len(events')
           /\ \A i \in 1..Len(events) : events'[i] = events[i]
           /\ \A i \in 1..Len(events') : i \notin 1..Len(events) =>
                  \E j \in 1..Len(news) : events'[i] = news[j]
<1>1. events \in Seq(Events) /\ events' = events \o news /\ Len(events) + Len(news) <= MaxEvents
  BY DEF Control, Tell
<1>2. Len(events) \in Nat /\ Len(news) \in Nat
  BY <1>1, LenProperties
<1>3. /\ events' \in Seq(Events)
      /\ Len(events') = Len(events) + Len(news)
      /\ \A i \in 1..Len(events) + Len(news) :
             events'[i] = IF i <= Len(events) THEN events[i] ELSE news[i - Len(events)]
  BY <1>1, ConcatProperties
<1>4. ASSUME NEW i \in 1..Len(events'), i \notin 1..Len(events)
      PROVE  \E j \in 1..Len(news) : events'[i] = news[j]
  <2>1. i - Len(events) \in 1..Len(news) /\ events'[i] = news[i - Len(events)]
    BY <1>2, <1>3, <1>4
  <2> QED
    BY <2>1
<1> QED
  BY <1>1, <1>2, <1>3, <1>4

LEMMA StillTold ==
    ASSUME Control, NEW news \in Seq(Events), Tell(news), NEW t, NEW ref, NEW paid, Told(t, ref, paid)
    PROVE  Told(t, ref, paid)'
  BY Grows DEF Told, Event

Inv == Control /\ RowTypes /\ InHand /\ OnlyWhatWasPaid /\ Loaded

LEMMA TellKeeps ==
    ASSUME Inv, NEW news \in Seq(Events), Shaped(news), Tell(news), atStripe' \in [Subs -> StripeStates]
    PROVE  Inv'
<1>1. /\ events' \in Seq(Events) /\ Len(events') <= MaxEvents
      /\ Len(events) \in Nat /\ Len(events') \in Nat /\ Len(events) <= Len(events')
      /\ \A i \in 1..Len(events) : events'[i] = events[i]
      /\ \A i \in 1..Len(events') : i \notin 1..Len(events) =>
             \E j \in 1..Len(news) : events'[i] = news[j]
  BY Grows DEF Inv
<1>2. 1..Len(events) \subseteq 1..Len(events') /\ 0..Len(events) \subseteq 0..Len(events')
  BY <1>1
<1>3. UNCHANGED <<delivered, resends, acked, today, org, addon, lots, book, pc, job, copy, crashes,
                  latest, disordered>>
  BY DEF Tell, deliveries, rows, history
<1>4. Control'
  BY <1>1, <1>2, <1>3 DEF Inv, Control
<1>5. RowTypes'
  BY <1>2, <1>3 DEF Inv, RowTypes
<1>6. InHand'
  <2>1. \A i \in 1..Len(events') : events'[i].type = "pacote" <=> events'[i].ref \in Packs
    BY <1>1 DEF Inv, InHand, Shaped
  <2>2. ASSUME NEW w \in Workers, pc[w] = "book" PROVE Ref(w)' \in Packs
    <3>1. job[w] \in 1..Len(events)
      BY <1>1, <2>2 DEF Inv, InHand, Control
    <3> QED
      BY <1>1, <1>3, <2>2, <3>1 DEF Inv, InHand, Ref
  <2> QED
    BY <1>3, <2>1, <2>2 DEF Inv, InHand
<1>7. OnlyWhatWasPaid'
  <2>1. \A k \in Packs : Told("pacote", k, TRUE) => Told("pacote", k, TRUE)'
    BY StillTold DEF Inv
  <2>2. Told("checkout", org.sub, TRUE) => Told("checkout", org.sub, TRUE)'
    BY <1>1, <1>3 DEF Told, Event
  <2>3. Told("checkout", addon.sub, TRUE) => Told("checkout", addon.sub, TRUE)'
    BY <1>1, <1>3 DEF Told, Event
  <2>4. lots' = lots
    BY <1>3
  <2>5. \A k \in Packs : lots'[k] <= 1 /\ (lots'[k] = 1 => Told("pacote", k, TRUE)')
    BY <2>1, <2>4, Zenon DEF Inv, OnlyWhatWasPaid
  <2>6. org'.status \in {"active", "past_due"} => org'.sub # None
    BY <1>3 DEF Inv, OnlyWhatWasPaid
  <2>7. org' = org /\ addon' = addon
    BY <1>3
  <2>8. org'.sub # None => Told("checkout", org.sub, TRUE)'
    BY <2>2, <2>7, Zenon DEF Inv, OnlyWhatWasPaid
  <2>9. addon'.active => Told("checkout", addon.sub, TRUE)'
    BY <2>3, <2>7, Zenon DEF Inv, OnlyWhatWasPaid
  <2> QED
    BY <2>5, <2>6, <2>8, <2>9, Zenon DEF OnlyWhatWasPaid
<1>8. Loaded'
  <2>1. \A ref : Told("checkout", ref, TRUE) => Told("checkout", ref, TRUE)'
    BY StillTold DEF Inv
  <2>2. org' = org /\ addon' = addon /\ copy' = copy
    BY <1>3
  <2>3. \A w \in Workers : copy'[w].sub # None =>
            org'.sub # None /\ Told("checkout", copy[w].sub, TRUE)'
    BY <2>1, <2>2, Zenon DEF Inv, Loaded
  <2>4. addon'.sub # None => Told("checkout", addon.sub, TRUE)'
    BY <2>1, <2>2, Zenon DEF Inv, Loaded
  <2> QED
    BY <2>3, <2>4, Zenon DEF Loaded
<1> QED
  BY <1>4, <1>5, <1>6, <1>7, <1>8 DEF Inv

LEMMA StripeTells ==
    ASSUME Inv, \/ \E k \in Packs : BuyPack(k)
                \/ \E s \in Subs : Subscribe(s) \/ Bill(s)
    PROVE  Inv'
<1>1. ASSUME NEW e \in Events, e.type = "pacote" <=> e.ref \in Packs, Tell(<<e>>),
             atStripe' \in [Subs -> StripeStates]
      PROVE  Inv'
  <2>1. <<e>> \in Seq(Events) /\ Shaped(<<e>>)
    BY <1>1 DEF Shaped
  <2> QED
    BY <1>1, <2>1, TellKeeps
<1>2. ASSUME NEW k \in Packs, BuyPack(k) PROVE Inv'
  <2>1. UNCHANGED atStripe /\ \E paid \in BOOLEAN : Tell(<<Event("pacote", k, paid)>>)
    BY <1>2 DEF BuyPack
  <2>2. PICK paid \in BOOLEAN : Tell(<<Event("pacote", k, paid)>>)
    BY <2>1
  <2>3. Event("pacote", k, paid) \in Events
    BY EventTypes DEF Types
  <2>4. Event("pacote", k, paid).type = "pacote" /\ Event("pacote", k, paid).ref = k
    BY DEF Event
  <2> QED
    BY <1>1, <2>1, <2>2, <2>3, <2>4 DEF Inv, Control
<1>3. ASSUME NEW s \in Subs, NEW t \in Types \ {"pacote"}, NEW paid \in BOOLEAN
      PROVE  /\ Event(t, s, paid) \in Events
             /\ Event(t, s, paid).type # "pacote" /\ Event(t, s, paid).ref \notin Packs
  <2>1. s \notin Packs
    BY KindsAssumption DEF Subs
  <2> QED
    BY <2>1, EventTypes DEF Event
<1>4. ASSUME NEW s \in Subs, Subscribe(s) PROVE Inv'
  <2> DEFINE session == Event("checkout", s, TRUE)
             invoice == Event("pago", s, TRUE)
             slip == Event("checkout", s, FALSE)
  <2>1. atStripe' \in [Subs -> StripeStates]
    BY <1>4 DEF Subscribe, Inv, Control, StripeStates
  <2>2. /\ session \in Events /\ session.type # "pacote" /\ session.ref \notin Packs
        /\ invoice \in Events /\ invoice.type # "pacote" /\ invoice.ref \notin Packs
        /\ slip \in Events /\ slip.type # "pacote" /\ slip.ref \notin Packs
    BY <1>3 DEF Types
  <2>3. Tell(<<session, invoice>>) \/ Tell(<<invoice, session>>) \/ Tell(<<slip>>)
    BY <1>4 DEF Subscribe
  <2> HIDE DEF session, invoice, slip
  <2>4. /\ <<session, invoice>> \in Seq(Events) /\ Shaped(<<session, invoice>>)
        /\ <<invoice, session>> \in Seq(Events) /\ Shaped(<<invoice, session>>)
    BY <2>2 DEF Shaped
  <2> QED
    BY <1>1, <2>1, <2>2, <2>3, <2>4, TellKeeps
<1>5. ASSUME NEW s \in Subs, Bill(s) PROVE Inv'
  <2>1. atStripe' \in [Subs -> StripeStates]
    BY <1>5 DEF Bill, Inv, Control, StripeStates
  <2>2. PICK t \in Types \ {"pacote"}, paid \in BOOLEAN : Tell(<<Event(t, s, paid)>>)
    BY <1>5 DEF Bill, Types
  <2> QED
    BY <1>1, <1>3, <2>1, <2>2
<1> QED
  BY <1>2, <1>4, <1>5

-----------------------------------------------------------------------------
(***************************************************************************)
(* The webhook.                                                            *)
(***************************************************************************)
\* A handler that ends frees its worker and touches no other.
LEMMA HandlerEnds ==
    ASSUME Inv, NEW w \in Workers, End(w), OnlyRows,
           acked' \subseteq 1..Len(events), crashes' \in 0..MaxCrashes
    PROVE  /\ Control' /\ InHand' /\ events' = events
           /\ \A v \in Workers : copy'[v] = copy[v] \/ copy'[v] = NewRow
<1>1. UNCHANGED <<atStripe, events, delivered, resends, today, latest, disordered>>
  BY DEF OnlyRows, stripe, deliveries, history
<1>2. /\ pc' = [pc EXCEPT ![w] = "idle"] /\ job' = [job EXCEPT ![w] = 0]
      /\ copy' = [copy EXCEPT ![w] = NewRow]
  BY DEF End, Goto
<1>3. Len(events) \in Nat
  BY LenProperties DEF Inv, Control
<1>4. pc' \in [Workers -> PcValues] /\ job' \in [Workers -> 0..Len(events)]
      /\ copy' \in [Workers -> Rows]
  BY <1>2, <1>3, NewRowType DEF Inv, Control, PcValues
<1>5. Control'
  BY <1>1, <1>4 DEF Inv, Control
<1>6. InHand'
  BY <1>1, <1>2 DEF Inv, InHand, Control, Ref
<1> QED
  BY <1>1, <1>2, <1>5, <1>6 DEF Inv, Control

LEMMA Responds ==
    ASSUME Inv, NEW w \in Workers, pc[w] # "idle", Respond(w), OnlyRows
    PROVE  /\ Control' /\ InHand' /\ events' = events
           /\ \A v \in Workers : copy'[v] = copy[v] \/ copy'[v] = NewRow
<1>1. Len(events) \in Nat
  BY LenProperties DEF Inv, Control
<1>2. job[w] \in 1..Len(events)
  BY <1>1 DEF Inv, InHand, Control
<1>3. End(w) /\ acked' \subseteq 1..Len(events) /\ crashes' \in 0..MaxCrashes
  <2>1. crashes \in 0..MaxCrashes /\ acked \subseteq 1..Len(events)
    BY DEF Inv, Control
  <2>2. CASE acked' = acked \cup {job[w]} /\ UNCHANGED crashes
    BY <1>2, <2>1, <2>2 DEF Respond
  <2>3. CASE crashes < MaxCrashes /\ crashes' = crashes + 1 /\ UNCHANGED acked
    BY <2>1, <2>3, BoundsAssumption DEF Respond
  <2> QED
    BY <2>2, <2>3 DEF Respond
<1> QED
  BY <1>3, HandlerEnds

LEMMA LoadedKept ==
    ASSUME Inv, events' = events, org.sub # None => org'.sub # None,
           addon'.sub # addon.sub => Told("checkout", addon.sub, TRUE)',
           \A v \in Workers : copy'[v] = copy[v] \/ copy'[v] = NewRow
    PROVE  Loaded'
  BY NewRowType DEF Inv, Loaded, Told

LEMMA RowsKept ==
    ASSUME Inv, events' = events, UNCHANGED rows
    PROVE  RowTypes' /\ OnlyWhatWasPaid'
<1>1. org' = org /\ addon' = addon /\ lots' = lots /\ book' = book
  BY DEF rows
<1>2. RowTypes'
  BY <1>1 DEF Inv, RowTypes
<1>3. \A t, ref, paid : Told(t, ref, paid)' <=> Told(t, ref, paid)
  BY DEF Told
<1>4. OnlyWhatWasPaid'
  BY <1>1, <1>3, Zenon DEF Inv, OnlyWhatWasPaid
<1> QED
  BY <1>2, <1>4

LEMMA ToldSame == events' = events => \A t, ref, paid : Told(t, ref, paid)' <=> Told(t, ref, paid)
  BY DEF Told

\* The event in the hands of a worker, and that it was told.
LEMMA Job ==
    ASSUME Inv, NEW w \in Workers, pc[w] # "idle"
    PROVE  /\ job[w] \in 1..Len(events) /\ events[job[w]] \in Events
           /\ events[job[w]].type = "pacote" <=> Ref(w) \in Packs
           /\ Ref(w) # None
           /\ Told(events[job[w]].type, Ref(w), events[job[w]].paid)
<1>1. Len(events) \in Nat /\ events \in [1..Len(events) -> Events]
  BY LenProperties DEF Inv, Control
<1>2. job[w] \in 1..Len(events)
  BY <1>1 DEF Inv, InHand, Control
<1>3. events[job[w]] \in Events
  BY <1>1, <1>2
<1>4. Ref(w) \in Subs \cup Packs
  BY <1>3 DEF Events, Ref
<1>5. Ref(w) # None
  BY <1>4, KindsAssumption DEF Subs
<1>6. events[job[w]] = Event(events[job[w]].type, Ref(w), events[job[w]].paid)
  BY <1>3 DEF Events, Event, Ref
<1> QED
  BY <1>2, <1>3, <1>5, <1>6 DEF Inv, InHand, Ref, Told

\* A worker that ends a handler that left the rows alone.
LEMMA EndsQuietly ==
    ASSUME Inv, UNCHANGED rows, Control', InHand', events' = events,
           \A v \in Workers : copy'[v] = copy[v] \/ copy'[v] = NewRow
    PROVE  Inv'
  BY RowsKept, LoadedKept DEF rows, Inv

LEMMA ReceiveKeeps ==
    ASSUME Inv, NEW w \in Workers, NEW i \in 1..Len(events), Receive(w, i)
    PROVE  Inv'
<1>1. /\ events' = events /\ atStripe' = atStripe /\ UNCHANGED <<acked, today, crashes, rows>>
      /\ pc' = [pc EXCEPT ![w] = "handle"] /\ job' = [job EXCEPT ![w] = i]
      /\ copy' = [copy EXCEPT ![w] = org]
  BY DEF Receive, stripe, Goto
<1>2. Len(events) \in Nat
  BY LenProperties DEF Inv, Control
<1>3. /\ pc' \in [Workers -> PcValues] /\ job' \in [Workers -> 0..Len(events)]
      /\ copy' \in [Workers -> Rows]
  BY <1>1, <1>2 DEF Inv, Control, RowTypes, PcValues
<1>4. delivered' \subseteq 1..Len(events) /\ resends' \in 0..MaxResends
  <2>1. resends \in 0..MaxResends /\ delivered \subseteq 1..Len(events)
    BY DEF Inv, Control
  <2>2. delivered' = delivered \cup {i}
    BY DEF Receive
  <2>3. resends' = resends \/ (resends < MaxResends /\ resends' = resends + 1)
    BY Zenon DEF Receive
  <2> QED
    BY <2>1, <2>2, <2>3, BoundsAssumption
<1>5. latest' \in 0..Len(events) /\ disordered' \in BOOLEAN
  BY <1>2 DEF Receive, Inv, Control
<1>6. Control'
  BY <1>1, <1>3, <1>4, <1>5 DEF Inv, Control
<1>7. InHand'
  <2>1. \A v \in Workers : v # w => pc'[v] = pc[v] /\ job'[v] = job[v] /\ copy'[v] = copy[v]
    BY <1>1 DEF Inv, Control
  <2>2. pc'[w] = "handle" /\ job'[w] # 0
    BY <1>1, <1>2 DEF Inv, Control
  <2> QED
    BY <1>1, <2>1, <2>2 DEF Inv, InHand, Ref
<1>8. Loaded'
  <2>1. org.sub # None => Told("checkout", org.sub, TRUE)
    BY DEF Inv, OnlyWhatWasPaid
  <2>2. org' = org /\ addon' = addon
    BY <1>1 DEF rows
  <2>3. \A v \in Workers : copy'[v] = copy[v] \/ copy'[v] = org
    BY <1>1 DEF Inv, Control
  <2> QED
    BY <1>1, <2>1, <2>2, <2>3 DEF Inv, Loaded, Told
<1> QED
  BY <1>1, <1>6, <1>7, <1>8, RowsKept DEF Inv

\* Packs: the lot of a paid session, made once, and its payment.
LEMMA PackKeeps ==
    ASSUME Inv, NEW w \in Workers, AddPack(w) \/ BookPack(w)
    PROVE  Inv'
<1>1. CASE AddPack(w)
  <2>1. pc[w] = "handle" /\ events[job[w]].type = "pacote" /\ events[job[w]].paid
    BY <1>1 DEF AddPack, Handles, Paid
  <2>2. Ref(w) \in Packs /\ Told("pacote", Ref(w), TRUE)
    <3>1. events[job[w]].paid = TRUE
      BY <2>1, Job DEF Events
    <3> QED
      BY <2>1, <3>1, Job
  <2>3. org' = org /\ addon' = addon /\ book' = book /\ OnlyRows
    BY <1>1 DEF AddPack
  <2>4. events' = events
    BY <2>3 DEF OnlyRows, stripe
  <2>5. lots' \in [Packs -> Nat] /\ \A k \in Packs :
            lots'[k] <= 1 /\ (lots'[k] = 1 => lots[k] = 1 \/ k = Ref(w))
    <3>1. \A k \in Packs : lots[k] \in Nat /\ lots[k] <= 1
      BY DEF Inv, RowTypes, OnlyWhatWasPaid
    <3>2. lots' = [lots EXCEPT ![Ref(w)] = IF Creates(w) THEN lots[Ref(w)] + 1 ELSE lots[Ref(w)]]
      BY <1>1 DEF AddPack
    <3> QED
      BY <2>2, <3>1, <3>2 DEF Creates, Inv, RowTypes
  <2>6. RowTypes'
    BY <2>3, <2>4, <2>5 DEF Inv, RowTypes
  <2>7. OnlyWhatWasPaid'
    <3>1. \A k \in Packs : lots'[k] <= 1 /\ (lots'[k] = 1 => Told("pacote", k, TRUE)')
      BY <2>2, <2>4, <2>5, ToldSame DEF Inv, OnlyWhatWasPaid
    <3>2. org'.status \in {"active", "past_due"} => org'.sub # None
      BY <2>3 DEF Inv, OnlyWhatWasPaid
    <3>3. org'.sub # None => Told("checkout", org.sub, TRUE)'
      BY <2>3, <2>4, ToldSame, Zenon DEF Inv, OnlyWhatWasPaid
    <3>4. addon'.active => Told("checkout", addon.sub, TRUE)'
      BY <2>3, <2>4, ToldSame, Zenon DEF Inv, OnlyWhatWasPaid
    <3> QED
      BY <3>1, <3>2, <3>3, <3>4, Zenon DEF OnlyWhatWasPaid
  <2>8. CASE Respond(w)
    <3>1. /\ Control' /\ InHand'
          /\ \A v \in Workers : copy'[v] = copy[v] \/ copy'[v] = NewRow
      BY <2>1, <2>3, <2>8, Responds
    <3>2. Loaded'
      BY <2>3, <2>4, <3>1, LoadedKept
    <3> QED
      BY <2>6, <2>7, <3>1, <3>2 DEF Inv
  <2>9. CASE Goto(w, "book") /\ MidHandler
    <3>1. /\ UNCHANGED <<atStripe, events, delivered, resends, today, latest, disordered>>
          /\ UNCHANGED <<acked, job, copy, crashes>> /\ pc' = [pc EXCEPT ![w] = "book"]
      BY <2>3, <2>9 DEF OnlyRows, MidHandler, stripe, deliveries, history, Goto
    <3>2. Control'
      BY <3>1 DEF Inv, Control, PcValues
    <3>3. InHand'
      BY <2>1, <2>2, <3>1 DEF Inv, InHand, Control, Ref
    <3>4. Loaded'
      BY <2>3, <2>4, <3>1, LoadedKept
    <3> QED
      BY <2>6, <2>7, <3>2, <3>3, <3>4 DEF Inv
  <2> QED
    BY <1>1, <2>8, <2>9 DEF AddPack
<1>2. CASE BookPack(w)
  <2>1. pc[w] = "book" /\ Respond(w) /\ OnlyRows /\ org' = org /\ addon' = addon /\ lots' = lots
    BY <1>2 DEF BookPack
  <2>2. /\ Control' /\ InHand' /\ events' = events
        /\ \A v \in Workers : copy'[v] = copy[v] \/ copy'[v] = NewRow
    BY <2>1, Responds
  <2>3. book' \subseteq Packs \cup 1..Len(events)
    BY <1>2, <2>1 DEF BookPack, Inv, InHand, RowTypes
  <2>4. RowTypes'
    BY <2>1, <2>2, <2>3 DEF Inv, RowTypes
  <2>5. OnlyWhatWasPaid'
    BY <2>1, <2>2, ToldSame, Zenon DEF Inv, OnlyWhatWasPaid
  <2>6. Loaded'
    BY <2>1, <2>2, LoadedKept
  <2> QED
    BY <2>2, <2>4, <2>5, <2>6 DEF Inv
<1> QED
  BY <1>1, <1>2

\* A handler's last write of the office and the add-on, seen from the
\* unchanged events.
LEMMA WriteKeeps ==
    ASSUME Inv, NEW w \in Workers, pc[w] # "idle", Respond(w), OnlyRows,
           lots' = lots, book' \subseteq Packs \cup 1..Len(events),
           org' \in Rows,
           org.sub # None => org'.sub # None,
           org'.sub # None => Told("checkout", org'.sub, TRUE),
           org'.status \in {"active", "past_due"} => org'.sub # None,
           addon' \in [active : BOOLEAN, sub : Addons \cup {None}],
           addon'.active => Told("checkout", addon'.sub, TRUE),
           addon'.sub # addon.sub => Told("checkout", addon'.sub, TRUE)
    PROVE  Inv'
<1>1. /\ Control' /\ InHand' /\ events' = events
      /\ \A v \in Workers : copy'[v] = copy[v] \/ copy'[v] = NewRow
  BY Responds
<1>2. RowTypes'
  BY <1>1 DEF Inv, RowTypes
<1>3. \A ref : Told("checkout", ref, TRUE)' <=> Told("checkout", ref, TRUE)
  BY <1>1 DEF Told
<1>4. OnlyWhatWasPaid'
  <2>1. \A k \in Packs : lots'[k] <= 1 /\ (lots'[k] = 1 => Told("pacote", k, TRUE)')
    BY <1>1, ToldSame, Zenon DEF Inv, OnlyWhatWasPaid
  <2>2. org'.sub # None => Told("checkout", org.sub, TRUE)'
    BY <1>1 DEF Told
  <2>3. addon'.active => Told("checkout", addon.sub, TRUE)'
    BY <1>1 DEF Told
  <2> QED
    BY <2>1, <2>2, <2>3, Zenon DEF OnlyWhatWasPaid
<1>5. Loaded'
  <2>1. addon'.sub # addon.sub => Told("checkout", addon.sub, TRUE)'
    BY <1>1 DEF Told
  <2> QED
    BY <1>1, <2>1, LoadedKept
<1> QED
  BY <1>1, <1>2, <1>4, <1>5 DEF Inv

\* What the rows had before a handler wrote them.
LEMMA Before ==
    ASSUME Inv
    PROVE  /\ org \in Rows /\ addon \in [active : BOOLEAN, sub : Addons \cup {None}]
           /\ book \subseteq Packs \cup 1..Len(events)
           /\ org.sub # None => Told("checkout", org.sub, TRUE)
           /\ org.status \in {"active", "past_due"} => org.sub # None
           /\ addon.active => Told("checkout", addon.sub, TRUE)
           /\ today \in 1..MaxDay
  BY Zenon DEF Inv, RowTypes, OnlyWhatWasPaid, Control

LEMMA QuietKeeps ==
    ASSUME Inv, NEW w \in Workers, NotPaid(w) \/ Ignore(w) \/ Crash(w)
    PROVE  Inv'
<1>1. CASE NotPaid(w) \/ Ignore(w)
  <2>1. pc[w] # "idle" /\ Respond(w) /\ OnlyRows /\ UNCHANGED rows
    BY <1>1 DEF NotPaid, Ignore, Ignored, Handles
  <2> QED
    BY <2>1, Responds, EndsQuietly
<1>2. CASE Crash(w)
  <2>1. /\ End(w) /\ OnlyRows /\ UNCHANGED <<acked, rows>>
        /\ crashes < MaxCrashes /\ crashes' = crashes + 1
    BY <1>2 DEF Crash, OnlyRows
  <2>2. acked' \subseteq 1..Len(events) /\ crashes' \in 0..MaxCrashes
    BY <2>1, BoundsAssumption DEF Inv, Control
  <2> QED
    BY <2>1, <2>2, HandlerEnds, EndsQuietly
<1> QED
  BY <1>1, <1>2

LEMMA ActivateKeeps ==
    ASSUME Inv, NEW w \in Workers, ActivateAddon(w) \/ ActivatePlan(w)
    PROVE  Inv'
<1>1. /\ pc[w] # "idle" /\ Respond(w) /\ OnlyRows /\ lots' = lots /\ book' = book
      /\ events[job[w]].type = "checkout" /\ events[job[w]].paid
  BY DEF ActivateAddon, ActivatePlan, Handles, Paid
<1>2. Told("checkout", Ref(w), TRUE) /\ Ref(w) # None
  <2>1. events[job[w]].paid = TRUE
    BY <1>1, Job DEF Events
  <2> QED
    BY <1>1, <2>1, Job
<1>3. CASE ActivateAddon(w)
  <2>1. addon' = [active |-> TRUE, sub |-> Ref(w)] /\ Ref(w) \in Addons /\ org' = org
    BY <1>3 DEF ActivateAddon
  <2>2. addon' \in [active : BOOLEAN, sub : Addons \cup {None}] /\ addon'.sub = Ref(w)
    BY <2>1
  <2>3. Told("checkout", addon'.sub, TRUE)
    BY <1>2, <2>2
  <2> QED
    BY <1>1, <2>1, <2>2, <2>3, Before, WriteKeeps
<1>4. CASE ActivatePlan(w)
  <2>1. org' = [status |-> "active", sub |-> Ref(w), since |-> 0] /\ Ref(w) \in Plans /\ addon' = addon
    BY <1>4 DEF ActivatePlan, IsPlan
  <2>2. org' \in Rows /\ org'.sub = Ref(w)
    BY <2>1, Rowsets
  <2>3. Told("checkout", org'.sub, TRUE)
    BY <1>2, <2>2
  <2> QED
    BY <1>1, <1>2, <2>1, <2>2, <2>3, Before, WriteKeeps
<1> QED
  BY <1>3, <1>4

\* A renewal: its invoice is booked, and the row saved as it was loaded.
LEMMA RenewalKeeps ==
    ASSUME Inv, NEW w \in Workers, BookInvoice(w) \/ SaveRenewal(w) \/ RenewAddon(w)
    PROVE  Inv'
<1>1. ASSUME pc[w] # "idle", book' = Booked(w)
      PROVE  book' \subseteq Packs \cup 1..Len(events)
  BY <1>1, Job, Before DEF Booked
<1>2. CASE BookInvoice(w)
  <2>1. /\ pc[w] = "handle" /\ copy[w].sub = Ref(w) /\ book' = Booked(w)
        /\ org' = org /\ addon' = addon /\ lots' = lots /\ OnlyRows /\ MidHandler
        /\ pc' = [pc EXCEPT ![w] = "save"]
    BY <1>2 DEF BookInvoice, Handles, Goto
  <2>2. /\ UNCHANGED <<atStripe, events, delivered, resends, today, latest, disordered>>
        /\ UNCHANGED <<acked, job, copy, crashes>>
    BY <2>1 DEF OnlyRows, MidHandler, stripe, deliveries, history
  <2>3. Control'
    BY <2>1, <2>2 DEF Inv, Control, PcValues
  <2>4. InHand'
    <3>1. copy[w].sub # None
      BY <2>1, Job
    <3> QED
      BY <2>1, <2>2, <3>1 DEF Inv, InHand, Control, Ref
  <2>5. RowTypes'
    BY <1>1, <2>1, <2>2 DEF Inv, RowTypes
  <2>6. OnlyWhatWasPaid'
    BY <2>1, <2>2, ToldSame, Zenon DEF Inv, OnlyWhatWasPaid
  <2>7. Loaded'
    BY <2>1, <2>2, LoadedKept
  <2> QED
    BY <2>3, <2>4, <2>5, <2>6, <2>7 DEF Inv
<1>3. CASE SaveRenewal(w)
  <2>1. /\ pc[w] = "save" /\ Respond(w) /\ OnlyRows /\ org' = Renewed(w)
        /\ addon' = addon /\ lots' = lots /\ book' = book
    BY <1>3 DEF SaveRenewal
  <2>2. copy[w] \in Rows /\ copy[w].sub # None
    BY <2>1 DEF Inv, Control, InHand
  <2>3. org' \in Rows /\ org'.sub = copy[w].sub
    BY <2>1, <2>2, Rowsets DEF Renewed
  <2>4. Told("checkout", copy[w].sub, TRUE)
    BY <2>2, Zenon DEF Inv, Loaded
  <2>5. Told("checkout", org'.sub, TRUE)
    BY <2>3, <2>4
  <2> QED
    BY <2>1, <2>2, <2>3, <2>5, Before, WriteKeeps
<1>4. CASE RenewAddon(w)
  <2>1. /\ pc[w] # "idle" /\ Respond(w) /\ OnlyRows /\ book' = Booked(w)
        /\ addon' = [addon EXCEPT !.active = TRUE] /\ addon.sub = Ref(w)
        /\ org' = org /\ lots' = lots
    BY <1>4 DEF RenewAddon, Handles
  <2>2. addon' \in [active : BOOLEAN, sub : Addons \cup {None}] /\ addon'.sub = addon.sub
    BY <2>1, Before
  <2>3. addon.sub # None
    BY <2>1, Job
  <2>4. Told("checkout", addon.sub, TRUE)
    BY <2>3, Zenon DEF Inv, Loaded
  <2>5. Told("checkout", addon'.sub, TRUE)
    BY <2>2, <2>4
  <2> QED
    BY <1>1, <2>1, <2>2, <2>5, Before, WriteKeeps
<1> QED
  BY <1>2, <1>3, <1>4

\* Failures and cancellations take nothing but the status.
LEMMA LossKeeps ==
    ASSUME Inv, NEW w \in Workers, PaymentFailed(w) \/ CancelAddon(w) \/ CancelPlan(w)
    PROVE  Inv'
<1>1. pc[w] # "idle" /\ Respond(w) /\ OnlyRows /\ lots' = lots /\ book' = book
  BY DEF PaymentFailed, CancelAddon, CancelPlan, Handles
<1>2. CASE PaymentFailed(w)
  <2>1. /\ org' = [org EXCEPT !.status = "past_due", !.since = today]
        /\ copy[w].sub = Ref(w) /\ addon' = addon
    BY <1>2 DEF PaymentFailed, OpensGrace
  <2>2. org' \in Rows /\ org'.sub = org.sub
    BY <2>1, Before, Rowsets
  <2>3. copy[w].sub # None
    BY <1>1, <2>1, Job
  <2>4. org.sub # None
    BY <2>3, Zenon DEF Inv, Loaded
  <2>5. Told("checkout", org'.sub, TRUE)
    BY <2>2, <2>4, Before
  <2> QED
    BY <1>1, <2>1, <2>2, <2>4, <2>5, Before, WriteKeeps
<1>3. CASE CancelAddon(w)
  <2>1. addon' = [addon EXCEPT !.active = FALSE] /\ org' = org
    BY <1>3 DEF CancelAddon
  <2>2. /\ addon' \in [active : BOOLEAN, sub : Addons \cup {None}]
        /\ addon'.sub = addon.sub /\ ~addon'.active
    BY <2>1, Before
  <2> QED
    BY <1>1, <2>1, <2>2, Before, WriteKeeps
<1>4. CASE CancelPlan(w)
  <2>1. org' = [org EXCEPT !.status = "canceled"] /\ addon' = addon
    BY <1>4 DEF CancelPlan
  <2>2. org' \in Rows /\ org'.sub = org.sub /\ org'.status = "canceled"
    BY <2>1, Before, Rowsets DEF Rows
  <2>3. org'.sub # None => Told("checkout", org'.sub, TRUE)
    BY <2>2, Before
  <2> QED
    BY <1>1, <2>1, <2>2, <2>3, Before, WriteKeeps
<1> QED
  BY <1>2, <1>3, <1>4

LEMMA DayKeeps ==
    ASSUME Inv, DayPasses
    PROVE  Inv'
<1>1. /\ UNCHANGED <<atStripe, events, delivered, resends, acked, pc, job, copy, crashes, latest,
                     disordered>>
      /\ UNCHANGED rows /\ today < MaxDay /\ today' = today + 1
  BY DEF DayPasses, stripe, deliveries, history
<1>2. Control'
  BY <1>1, BoundsAssumption DEF Inv, Control
<1>3. InHand'
  BY <1>1 DEF Inv, InHand, Ref
<1> QED
  BY <1>1, <1>2, <1>3, EndsQuietly

-----------------------------------------------------------------------------
LEMMA InitInv == Init => Inv
<1> SUFFICES ASSUME Init PROVE Inv
  OBVIOUS
<1>1. /\ events = <<>> /\ Len(events) = 0 /\ events \in Seq(Events)
  BY DEF Init
<1>2. 1 \in 1..MaxDay /\ MaxEvents \in Nat /\ MaxResends \in Nat /\ MaxCrashes \in Nat
  BY BoundsAssumption
<1>3. Control
  <2>1. delivered \subseteq 1..Len(events) /\ acked \subseteq 1..Len(events)
    BY DEF Init
  <2>2. resends \in 0..MaxResends /\ crashes \in 0..MaxCrashes /\ latest \in 0..Len(events)
    BY <1>1, <1>2 DEF Init
  <2>3. Len(events) <= MaxEvents
    BY <1>1, <1>2
  <2>4. today \in 1..MaxDay
    BY <1>2 DEF Init
  <2>5. disordered \in BOOLEAN
    BY Zenon DEF Init
  <2>6. atStripe \in [Subs -> StripeStates] /\ pc \in [Workers -> PcValues]
    BY DEF Init, StripeStates, PcValues
  <2>7. job \in [Workers -> 0..Len(events)]
    BY <1>1 DEF Init
  <2>8. copy \in [Workers -> Rows]
    BY NewRowType DEF Init
  <2> QED
    BY <1>1, <2>1, <2>2, <2>3, <2>4, <2>5, <2>6, <2>7, <2>8 DEF Control
<1>4. RowTypes
  BY NewRowType DEF Init, RowTypes
<1>5. InHand
  BY <1>1 DEF Init, InHand
<1>6. OnlyWhatWasPaid
  <2>1. org.sub = None /\ org.status = "trialing" /\ addon.active = FALSE
    BY DEF Init, NewRow
  <2>2. \A k \in Packs : lots[k] = 0
    BY DEF Init
  <2>3. \A k \in Packs : lots[k] <= 1 /\ lots[k] # 1
    BY <2>2
  <2> QED
    BY <2>1, <2>3 DEF OnlyWhatWasPaid
<1>7. Loaded
  BY NewRowType DEF Init, Loaded
<1> QED
  BY <1>3, <1>4, <1>5, <1>6, <1>7 DEF Inv

LEMMA NextInv == Inv /\ [Next]_vars => Inv'
<1> SUFFICES ASSUME Inv, [Next]_vars PROVE Inv'
  OBVIOUS
<1>1. ASSUME NEW w \in Workers, Handle(w) PROVE Inv'
  BY <1>1, ReceiveKeeps, PackKeeps, QuietKeeps, ActivateKeeps, RenewalKeeps, LossKeeps DEF Handle
<1>2. CASE UNCHANGED vars
  <2>1. /\ UNCHANGED <<atStripe, events, delivered, resends, acked, today, pc, job, copy, crashes,
                       latest, disordered>>
        /\ UNCHANGED rows
    BY <1>2 DEF vars, stripe, deliveries, history
  <2>2. Control' /\ InHand'
    BY <2>1 DEF Inv, Control, InHand, Ref
  <2> QED
    BY <2>1, <2>2, EndsQuietly
<1> QED
  BY <1>1, <1>2, StripeTells, DayKeeps DEF Next

LEMMA Invariant == Spec => []Inv
  BY InitInv, NextInv, PTL DEF Spec

\* Every variable keeps to its type, whatever Stripe tells and in any order.
THEOREM TypeCorrect == Spec => []TypeOK
<1>1. Inv => TypeOK
  BY DEF Inv, Control, RowTypes, TypeOK
<1> QED
  BY <1>1, Invariant, PTL

\* However often and in whatever order the events of stripe_sync.py arrive,
\* and whichever handlers die, a session gives one lot of credits and only
\* what was paid is on.
THEOREM NothingUnpaid == Spec => []OnlyWhatWasPaid
<1>1. Inv => OnlyWhatWasPaid
  BY DEF Inv
<1> QED
  BY <1>1, Invariant, PTL

-----------------------------------------------------------------------------
(***************************************************************************)
(* What the events tell of a subscription, and what the office shows of it.*)
(* The operators take the events, and the row, so that they say the same   *)
(* of a state and of the next one.                                         *)
(***************************************************************************)
\* Event e says how subscription s stands: it was paid, it failed, it ended.
Speaks(e, s) == e.ref = s /\ (e.type = "checkout" => e.paid)
LastWord(es, i, s, n) == i \in 1..n /\ Speaks(es[i], s) /\ \A j \in i + 1..n : ~Speaks(es[j], s)
StandsAs(e) ==
    IF e.type \in {"checkout", "pago"} THEN "active"
    ELSE IF e.type = "falhou" THEN "past_due" ELSE "canceled"

\* Event e turns on one of the subscriptions; the last of the first n events that does turns on s.
Opens(e, subs) == e.type = "checkout" /\ e.paid /\ e.ref \in subs
LastOpened(es, s, subs, n) ==
    \E i \in 1..n : Opens(es[i], subs) /\ es[i].ref = s /\ \A j \in i + 1..n : ~Opens(es[j], subs)

\* Stripe keeps the state it told last, and a payment fails only while the subscription is on.
Quiets == {"nenhuma", "pendente"}
StateTold(es, s, state) ==
    /\ state \in Quiets => \A i \in 1..Len(es) : ~Speaks(es[i], s)
    /\ state \notin Quiets =>
           \E i \in 1..Len(es) : LastWord(es, i, s, Len(es)) /\ state = StandsAs(es[i])
FailsWhileOn(es) ==
    \A n \in 1..Len(es) : es[n].type = "falhou" =>
        \E i \in 1..n - 1 : LastWord(es, i, es[n].ref, n - 1) /\ es[i].type # "cancelada"
StripeSays == (\A s \in Subs : StateTold(events, s, atStripe[s])) /\ FailsWhileOn(events)

\* The office stands as the first n events say: the plan in row o, the add-on in row a.
PlanMirrored(es, o, n) ==
    \A s \in Plans : LastOpened(es, s, Plans, n) =>
        /\ o.sub = s
        /\ \A i \in 1..n : LastWord(es, i, s, n) =>
               o.status = StandsAs(es[i]) /\ (o.since > 0 => StandsAs(es[i]) # "active")
AddonMirrored(es, a, n) ==
    \A s \in Addons :
        /\ LastOpened(es, s, Addons, n) => a.sub = s
        /\ \A i \in 1..n : a.sub = s /\ LastWord(es, i, s, n) =>
               a.active = (es[i].type # "cancelada")

\* A session that gave its lot is in the book, unless a handler died or is about to write it.
PacksBooked ==
    /\ \A k \in Packs : lots[k] = 1 =>
           k \in book \/ crashes > 0 \/ \E w \in Workers : pc[w] = "book" /\ Ref(w) = k
    /\ \A w \in Workers : pc[w] = "book" => lots[Ref(w)] = 1
    /\ \A w \in Workers : pc[w] = "save" => events[job[w]].type = "pago"
    /\ \A i \in acked : events[i].type = "pacote" /\ events[i].paid => lots[events[i].ref] = 1
InvoicesBooked == \A i \in acked \cap Invoices : Known(i) => i \in book

\* While events are handled one at a time and in order, a handler has the row as it is, and the
\* office stands as the events before the latest say, or as the latest says too: which it does
\* once the latest was answered.
OneAtATime ==
    /\ 1..latest - 1 \subseteq acked /\ acked \subseteq 1..latest
    /\ \A w \in Workers : pc[w] # "idle" =>
           /\ job[w] = latest /\ \A v \in Workers : v # w => pc[v] = "idle"
           /\ pc[w] # "book" => copy[w] = org
           /\ pc[w] = "save" => org.sub = Ref(w) /\ latest \in book
Follows ==
    /\ \/ PlanMirrored(events, org, latest)
       \/ latest \notin acked /\ PlanMirrored(events, org, latest - 1)
    /\ \/ AddonMirrored(events, addon, latest)
       \/ latest \notin acked /\ AddonMirrored(events, addon, latest - 1)
Orderly == ~disordered => OneAtATime /\ Follows

BillInv == Inv /\ StripeSays /\ PacksBooked /\ InvoicesBooked /\ Orderly

\* The events are records, and only a pack's event is about no subscription.
LEMMA EventFacts ==
    ASSUME Inv
    PROVE  /\ Len(events) \in Nat /\ latest \in 0..Len(events) /\ latest \in Nat
           /\ \A i \in 1..Len(events) :
                  /\ events[i] \in Events /\ events[i].type \in Types /\ events[i].paid \in BOOLEAN
                  /\ events[i].type # "pacote" => events[i].ref \in Subs
                  /\ events[i].type = "pacote" => events[i].ref \in Packs
           /\ Subs \cap Packs = {} /\ Plans \cap Addons = {} /\ None \notin Subs \cup Packs
           /\ Subs = Plans \cup Addons
<1>1. Len(events) \in Nat /\ events \in [1..Len(events) -> Events]
  BY LenProperties DEF Inv, Control
<1>2. latest \in 0..Len(events) /\ latest \in Nat
  BY <1>1 DEF Inv, Control
<1>3. ASSUME NEW i \in 1..Len(events)
      PROVE  /\ events[i] \in Events /\ events[i].type \in Types /\ events[i].paid \in BOOLEAN
             /\ events[i].type # "pacote" => events[i].ref \in Subs
             /\ events[i].type = "pacote" => events[i].ref \in Packs
  <2>1. events[i] \in Events /\ (events[i].type = "pacote" <=> events[i].ref \in Packs)
    BY <1>1, <1>3 DEF Inv, InHand
  <2> QED
    BY <2>1 DEF Events
<1>4. Subs \cap Packs = {} /\ Plans \cap Addons = {} /\ None \notin Subs \cup Packs
  BY KindsAssumption DEF Subs
<1> QED
  BY <1>1, <1>2, <1>3, <1>4 DEF Subs

\* One event more: the last word on a subscription, and the last one turned on.
LEMMA OneMoreWord ==
    ASSUME NEW es, NEW n \in Nat, n > 0, NEW s, NEW i
    PROVE  /\ Speaks(es[n], s) => (LastWord(es, i, s, n) <=> i = n)
           /\ ~Speaks(es[n], s) => (LastWord(es, i, s, n) <=> LastWord(es, i, s, n - 1))
  BY DEF LastWord

LEMMA OneMoreOpened ==
    ASSUME NEW es, NEW n \in Nat, n > 0, NEW s, NEW subs
    PROVE  /\ Opens(es[n], subs) => (LastOpened(es, s, subs, n) <=> es[n].ref = s)
           /\ ~Opens(es[n], subs) => (LastOpened(es, s, subs, n) <=> LastOpened(es, s, subs, n - 1))
<1>1. CASE Opens(es[n], subs)
  BY <1>1 DEF LastOpened
<1>2. CASE ~Opens(es[n], subs)
  <2>1. ASSUME LastOpened(es, s, subs, n) PROVE LastOpened(es, s, subs, n - 1)
    <3>1. PICK i \in 1..n : /\ Opens(es[i], subs) /\ es[i].ref = s
                            /\ \A j \in i + 1..n : ~Opens(es[j], subs)
      BY <2>1 DEF LastOpened
    <3>2. i \in 1..n - 1 /\ \A j \in i + 1..n - 1 : j \in i + 1..n
      BY <1>2, <3>1
    <3> QED
      BY <3>1, <3>2 DEF LastOpened
  <2>2. ASSUME LastOpened(es, s, subs, n - 1) PROVE LastOpened(es, s, subs, n)
    <3>1. PICK i \in 1..n - 1 : /\ Opens(es[i], subs) /\ es[i].ref = s
                                /\ \A j \in i + 1..n - 1 : ~Opens(es[j], subs)
      BY <2>2 DEF LastOpened
    <3>2. i \in 1..n /\ \A j \in i + 1..n : j \in i + 1..n - 1 \/ j = n
      BY <3>1
    <3> QED
      BY <1>2, <3>1, <3>2 DEF LastOpened
  <2> QED
    BY <1>2, <2>1, <2>2
<1> QED
  BY <1>1, <1>2

\* Before any event nothing is said.
LEMMA NothingTold == \A es, o, a : PlanMirrored(es, o, 0) /\ AddonMirrored(es, a, 0)
  BY DEF PlanMirrored, AddonMirrored, LastOpened, LastWord

\* Only the events that were there count.
LEMMA SamePrefix ==
    ASSUME NEW es, NEW fs, NEW n \in Nat, \A i \in 1..n : fs[i] = es[i]
    PROVE  /\ \A i, s : LastWord(fs, i, s, n) <=> LastWord(es, i, s, n)
           /\ \A s, subs : LastOpened(fs, s, subs, n) <=> LastOpened(es, s, subs, n)
           /\ \A o : PlanMirrored(es, o, n) => PlanMirrored(fs, o, n)
           /\ \A a : AddonMirrored(es, a, n) => AddonMirrored(fs, a, n)
<1>1. \A i, s : LastWord(fs, i, s, n) <=> LastWord(es, i, s, n)
  BY DEF LastWord
<1>2. \A s, subs : LastOpened(fs, s, subs, n) <=> LastOpened(es, s, subs, n)
  BY DEF LastOpened
<1>3. \A o : PlanMirrored(es, o, n) => PlanMirrored(fs, o, n)
  BY <1>1, <1>2 DEF PlanMirrored
<1>4. \A a : AddonMirrored(es, a, n) => AddonMirrored(fs, a, n)
  BY <1>1, <1>2 DEF AddonMirrored
<1> QED
  BY <1>1, <1>2, <1>3, <1>4

-----------------------------------------------------------------------------
(***************************************************************************)
(* The row of the plan after one event more.                               *)
(***************************************************************************)
LEMMA PlanOpened ==
    ASSUME NEW es, NEW n \in Nat, n > 0, Opens(es[n], Plans),
           NEW o, o.sub = es[n].ref, o.status = "active", o.since = 0
    PROVE  PlanMirrored(es, o, n)
<1>1. Speaks(es[n], es[n].ref) /\ StandsAs(es[n]) = "active"
  BY DEF Speaks, Opens, StandsAs
<1>2. \A s : LastOpened(es, s, Plans, n) => s = es[n].ref
  BY OneMoreOpened
<1>3. \A i : LastWord(es, i, es[n].ref, n) => i = n
  BY <1>1, OneMoreWord
<1> QED
  BY <1>1, <1>2, <1>3 DEF PlanMirrored

LEMMA PlanUntold ==
    ASSUME NEW es, NEW n \in Nat, n > 0, ~Opens(es[n], Plans),
           NEW o, ~Speaks(es[n], o.sub)
    PROVE  PlanMirrored(es, o, n - 1) => PlanMirrored(es, o, n)
<1>1. \A s : LastOpened(es, s, Plans, n) <=> LastOpened(es, s, Plans, n - 1)
  BY OneMoreOpened
<1>2. \A i : LastWord(es, i, o.sub, n) <=> LastWord(es, i, o.sub, n - 1)
  BY OneMoreWord
<1>3. \A i : LastWord(es, i, o.sub, n - 1) => i \in 1..n - 1
  BY DEF LastWord
<1> QED
  BY <1>1, <1>2, <1>3 DEF PlanMirrored

LEMMA PlanTold ==
    ASSUME NEW es, NEW n \in Nat, n > 0, ~Opens(es[n], Plans),
           NEW o, PlanMirrored(es, o, n - 1) \/ PlanMirrored(es, o, n), Speaks(es[n], o.sub),
           NEW p, p.sub = o.sub, p.status = StandsAs(es[n]), p.since > 0 => StandsAs(es[n]) # "active"
    PROVE  PlanMirrored(es, p, n)
<1>1. \A s : LastOpened(es, s, Plans, n) <=> LastOpened(es, s, Plans, n - 1)
  BY OneMoreOpened
<1>2. \A s \in Plans : LastOpened(es, s, Plans, n) => o.sub = s
  BY <1>1 DEF PlanMirrored
<1>3. \A i : LastWord(es, i, o.sub, n) => i = n
  BY OneMoreWord
<1> QED
  BY <1>2, <1>3 DEF PlanMirrored

(***************************************************************************)
(* The row of the add-on after one event more.                             *)
(***************************************************************************)
LEMMA AddonOpened ==
    ASSUME NEW es, NEW n \in Nat, n > 0, Opens(es[n], Addons),
           NEW a, a.sub = es[n].ref, a.active = TRUE
    PROVE  AddonMirrored(es, a, n)
<1>1. Speaks(es[n], es[n].ref) /\ es[n].type # "cancelada"
  BY DEF Speaks, Opens
<1>2. \A s : LastOpened(es, s, Addons, n) => s = es[n].ref
  BY OneMoreOpened
<1>3. \A i : LastWord(es, i, es[n].ref, n) => i = n
  BY <1>1, OneMoreWord
<1> QED
  BY <1>1, <1>2, <1>3 DEF AddonMirrored

LEMMA AddonUntold ==
    ASSUME NEW es, NEW n \in Nat, n > 0, ~Opens(es[n], Addons),
           NEW a, ~Speaks(es[n], a.sub)
    PROVE  AddonMirrored(es, a, n - 1) => AddonMirrored(es, a, n)
<1>1. \A s : LastOpened(es, s, Addons, n) <=> LastOpened(es, s, Addons, n - 1)
  BY OneMoreOpened
<1>2. \A i : LastWord(es, i, a.sub, n) <=> LastWord(es, i, a.sub, n - 1)
  BY OneMoreWord
<1>3. \A i : LastWord(es, i, a.sub, n - 1) => i \in 1..n - 1
  BY DEF LastWord
<1> QED
  BY <1>1, <1>2, <1>3 DEF AddonMirrored

LEMMA AddonTold ==
    ASSUME NEW es, NEW n \in Nat, n > 0, ~Opens(es[n], Addons),
           NEW a, AddonMirrored(es, a, n - 1) \/ AddonMirrored(es, a, n), Speaks(es[n], a.sub),
           NEW b, b.sub = a.sub, b.active = (es[n].type # "cancelada")
    PROVE  AddonMirrored(es, b, n)
<1>1. \A s : LastOpened(es, s, Addons, n) <=> LastOpened(es, s, Addons, n - 1)
  BY OneMoreOpened
<1>2. \A s \in Addons : LastOpened(es, s, Addons, n) => a.sub = s
  BY <1>1 DEF AddonMirrored
<1>3. \A i : LastWord(es, i, a.sub, n) => i = n
  BY OneMoreWord
<1> QED
  BY <1>2, <1>3 DEF AddonMirrored

\* A payment of an add-on that is on failed: it stays on.
LEMMA AddonStays ==
    ASSUME NEW es, NEW n \in 1..Len(es), Len(es) \in Nat, FailsWhileOn(es), es[n].type = "falhou",
           NEW a, a.sub = es[n].ref, a.sub \in Addons, AddonMirrored(es, a, n - 1)
    PROVE  AddonMirrored(es, a, n)
<1>1. PICK i \in 1..n - 1 : LastWord(es, i, es[n].ref, n - 1) /\ es[i].type # "cancelada"
  BY DEF FailsWhileOn
<1>2. a.active = (es[i].type # "cancelada")
  BY <1>1 DEF AddonMirrored
<1>3. ~Opens(es[n], Addons) /\ Speaks(es[n], a.sub)
  BY DEF Opens, Speaks
<1> QED
  BY <1>1, <1>2, <1>3, AddonTold

-----------------------------------------------------------------------------
(***************************************************************************)
(* Stripe tells one event more.                                            *)
(***************************************************************************)
Longer(es, fs, e) == Len(fs) = Len(es) + 1 /\ fs[Len(fs)] = e /\ \A i \in 1..Len(es) : fs[i] = es[i]

LEMMA OneTold ==
    ASSUME NEW es, NEW fs, NEW e, Len(es) \in Nat, Longer(es, fs, e), NEW s, NEW was, NEW is,
           StateTold(es, s, was),
           Speaks(e, s) => is = StandsAs(e),
           ~Speaks(e, s) => is = was \/ (is \in Quiets /\ was \in Quiets)
    PROVE  StateTold(fs, s, is)
<1> DEFINE n == Len(es) + 1
<1>1. n \in Nat /\ n > 0 /\ Len(fs) = n /\ fs[n] = e /\ Len(es) = n - 1
  BY DEF Longer
<1>2. \A i : LastWord(fs, i, s, Len(es)) <=> LastWord(es, i, s, Len(es))
  BY SamePrefix DEF Longer
<1>3. \A i \in 1..Len(es) : fs[i] = es[i]
  BY DEF Longer
<1> HIDE DEF n
<1>4. CASE Speaks(e, s)
  <2>1. is = StandsAs(fs[n]) /\ is \notin Quiets /\ n \in 1..n
    BY <1>1, <1>4 DEF StandsAs, Quiets
  <2>2. LastWord(fs, n, s, n)
    BY <1>1, <1>4, OneMoreWord
  <2> QED
    BY <1>1, <2>1, <2>2 DEF StateTold
<1>5. CASE ~Speaks(e, s)
  <2>1. CASE is \in Quiets
    <3>1. \A i \in 1..Len(es) : ~Speaks(es[i], s)
      BY <1>5, <2>1 DEF StateTold
    <3>2. \A i \in 1..n : i \in 1..Len(es) \/ i = n
      BY <1>1
    <3> QED
      BY <1>1, <1>3, <1>5, <2>1, <3>1, <3>2 DEF StateTold
  <2>2. CASE is \notin Quiets
    <3>1. is = was
      BY <1>5, <2>2
    <3>2. PICK i \in 1..Len(es) : LastWord(es, i, s, Len(es)) /\ is = StandsAs(es[i])
      BY <2>2, <3>1 DEF StateTold
    <3>3. LastWord(fs, i, s, n)
      BY <1>1, <1>2, <1>5, <3>2, OneMoreWord
    <3>4. i \in 1..n /\ fs[i] = es[i]
      BY <1>1, <1>3
    <3> QED
      BY <1>1, <2>2, <3>2, <3>3, <3>4 DEF StateTold
  <2> QED
    BY <2>1, <2>2
<1> QED
  BY <1>4, <1>5

LEMMA OneFails ==
    ASSUME NEW es, NEW fs, NEW e, Len(es) \in Nat, Longer(es, fs, e), FailsWhileOn(es),
           NEW state, StateTold(es, e.ref, state),
           e.type = "falhou" => state \in {"active", "past_due"}
    PROVE  FailsWhileOn(fs)
<1>1. ASSUME NEW n \in 1..Len(fs), fs[n].type = "falhou"
      PROVE  \E i \in 1..n - 1 : LastWord(fs, i, fs[n].ref, n - 1) /\ fs[i].type # "cancelada"
  <2>1. n - 1 \in Nat /\ \A i \in 1..n - 1 : i \in 1..Len(es) /\ fs[i] = es[i]
    BY DEF Longer
  <2>2. \A i, s : LastWord(fs, i, s, n - 1) <=> LastWord(es, i, s, n - 1)
    BY <2>1, SamePrefix
  <2>3. CASE n \in 1..Len(es)
    BY <1>1, <2>1, <2>2, <2>3 DEF Longer, FailsWhileOn
  <2>4. CASE n = Len(es) + 1
    <3>1. fs[n] = e /\ n - 1 = Len(es)
      BY <2>4 DEF Longer
    <3>2. state \notin Quiets /\ state # "canceled"
      BY <1>1, <3>1 DEF Quiets
    <3>3. PICK i \in 1..Len(es) : LastWord(es, i, e.ref, Len(es)) /\ state = StandsAs(es[i])
      BY <3>2 DEF StateTold
    <3>4. es[i].type # "cancelada"
      BY <3>2, <3>3 DEF StandsAs
    <3> QED
      BY <2>1, <2>2, <3>1, <3>3, <3>4
  <2> QED
    BY <2>3, <2>4 DEF Longer
<1> QED
  BY <1>1 DEF FailsWhileOn

LEMMA TellOne ==
    ASSUME Inv, NEW e \in Events, Tell(<<e>>)
    PROVE  Longer(events, events', e)
<1>1. events \in Seq(Events) /\ <<e>> \in Seq(Events) /\ events' = events \o <<e>>
  BY DEF Inv, Control, Tell
<1> QED
  BY <1>1, ConcatProperties, LenProperties DEF Longer

LEMMA TellTwo ==
    ASSUME Inv, NEW d \in Events, NEW e \in Events, Tell(<<d, e>>)
    PROVE  \E es : Len(es) \in Nat /\ Longer(events, es, d) /\ Longer(es, events', e)
<1>1. events \in Seq(Events) /\ <<d, e>> \in Seq(Events) /\ events' = events \o <<d, e>>
  BY DEF Inv, Control, Tell
<1>2. Len(events) \in Nat
  BY <1>1, LenProperties
<1>3. /\ Len(Append(events, d)) = Len(events) + 1
      /\ \A i \in 1..Len(events) : Append(events, d)[i] = events[i]
      /\ Append(events, d)[Len(events) + 1] = d
  BY <1>1, AppendProperties
<1>4. /\ Len(events') = Len(events) + 2
      /\ \A i \in 1..Len(events) : events'[i] = events[i]
      /\ events'[Len(events) + 1] = d /\ events'[Len(events) + 2] = e
  BY <1>1, <1>2, ConcatProperties
<1>5. Longer(events, Append(events, d), d)
  BY <1>3 DEF Longer
<1>6. Longer(Append(events, d), events', e)
  BY <1>2, <1>3, <1>4 DEF Longer
<1> QED
  BY <1>2, <1>3, <1>5, <1>6

\* Whatever Stripe tells leaves the books and the office as they are.
LEMMA TellKeepsBooks ==
    ASSUME BillInv, NEW news \in Seq(Events), Tell(news)
    PROVE  PacksBooked' /\ InvoicesBooked' /\ Orderly'
<1>1. /\ Len(events) \in Nat /\ Len(events') \in Nat /\ Len(events) <= Len(events')
      /\ \A i \in 1..Len(events) : events'[i] = events[i]
  BY Grows DEF BillInv, Inv
<1>2. UNCHANGED <<acked, org, addon, lots, book, pc, job, copy, crashes, latest, disordered>>
  BY DEF Tell, rows, history
<1>3. acked \subseteq 1..Len(events) /\ latest \in Nat /\ latest \in 0..Len(events)
  BY EventFacts DEF BillInv, Inv, Control
<1>4. ASSUME NEW w \in Workers, pc[w] # "idle"
      PROVE  events'[job[w]] = events[job[w]] /\ Ref(w)' = Ref(w)
  <2>1. job[w] \in 1..Len(events)
    BY <1>4, Job DEF BillInv
  <2> QED
    BY <1>1, <1>2, <2>1 DEF Ref
<1>5. PacksBooked'
  BY <1>1, <1>2, <1>3, <1>4 DEF BillInv, PacksBooked
<1>6. InvoicesBooked'
  <2>1. ASSUME NEW i \in acked, events'[i].type = "pago", Known(i)'
        PROVE  events[i].type = "pago" /\ Known(i)
    <3>1. i \in 1..Len(events) /\ \A j \in 1..i - 1 : j \in 1..Len(events)
      BY <1>1, <1>3
    <3>2. PICK j \in 1..i - 1 : /\ events'[j] = Event("checkout", events'[i].ref, TRUE)
                               /\ \A m \in j + 1..i - 1 : events'[m].type # "checkout"
      BY <2>1 DEF Known, Event
    <3>3. events[j] = events'[j] /\ events[i] = events'[i]
      BY <1>1, <3>1
    <3>4. \A m \in j + 1..i - 1 : m \in 1..i - 1 /\ events[m] = events'[m]
      BY <1>1, <3>1
    <3> QED
      BY <1>2, <2>1, <3>2, <3>3, <3>4 DEF Known
  <2>2. \A i \in acked : i \in Invoices' => events'[i].type = "pago"
    BY DEF Invoices
  <2> QED
    BY <1>2, <1>3, <2>1, <2>2 DEF BillInv, InvoicesBooked, Invoices
<1>7. Orderly'
  <2>1. OneAtATime => OneAtATime'
    BY <1>2, <1>4 DEF OneAtATime
  <2>2. \A i \in 1..latest : events'[i] = events[i]
    BY <1>1, <1>3
  <2>3. latest > 0 => latest - 1 \in Nat /\ \A i \in 1..latest - 1 : events'[i] = events[i]
    BY <1>3, <2>2
  <2>4. latest = 0 => PlanMirrored(events', org, latest) /\ AddonMirrored(events', addon, latest)
    BY NothingTold
  <2>5. /\ PlanMirrored(events, org, latest) => PlanMirrored(events', org, latest)
        /\ AddonMirrored(events, addon, latest) => AddonMirrored(events', addon, latest)
    BY <1>3, <2>2, SamePrefix
  <2>6. latest > 0 =>
            /\ PlanMirrored(events, org, latest - 1) => PlanMirrored(events', org, latest - 1)
            /\ AddonMirrored(events, addon, latest - 1) => AddonMirrored(events', addon, latest - 1)
    BY <2>3, SamePrefix
  <2>7. Follows => Follows'
    BY <1>2, <1>3, <2>4, <2>5, <2>6 DEF Follows
  <2> QED
    BY <1>2, <2>1, <2>7 DEF BillInv, Orderly
<1> QED
  BY <1>5, <1>6, <1>7

LEMMA StripeTellsBills ==
    ASSUME BillInv, \/ \E k \in Packs : BuyPack(k)
                    \/ \E s \in Subs : Subscribe(s) \/ Bill(s)
    PROVE  StripeSays' /\ PacksBooked' /\ InvoicesBooked' /\ Orderly'
<1>0. Inv /\ Len(events) \in Nat /\ StripeSays /\ atStripe \in [Subs -> StripeStates]
  BY EventFacts DEF BillInv, Inv, Control
<1>1. ASSUME NEW k \in Packs, BuyPack(k) PROVE StripeSays' /\ PacksBooked' /\ InvoicesBooked' /\ Orderly'
  <2>1. atStripe' = atStripe /\ \E paid \in BOOLEAN : Tell(<<Event("pacote", k, paid)>>)
    BY <1>1 DEF BuyPack
  <2>2. PICK paid \in BOOLEAN : Tell(<<Event("pacote", k, paid)>>)
    BY <2>1
  <2> DEFINE e == Event("pacote", k, paid)
  <2>3. e \in Events /\ e.type = "pacote" /\ e.ref = k /\ <<e>> \in Seq(Events)
    BY EventTypes DEF Types, Event
  <2> HIDE DEF e
  <2>4. Longer(events, events', e) /\ Tell(<<e>>)
    BY <1>0, <2>2, <2>3, TellOne DEF e
  <2>5. \A s \in Subs : ~Speaks(e, s)
    BY <2>3, KindsAssumption DEF Speaks, Subs
  <2>6. \A s \in Subs : StateTold(events', s, atStripe'[s])
    BY <1>0, <2>1, <2>4, <2>5, OneTold DEF StripeSays
  <2>7. FailsWhileOn(events')
    <3>1. ASSUME NEW n \in 1..Len(events'), events'[n].type = "falhou"
          PROVE  \E i \in 1..n - 1 : LastWord(events', i, events'[n].ref, n - 1)
                                     /\ events'[i].type # "cancelada"
      <4>1. n \in 1..Len(events) /\ n - 1 \in Nat /\ events'[n] = events[n]
        BY <1>0, <2>3, <2>4, <3>1 DEF Longer
      <4>2. \A i \in 1..n - 1 : i \in 1..Len(events) /\ events'[i] = events[i]
        BY <1>0, <2>4, <4>1 DEF Longer
      <4>3. \A i, s : LastWord(events', i, s, n - 1) <=> LastWord(events, i, s, n - 1)
        BY <4>1, <4>2, SamePrefix
      <4> QED
        BY <1>0, <3>1, <4>1, <4>2, <4>3 DEF StripeSays, FailsWhileOn
    <3> QED
      BY <3>1 DEF FailsWhileOn
  <2> QED
    BY <2>3, <2>4, <2>6, <2>7, TellKeepsBooks DEF StripeSays
<1>2. ASSUME NEW s \in Subs, Subscribe(s) PROVE StripeSays' /\ PacksBooked' /\ InvoicesBooked' /\ Orderly'
  <2> DEFINE session == Event("checkout", s, TRUE)
             invoice == Event("pago", s, TRUE)
             slip == Event("checkout", s, FALSE)
  <2>1. session \in Events /\ invoice \in Events /\ slip \in Events
    BY EventTypes DEF Types
  <2>2. /\ session.ref = s /\ invoice.ref = s /\ slip.ref = s
        /\ session.type # "falhou" /\ invoice.type # "falhou" /\ slip.type # "falhou"
        /\ Speaks(session, s) /\ Speaks(invoice, s) /\ ~Speaks(slip, s)
        /\ StandsAs(session) = "active" /\ StandsAs(invoice) = "active"
    BY DEF Event, Speaks, StandsAs
  <2>3. \/ /\ Tell(<<session, invoice>>) \/ Tell(<<invoice, session>>)
           /\ atStripe' = [atStripe EXCEPT ![s] = "active"]
        \/ /\ atStripe[s] \in Quiets /\ Tell(<<slip>>)
           /\ atStripe' = [atStripe EXCEPT ![s] = "pendente"]
    BY <1>2 DEF Subscribe, Quiets
  <2> HIDE DEF session, invoice, slip
  <2>4. /\ <<session, invoice>> \in Seq(Events) /\ <<invoice, session>> \in Seq(Events)
        /\ <<slip>> \in Seq(Events)
    BY <2>1
  <2>5. \A d \in Events : d.ref = s => \A t \in Subs : t # s => ~Speaks(d, t)
    BY DEF Speaks
  <2>6. ASSUME NEW d \in Events, NEW e \in Events, Tell(<<d, e>>), <<d, e>> \in Seq(Events),
               d.ref = s, e.ref = s, d.type # "falhou", e.type # "falhou",
               Speaks(d, s), Speaks(e, s), StandsAs(d) = "active", StandsAs(e) = "active",
               atStripe' = [atStripe EXCEPT ![s] = "active"]
        PROVE  StripeSays' /\ PacksBooked' /\ InvoicesBooked' /\ Orderly'
    <3>1. PICK es : Len(es) \in Nat /\ Longer(events, es, d) /\ Longer(es, events', e)
      BY <1>0, <2>6, TellTwo
    <3>2. ASSUME NEW t \in Subs PROVE StateTold(es, t, atStripe'[t]) /\ StateTold(events', t, atStripe'[t])
      <4>1. atStripe'[t] = IF t = s THEN "active" ELSE atStripe[t]
        BY <1>0, <2>6
      <4>2. StateTold(events, t, atStripe[t])
        BY <1>0 DEF StripeSays
      <4>3. StateTold(es, t, atStripe'[t])
        BY <1>0, <2>5, <2>6, <3>1, <4>1, <4>2, OneTold
      <4> QED
        BY <2>5, <2>6, <3>1, <4>1, <4>3, OneTold
    <3>3. FailsWhileOn(es)
      BY <1>0, <2>6, <3>1, OneFails DEF StripeSays
    <3>4. FailsWhileOn(events')
      BY <2>6, <3>1, <3>2, <3>3, OneFails
    <3> QED
      BY <2>6, <3>2, <3>4, TellKeepsBooks DEF StripeSays
  <2>7. ASSUME atStripe[s] \in Quiets, Tell(<<slip>>), atStripe' = [atStripe EXCEPT ![s] = "pendente"]
        PROVE  StripeSays' /\ PacksBooked' /\ InvoicesBooked' /\ Orderly'
    <3>1. Longer(events, events', slip)
      BY <1>0, <2>1, <2>7, TellOne
    <3>2. ASSUME NEW t \in Subs PROVE StateTold(events', t, atStripe'[t])
      <4>1. atStripe'[t] = IF t = s THEN "pendente" ELSE atStripe[t]
        BY <1>0, <2>7
      <4>2. StateTold(events, t, atStripe[t])
        BY <1>0 DEF StripeSays
      <4>3. "pendente" \in Quiets
        BY DEF Quiets
      <4> QED
        BY <1>0, <2>1, <2>2, <2>5, <2>7, <3>1, <4>1, <4>2, <4>3, OneTold
    <3>3. FailsWhileOn(events')
      BY <1>0, <2>2, <3>1, OneFails DEF StripeSays
    <3> QED
      BY <2>4, <2>7, <3>2, <3>3, TellKeepsBooks DEF StripeSays
  <2> QED
    BY <2>1, <2>2, <2>3, <2>4, <2>6, <2>7
<1>3. ASSUME NEW s \in Subs, Bill(s) PROVE StripeSays' /\ PacksBooked' /\ InvoicesBooked' /\ Orderly'
  <2>1. PICK t \in {"pago", "falhou", "cancelada"}, paid \in BOOLEAN :
            /\ Tell(<<Event(t, s, paid)>>)
            /\ atStripe' = [atStripe EXCEPT ![s] = StandsAs(Event(t, s, paid))]
    BY <1>3 DEF Bill, StandsAs, Event
  <2> DEFINE e == Event(t, s, paid)
  <2>2. e \in Events /\ e.ref = s /\ Speaks(e, s) /\ <<e>> \in Seq(Events)
    BY EventTypes DEF Types, Event, Speaks
  <2>3. \A r \in Subs : r # s => ~Speaks(e, r)
    BY <2>2 DEF Speaks
  <2> HIDE DEF e
  <2>4. Longer(events, events', e) /\ Tell(<<e>>) /\ atStripe' = [atStripe EXCEPT ![s] = StandsAs(e)]
    BY <1>0, <2>1, <2>2, TellOne DEF e
  <2>5. ASSUME NEW r \in Subs PROVE StateTold(events', r, atStripe'[r])
    <3>1. atStripe'[r] = IF r = s THEN StandsAs(e) ELSE atStripe[r]
      BY <1>0, <2>4
    <3>2. StateTold(events, r, atStripe[r])
      BY <1>0 DEF StripeSays
    <3> QED
      BY <1>0, <2>2, <2>3, <2>4, <3>1, <3>2, OneTold
  <2>6. FailsWhileOn(events')
    <3>1. atStripe[s] \in {"active", "past_due"} /\ StateTold(events, s, atStripe[s])
      BY <1>0, <1>3 DEF Bill, StripeSays
    <3> QED
      BY <1>0, <2>2, <2>4, <3>1, OneFails DEF StripeSays
  <2> QED
    BY <2>2, <2>4, <2>5, <2>6, TellKeepsBooks DEF StripeSays
<1> QED
  BY <1>1, <1>2, <1>3

-----------------------------------------------------------------------------
(***************************************************************************)
(* A handler, while events are handled one at a time and in order.         *)
(***************************************************************************)
LEMMA TheLatest ==
    ASSUME BillInv, ~disordered, NEW w \in Workers, pc[w] # "idle"
    PROVE  /\ latest \in 1..Len(events) /\ latest \in Nat /\ latest > 0
           /\ job[w] = latest /\ Ref(w) = events[latest].ref
           /\ OneAtATime /\ Follows
           /\ org \in Rows /\ org.sub \in Plans \cup {None} /\ addon.sub \in Addons \cup {None}
           /\ pc[w] # "book" => copy[w] = org
           /\ PlanMirrored(events, org, latest - 1) \/ PlanMirrored(events, org, latest)
           /\ AddonMirrored(events, addon, latest - 1) \/ AddonMirrored(events, addon, latest)
<1>1. OneAtATime /\ Follows
  BY DEF BillInv, Orderly
<1>2. job[w] = latest /\ (pc[w] # "book" => copy[w] = org)
  BY <1>1 DEF OneAtATime
<1>3. latest \in 1..Len(events) /\ latest \in Nat /\ latest > 0
  BY <1>2, Job, EventFacts DEF BillInv
<1>4. org \in Rows /\ org.sub \in Plans \cup {None} /\ addon.sub \in Addons \cup {None}
  BY DEF BillInv, Inv, RowTypes, Rows
<1>5. /\ PlanMirrored(events, org, latest - 1) \/ PlanMirrored(events, org, latest)
      /\ AddonMirrored(events, addon, latest - 1) \/ AddonMirrored(events, addon, latest)
  BY <1>1 DEF Follows
<1> QED
  BY <1>1, <1>2, <1>3, <1>4, <1>5 DEF Ref

\* An event that says nothing of what the office has.
LEMMA Untold ==
    ASSUME BillInv, ~disordered, NEW w \in Workers, pc[w] # "idle"
    PROVE  /\ ~Opens(events[latest], Plans) /\ ~Speaks(events[latest], org.sub) =>
                  PlanMirrored(events, org, latest)
           /\ ~Opens(events[latest], Addons) /\ ~Speaks(events[latest], addon.sub) =>
                  AddonMirrored(events, addon, latest)
  BY TheLatest, PlanUntold, AddonUntold

\* The subscription an invoice bills, if the office has it when the invoice comes.
LEMMA KnownIsOn ==
    ASSUME BillInv, NEW w \in Workers, pc[w] # "idle", Known(job[w]), events[job[w]].type = "pago"
    PROVE  Ref(w) = org.sub \/ Ref(w) = addon.sub
<1>1. ~disordered
  BY DEF Known
<1>2. job[w] = latest /\ Ref(w) = events[latest].ref /\ latest \in 1..Len(events) /\ latest > 0
      /\ latest \in Nat
  BY <1>1, TheLatest
<1>3. PICK j \in 1..latest - 1 : /\ events[j] = Event("checkout", Ref(w), TRUE)
                                 /\ \A m \in j + 1..latest - 1 : events[m].type # "checkout"
  BY <1>2 DEF Known
<1>4. events[j].type = "checkout" /\ events[j].paid /\ events[j].ref = Ref(w)
  BY <1>3 DEF Event
<1>5. ASSUME NEW subs, Ref(w) \in subs
      PROVE  LastOpened(events, Ref(w), subs, latest - 1) /\ LastOpened(events, Ref(w), subs, latest)
  <2>1. Opens(events[j], subs) /\ \A m \in j + 1..latest - 1 : ~Opens(events[m], subs)
    BY <1>3, <1>4, <1>5 DEF Opens
  <2>2. LastOpened(events, Ref(w), subs, latest - 1)
    BY <1>3, <1>4, <2>1 DEF LastOpened
  <2>3. ~Opens(events[latest], subs)
    BY <1>2 DEF Opens
  <2> QED
    BY <1>2, <2>2, <2>3, OneMoreOpened
<1>6. CASE Ref(w) \in Plans
  BY <1>1, <1>5, <1>6, TheLatest DEF PlanMirrored
<1>7. CASE Ref(w) \in Addons
  BY <1>1, <1>5, <1>7, TheLatest DEF AddonMirrored
<1> QED
  BY <1>2, <1>6, <1>7, EventFacts DEF BillInv

\* A handler that ends: the books.
LEMMA EndsPacks ==
    ASSUME BillInv, NEW w \in Workers, pc[w] # "idle", End(w), events' = events, lots' = lots,
           book \subseteq book', crashes' \in Nat, crashes' >= crashes,
           pc[w] = "book" => Ref(w) \in book' \/ crashes' > 0,
           acked' = acked \/ acked' = acked \cup {job[w]},
           acked' # acked /\ events[job[w]].type = "pacote" /\ events[job[w]].paid => lots[Ref(w)] = 1
    PROVE  PacksBooked'
<1>1. /\ pc' = [pc EXCEPT ![w] = "idle"] /\ job' = [job EXCEPT ![w] = 0]
      /\ pc \in [Workers -> PcValues] /\ job \in [Workers -> 0..Len(events)] /\ crashes \in Nat
  BY BoundsAssumption DEF End, Goto, BillInv, Inv, Control
<1>2. \A v \in Workers : pc'[v] # "idle" => v # w /\ pc'[v] = pc[v] /\ Ref(v)' = Ref(v) /\ job'[v] = job[v]
  BY <1>1 DEF Ref
<1>3. ASSUME NEW k \in Packs, lots[k] = 1
      PROVE  k \in book' \/ crashes' > 0 \/ \E v \in Workers : pc'[v] = "book" /\ Ref(v)' = k
  <2>1. CASE k \in book \/ crashes > 0
    BY <1>1, <2>1
  <2>2. CASE \E v \in Workers : pc[v] = "book" /\ Ref(v) = k
    <3>1. PICK v \in Workers : pc[v] = "book" /\ Ref(v) = k
      BY <2>2
    <3>2. CASE v = w
      BY <3>1, <3>2
    <3>3. CASE v # w
      <4>1. pc'[v] = "book" /\ Ref(v)' = k
        BY <1>1, <3>1, <3>3 DEF Ref
      <4> QED
        BY <4>1
    <3> QED
      BY <3>2, <3>3
  <2> QED
    BY <1>3, <2>1, <2>2 DEF BillInv, PacksBooked
<1>4. \A v \in Workers : pc'[v] = "book" => lots'[Ref(v)'] = 1
  BY <1>2 DEF BillInv, PacksBooked
<1>5. \A v \in Workers : pc'[v] = "save" => events'[job'[v]].type = "pago"
  BY <1>2 DEF BillInv, PacksBooked
<1>6. \A i \in acked' : events'[i].type = "pacote" /\ events'[i].paid => lots'[events'[i].ref] = 1
  BY DEF BillInv, PacksBooked, Ref
<1> QED
  BY <1>3, <1>4, <1>5, <1>6 DEF PacksBooked

LEMMA EndsInvoices ==
    ASSUME BillInv, events' = events, disordered => disordered', book \subseteq book',
           NEW i, acked' = acked \/ acked' = acked \cup {i},
           acked' # acked /\ i \in Invoices /\ Known(i) => i \in book'
    PROVE  InvoicesBooked'
<1>1. \A j : Known(j)' => Known(j)
  BY DEF Known, Event
<1>2. Invoices' = Invoices
  BY DEF Invoices
<1> QED
  BY <1>1, <1>2 DEF BillInv, InvoicesBooked

LEMMA EndsOrderly ==
    ASSUME BillInv, NEW w \in Workers, pc[w] # "idle", End(w), OnlyRows,
           acked' = acked \/ acked' = acked \cup {job[w]},
           ~disordered =>
               \/ PlanMirrored(events, org', latest) /\ AddonMirrored(events, addon', latest)
               \/ UNCHANGED <<acked, org, addon>>
    PROVE  Orderly'
<1> SUFFICES ASSUME ~disordered PROVE OneAtATime' /\ Follows'
  BY DEF Orderly, OnlyRows, history
<1>1. events' = events /\ latest' = latest
  BY DEF OnlyRows, stripe, history
<1>2. /\ job[w] = latest /\ latest \in 1..latest /\ OneAtATime /\ Follows
      /\ \A v \in Workers : v # w => pc[v] = "idle"
  BY TheLatest DEF OneAtATime
<1>3. \A v \in Workers : pc'[v] = "idle"
  BY <1>2 DEF End, Goto, BillInv, Inv, Control
<1>4. 1..latest - 1 \subseteq acked' /\ acked' \subseteq 1..latest
  BY <1>2 DEF OneAtATime
<1>5. OneAtATime'
  BY <1>1, <1>3, <1>4 DEF OneAtATime
<1>6. Follows'
  BY <1>1, <1>2 DEF Follows
<1> QED
  BY <1>5, <1>6

LEMMA SaysSame ==
    ASSUME StripeSays, events' = events, atStripe' = atStripe
    PROVE  StripeSays'
  BY DEF StripeSays

\* A handler that answers: what it must have done by then.
LEMMA Answers ==
    ASSUME BillInv, Inv', NEW w \in Workers, pc[w] # "idle", Respond(w), OnlyRows,
           lots' = lots, book \subseteq book',
           pc[w] = "book" => Ref(w) \in book',
           events[job[w]].type = "pacote" /\ events[job[w]].paid => lots[Ref(w)] = 1,
           events[job[w]].type = "pago" /\ Known(job[w]) => job[w] \in book',
           ~disordered => PlanMirrored(events, org', latest) /\ AddonMirrored(events, addon', latest)
    PROVE  BillInv'
<1>1. events' = events /\ atStripe' = atStripe /\ disordered' = disordered
  BY DEF OnlyRows, stripe, history
<1>2. End(w) /\ (acked' = acked \/ acked' = acked \cup {job[w]})
  BY DEF Respond
<1>3. crashes' \in Nat /\ crashes' >= crashes
  BY BoundsAssumption DEF Respond, BillInv, Inv, Control
<1>4. StripeSays'
  BY <1>1, SaysSame DEF BillInv
<1>5. PacksBooked'
  BY <1>1, <1>2, <1>3, EndsPacks
<1>6. InvoicesBooked'
  BY <1>1, <1>2, EndsInvoices DEF Invoices
<1>7. Orderly'
  BY <1>2, EndsOrderly
<1> QED
  BY <1>4, <1>5, <1>6, <1>7 DEF BillInv

-----------------------------------------------------------------------------
(***************************************************************************)
(* The actions.                                                            *)
(***************************************************************************)
LEMMA ReceiveBills ==
    ASSUME BillInv, Inv', NEW w \in Workers, NEW i \in 1..Len(events), Receive(w, i)
    PROVE  BillInv'
<1>1. /\ events' = events /\ atStripe' = atStripe /\ pc[w] = "idle"
      /\ acked' = acked /\ crashes' = crashes /\ org' = org /\ addon' = addon /\ lots' = lots /\ book' = book
      /\ pc' = [pc EXCEPT ![w] = "handle"] /\ job' = [job EXCEPT ![w] = i]
      /\ copy' = [copy EXCEPT ![w] = org]
  BY DEF Receive, stripe, Goto, rows
<1>2. /\ pc \in [Workers -> PcValues] /\ job \in [Workers -> 0..Len(events)]
      /\ copy \in [Workers -> Rows] /\ latest \in Nat /\ Len(events) \in Nat
  BY EventFacts DEF BillInv, Inv, Control
<1>3. pc'[w] = "handle" /\ job'[w] = i /\ copy'[w] = org
  BY <1>1, <1>2
<1>4. \A v \in Workers : v # w => pc'[v] = pc[v] /\ job'[v] = job[v] /\ Ref(v)' = Ref(v)
  BY <1>1, <1>2 DEF Ref
<1>5. PacksBooked'
  <2>1. ASSUME NEW k \in Packs, lots[k] = 1
        PROVE  k \in book \/ crashes > 0 \/ \E v \in Workers : pc'[v] = "book" /\ Ref(v)' = k
    <3>1. CASE \E v \in Workers : pc[v] = "book" /\ Ref(v) = k
      <4>1. PICK v \in Workers : pc[v] = "book" /\ Ref(v) = k
        BY <3>1
      <4>2. pc'[v] = "book" /\ Ref(v)' = k
        BY <1>1, <1>4, <4>1
      <4> QED
        BY <4>2
    <3> QED
      BY <2>1, <3>1 DEF BillInv, PacksBooked
  <2>2. \A v \in Workers : pc'[v] = "book" => lots[Ref(v)'] = 1
    BY <1>3, <1>4 DEF BillInv, PacksBooked
  <2>3. \A v \in Workers : pc'[v] = "save" => events[job'[v]].type = "pago"
    BY <1>3, <1>4 DEF BillInv, PacksBooked
  <2> QED
    BY <1>1, <2>1, <2>2, <2>3 DEF BillInv, PacksBooked
<1>6. InvoicesBooked'
  BY <1>1, EndsInvoices DEF Receive
<1>7. ASSUME ~disordered' PROVE OneAtATime' /\ Follows'
  <2>1. /\ ~disordered /\ i >= latest /\ 1..i - 1 \subseteq acked
        /\ \A v \in Workers : pc[v] = "idle"
    BY <1>2, <1>7 DEF Receive
  <2>2. latest' = i
    BY <1>2, <2>1 DEF Receive
  <2>3. OneAtATime /\ Follows /\ acked \subseteq 1..latest
    BY <2>1 DEF BillInv, Orderly, OneAtATime
  <2>4. i = latest \/ (i = latest + 1 /\ (latest > 0 => latest \in acked))
    <3>1. CASE i > latest + 1
      <4>1. latest + 1 \in 1..i - 1
        BY <1>2, <3>1
      <4> QED
        BY <1>2, <2>1, <2>3, <4>1
    <3>2. CASE i = latest + 1
      BY <1>2, <2>1, <3>2
    <3> QED
      BY <1>2, <2>1, <3>1, <3>2
  <2>5. OneAtATime'
    <3>1. acked \subseteq 1..i
      BY <1>2, <2>1, <2>3
    <3> QED
      BY <1>1, <1>3, <1>4, <2>1, <2>2, <3>1 DEF OneAtATime
  <2>6. CASE i = latest
    BY <1>1, <2>2, <2>3, <2>5, <2>6 DEF Follows
  <2>7. CASE i = latest + 1
    <3>1. PlanMirrored(events, org, latest) /\ AddonMirrored(events, addon, latest)
      BY <1>2, <2>3, <2>4, <2>7, NothingTold DEF Follows
    <3>2. latest = i - 1 /\ i \notin acked
      BY <1>2, <2>3, <2>7
    <3> QED
      BY <1>1, <2>2, <2>5, <3>1, <3>2 DEF Follows
  <2> QED
    BY <2>4, <2>5, <2>6, <2>7
<1> QED
  BY <1>1, <1>5, <1>6, <1>7, SaysSame DEF BillInv, Orderly

\* A handler dies: what it wrote stays, and its event was not answered.
LEMMA CrashBills ==
    ASSUME BillInv, Inv', NEW w \in Workers, Crash(w)
    PROVE  BillInv'
<1>1. /\ pc[w] # "idle" /\ End(w) /\ OnlyRows /\ UNCHANGED <<acked, org, addon, lots, book>>
      /\ crashes' = crashes + 1 /\ crashes \in Nat
      /\ events' = events /\ atStripe' = atStripe /\ disordered' = disordered
  BY BoundsAssumption DEF Crash, OnlyRows, stripe, history, rows, BillInv, Inv, Control
<1>2. crashes' \in Nat /\ crashes' >= crashes /\ crashes' > 0
  BY <1>1
<1>3. PacksBooked' /\ InvoicesBooked' /\ Orderly'
  BY <1>1, <1>2, EndsPacks, EndsInvoices, EndsOrderly
<1> QED
  BY <1>1, <1>3, SaysSame DEF BillInv

\* The event a handler has is of the type it was written for.
LEMMA AtThisPoint ==
    ASSUME BillInv, NEW w \in Workers, pc[w] # "idle"
    PROVE  /\ job[w] \in 1..Len(events) /\ events[job[w]].ref = Ref(w)
           /\ events[job[w]].paid \in BOOLEAN
           /\ pc[w] = "book" => events[job[w]].type = "pacote" /\ lots[Ref(w)] = 1
           /\ pc[w] = "save" => events[job[w]].type = "pago"
           /\ events[job[w]].type = "pacote" => Ref(w) \in Packs
           /\ events[job[w]].type # "pacote" => Ref(w) \in Subs
           /\ Ref(w) # None
<1>1. job[w] \in 1..Len(events) /\ (events[job[w]].type = "pacote" <=> Ref(w) \in Packs) /\ Ref(w) # None
  BY Job DEF BillInv
<1>2. pc[w] = "book" => Ref(w) \in Packs /\ lots[Ref(w)] = 1
  BY DEF BillInv, Inv, InHand, PacksBooked
<1>3. pc[w] = "save" => events[job[w]].type = "pago"
  BY DEF BillInv, PacksBooked
<1> QED
  BY <1>1, <1>2, <1>3, EventFacts DEF Ref, BillInv

\* What is said of a pack, or by a session that was not paid, is said of no subscription.
LEMMA SaidOfNone ==
    ASSUME BillInv, ~disordered, NEW w \in Workers, pc[w] # "idle",
           events[job[w]].type = "pacote" \/ (events[job[w]].type = "checkout" /\ ~Paid(w))
    PROVE  PlanMirrored(events, org, latest) /\ AddonMirrored(events, addon, latest)
<1>1. /\ job[w] = latest /\ Ref(w) = events[latest].ref
      /\ org.sub \in Plans \cup {None} /\ addon.sub \in Addons \cup {None}
  BY TheLatest
<1>2. /\ ~Opens(events[latest], Plans) /\ ~Opens(events[latest], Addons)
      /\ ~Speaks(events[latest], org.sub) /\ ~Speaks(events[latest], addon.sub)
  <2>1. CASE events[job[w]].type = "pacote"
    BY <1>1, <2>1, AtThisPoint, KindsAssumption DEF Opens, Speaks
  <2>2. CASE events[job[w]].type = "checkout" /\ ~Paid(w)
    BY <1>1, <2>2 DEF Opens, Speaks, Paid
  <2> QED
    BY <2>1, <2>2
<1> QED
  BY <1>2, Untold

LEMMA PackBills ==
    ASSUME BillInv, Inv', NEW w \in Workers, AddPack(w) \/ BookPack(w)
    PROVE  BillInv'
<1>1. CASE BookPack(w)
  <2>1. /\ pc[w] = "book" /\ Respond(w) /\ OnlyRows /\ UNCHANGED <<org, addon, lots>>
        /\ book' = book \cup {Ref(w)}
    BY <1>1 DEF BookPack
  <2>2. events[job[w]].type = "pacote" /\ lots[Ref(w)] = 1
    BY <2>1, AtThisPoint
  <2>3. ~disordered => PlanMirrored(events, org', latest) /\ AddonMirrored(events, addon', latest)
    BY <2>1, <2>2, SaidOfNone
  <2> QED
    BY <2>1, <2>2, <2>3, Answers
<1>2. ASSUME AddPack(w)
      PROVE  /\ pc[w] = "handle" /\ events[job[w]].type = "pacote" /\ OnlyRows
             /\ UNCHANGED <<org, addon, book>> /\ Ref(w) \in Packs
  BY <1>2, AtThisPoint DEF AddPack, Handles
<1>3. CASE AddPack(w) /\ ~Creates(w)
  <2>1. Respond(w) /\ lots' = lots
    BY <1>2, <1>3 DEF AddPack, BillInv, Inv, RowTypes
  <2>2. lots[Ref(w)] = 1
    <3>1. \A k \in Packs : lots[k] \in Nat /\ lots[k] <= 1
      BY DEF BillInv, Inv, RowTypes, OnlyWhatWasPaid
    <3>2. lots[Ref(w)] # 0 /\ Ref(w) \in Packs
      BY <1>2, <1>3 DEF Creates
    <3> QED
      BY <3>1, <3>2
  <2>3. ~disordered => PlanMirrored(events, org', latest) /\ AddonMirrored(events, addon', latest)
    BY <1>2, <1>3, SaidOfNone
  <2> QED
    BY <1>2, <1>3, <2>1, <2>2, <2>3, Answers
<1>4. CASE AddPack(w) /\ Creates(w)
  <2>1. /\ pc' = [pc EXCEPT ![w] = "book"] /\ UNCHANGED <<acked, job, copy, crashes, org, addon, book>>
        /\ lots[Ref(w)] = 0 /\ lots' = [lots EXCEPT ![Ref(w)] = 1]
        /\ UNCHANGED <<events, atStripe, latest, disordered>>
    BY <1>2, <1>4 DEF AddPack, Creates, Goto, MidHandler, OnlyRows, stripe, history
  <2>2. /\ pc \in [Workers -> PcValues] /\ lots \in [Packs -> Nat] /\ acked \subseteq 1..Len(events)
    BY DEF BillInv, Inv, Control, RowTypes
  <2>3. /\ pc'[w] = "book" /\ \A v \in Workers : v # w => pc'[v] = pc[v]
        /\ \A v \in Workers : Ref(v)' = Ref(v)
        /\ lots'[Ref(w)] = 1 /\ \A k \in Packs : k # Ref(w) => lots'[k] = lots[k]
    BY <1>2, <1>4, <2>1, <2>2 DEF Ref
  <2>4. PacksBooked'
    <3>1. ASSUME NEW k \in Packs, lots'[k] = 1
          PROVE  k \in book \/ crashes > 0 \/ \E v \in Workers : pc'[v] = "book" /\ Ref(v)' = k
      <4>1. CASE k = Ref(w)
        BY <2>3, <4>1
      <4>2. CASE k # Ref(w) /\ \E v \in Workers : pc[v] = "book" /\ Ref(v) = k
        <5>1. PICK v \in Workers : pc[v] = "book" /\ Ref(v) = k
          BY <4>2
        <5>2. pc'[v] = "book" /\ Ref(v)' = k
          BY <2>3, <4>2, <5>1
        <5> QED
          BY <5>2
      <4> QED
        BY <2>3, <3>1, <4>1, <4>2 DEF BillInv, PacksBooked
    <3>2. ASSUME NEW v \in Workers, pc'[v] = "book" PROVE lots'[Ref(v)'] = 1
      <4>1. CASE v # w
        <5>1. pc[v] = "book" /\ lots[Ref(v)] = 1 /\ Ref(v) \in Packs
          BY <2>3, <3>2, <4>1, AtThisPoint
        <5> QED
          BY <2>1, <2>3, <5>1
      <4> QED
        BY <2>3, <4>1
    <3>3. \A v \in Workers : pc'[v] = "save" => events[job[v]].type = "pago"
      BY <2>3 DEF BillInv, PacksBooked
    <3>4. ASSUME NEW i \in acked, events[i].type = "pacote", events[i].paid
          PROVE  lots'[events[i].ref] = 1
      <4>1. lots[events[i].ref] = 1
        BY <3>4 DEF BillInv, PacksBooked
      <4>2. events[i].ref \in Packs
        BY <2>2, <3>4, EventFacts DEF BillInv
      <4> QED
        BY <2>1, <2>3, <4>1, <4>2
    <3> QED
      BY <2>1, <3>1, <3>2, <3>3, <3>4 DEF PacksBooked
  <2>5. InvoicesBooked'
    BY <2>1, EndsInvoices
  <2>6. ASSUME ~disordered PROVE OneAtATime' /\ Follows'
    <3>1. OneAtATime /\ Follows /\ job[w] = latest /\ pc[w] = "handle"
      BY <1>2, <1>4, <2>6, TheLatest
    <3>2. \A v \in Workers : v # w => pc[v] = "idle"
      BY <3>1 DEF OneAtATime
    <3>3. OneAtATime'
      BY <2>1, <2>3, <3>1, <3>2 DEF OneAtATime
    <3>4. Follows'
      BY <2>1, <3>1 DEF Follows
    <3> QED
      BY <3>3, <3>4
  <2> QED
    BY <2>1, <2>4, <2>5, <2>6, SaysSame DEF BillInv, Orderly
<1> QED
  BY <1>1, <1>3, <1>4

LEMMA ActivateBills ==
    ASSUME BillInv, Inv', NEW w \in Workers, ActivateAddon(w) \/ ActivatePlan(w)
    PROVE  BillInv'
<1>1. /\ pc[w] = "handle" /\ Respond(w) /\ OnlyRows /\ UNCHANGED <<lots, book>>
      /\ events[job[w]].type = "checkout" /\ Paid(w)
  BY DEF ActivateAddon, ActivatePlan, Handles
<1>2. ASSUME ~disordered
      PROVE  PlanMirrored(events, org', latest) /\ AddonMirrored(events, addon', latest)
  <2>1. /\ job[w] = latest /\ Ref(w) = events[latest].ref /\ latest \in Nat /\ latest > 0
        /\ org.sub \in Plans \cup {None} /\ addon.sub \in Addons \cup {None}
        /\ events[latest].type = "checkout" /\ events[latest].paid
    BY <1>1, <1>2, TheLatest DEF Paid
  <2>2. CASE ActivateAddon(w)
    <3>1. org' = org /\ addon' = [active |-> TRUE, sub |-> Ref(w)] /\ Ref(w) \in Addons
      BY <2>2 DEF ActivateAddon
    <3>2. /\ Opens(events[latest], Addons) /\ ~Opens(events[latest], Plans)
          /\ ~Speaks(events[latest], org.sub)
      BY <2>1, <3>1, KindsAssumption DEF Opens, Speaks
    <3>3. addon'.sub = events[latest].ref /\ addon'.active = TRUE
      BY <2>1, <3>1
    <3> QED
      BY <1>1, <1>2, <2>1, <3>1, <3>2, <3>3, AddonOpened, Untold
  <2>3. CASE ActivatePlan(w)
    <3>1. addon' = addon /\ org' = [status |-> "active", sub |-> Ref(w), since |-> 0] /\ Ref(w) \in Plans
      BY <2>3 DEF ActivatePlan, IsPlan
    <3>2. /\ Opens(events[latest], Plans) /\ ~Opens(events[latest], Addons)
          /\ ~Speaks(events[latest], addon.sub)
      BY <2>1, <3>1, KindsAssumption DEF Opens, Speaks
    <3>3. org'.sub = events[latest].ref /\ org'.status = "active" /\ org'.since = 0
      BY <2>1, <3>1
    <3> QED
      BY <1>1, <1>2, <2>1, <3>1, <3>2, <3>3, PlanOpened, Untold
  <2> QED
    BY <2>2, <2>3
<1> QED
  BY <1>1, <1>2, Answers

\* An event of the subscription the office has, which is not the session that opened it.
LEMMA SaidOfPlan ==
    ASSUME BillInv, ~disordered, NEW w \in Workers, pc[w] # "idle",
           events[job[w]].type \in {"pago", "falhou", "cancelada"}, org.sub = Ref(w),
           NEW o, o.sub = org.sub, o.status = StandsAs(events[job[w]]),
           o.since > 0 => StandsAs(events[job[w]]) # "active"
    PROVE  PlanMirrored(events, o, latest) /\ AddonMirrored(events, addon, latest)
<1>1. /\ job[w] = latest /\ Ref(w) = events[latest].ref /\ latest \in Nat /\ latest > 0
      /\ org.sub \in Plans \cup {None} /\ addon.sub \in Addons \cup {None}
      /\ PlanMirrored(events, org, latest - 1) \/ PlanMirrored(events, org, latest)
  BY TheLatest
<1>2. Ref(w) # None
  BY AtThisPoint
<1>3. /\ ~Opens(events[latest], Plans) /\ Speaks(events[latest], org.sub)
      /\ ~Opens(events[latest], Addons) /\ ~Speaks(events[latest], addon.sub)
  BY <1>1, <1>2, KindsAssumption DEF Opens, Speaks
<1> QED
  BY <1>1, <1>3, PlanTold, Untold

LEMMA SaidOfAddon ==
    ASSUME BillInv, ~disordered, NEW w \in Workers, pc[w] # "idle",
           events[job[w]].type \in {"pago", "falhou", "cancelada"}, addon.sub = Ref(w),
           NEW a, a.sub = addon.sub, a.active = (events[job[w]].type # "cancelada")
    PROVE  PlanMirrored(events, org, latest) /\ AddonMirrored(events, a, latest)
<1>1. /\ job[w] = latest /\ Ref(w) = events[latest].ref /\ latest \in Nat /\ latest > 0
      /\ org.sub \in Plans \cup {None} /\ addon.sub \in Addons \cup {None}
      /\ AddonMirrored(events, addon, latest - 1) \/ AddonMirrored(events, addon, latest)
  BY TheLatest
<1>2. Ref(w) # None
  BY AtThisPoint
<1>3. /\ ~Opens(events[latest], Addons) /\ Speaks(events[latest], addon.sub)
      /\ ~Opens(events[latest], Plans) /\ ~Speaks(events[latest], org.sub)
  BY <1>1, <1>2, KindsAssumption DEF Opens, Speaks
<1> QED
  BY <1>1, <1>3, AddonTold, Untold

LEMMA SaidOfOther ==
    ASSUME BillInv, ~disordered, NEW w \in Workers, pc[w] # "idle",
           events[job[w]].type \in {"pago", "falhou", "cancelada"}, org.sub # Ref(w), addon.sub # Ref(w)
    PROVE  PlanMirrored(events, org, latest) /\ AddonMirrored(events, addon, latest)
<1>1. job[w] = latest /\ Ref(w) = events[latest].ref
  BY TheLatest
<1>2. /\ ~Opens(events[latest], Addons) /\ ~Speaks(events[latest], addon.sub)
      /\ ~Opens(events[latest], Plans) /\ ~Speaks(events[latest], org.sub)
  BY <1>1 DEF Opens, Speaks
<1> QED
  BY <1>2, Untold

LEMMA BookInvoiceBills ==
    ASSUME BillInv, Inv', NEW w \in Workers, BookInvoice(w)
    PROVE  BillInv'
<1>1. /\ pc[w] = "handle" /\ events[job[w]].type = "pago" /\ copy[w].sub = Ref(w)
      /\ book' = book \cup {job[w]} /\ pc' = [pc EXCEPT ![w] = "save"]
      /\ UNCHANGED <<acked, job, copy, crashes, org, addon, lots, events, atStripe, latest, disordered>>
  BY DEF BookInvoice, Handles, Booked, Goto, OnlyRows, MidHandler, stripe, history
<1>2. pc \in [Workers -> PcValues]
  BY DEF BillInv, Inv, Control
<1>3. /\ pc'[w] = "save" /\ \A v \in Workers : v # w => pc'[v] = pc[v]
      /\ \A v \in Workers : Ref(v)' = Ref(v)
  BY <1>1, <1>2 DEF Ref
<1>4. PacksBooked'
  <2>1. ASSUME NEW k \in Packs, lots[k] = 1
        PROVE  k \in book' \/ crashes > 0 \/ \E v \in Workers : pc'[v] = "book" /\ Ref(v)' = k
    <3>1. CASE \E v \in Workers : pc[v] = "book" /\ Ref(v) = k
      <4>1. PICK v \in Workers : pc[v] = "book" /\ Ref(v) = k
        BY <3>1
      <4>2. pc'[v] = "book" /\ Ref(v)' = k
        BY <1>1, <1>3, <4>1
      <4> QED
        BY <4>2
    <3> QED
      BY <1>1, <2>1, <3>1 DEF BillInv, PacksBooked
  <2>2. \A v \in Workers : pc'[v] = "book" => lots[Ref(v)'] = 1
    BY <1>3 DEF BillInv, PacksBooked
  <2>3. \A v \in Workers : pc'[v] = "save" => events[job[v]].type = "pago"
    BY <1>1, <1>3 DEF BillInv, PacksBooked
  <2> QED
    BY <1>1, <2>1, <2>2, <2>3 DEF BillInv, PacksBooked
<1>5. InvoicesBooked'
  BY <1>1, EndsInvoices
<1>6. ASSUME ~disordered PROVE OneAtATime' /\ Follows'
  <2>1. OneAtATime /\ Follows /\ job[w] = latest /\ copy[w] = org
    BY <1>1, <1>6, TheLatest
  <2>2. \A v \in Workers : v # w => pc[v] = "idle"
    BY <1>1, <2>1 DEF OneAtATime
  <2>3. OneAtATime'
    BY <1>1, <1>3, <2>1, <2>2 DEF OneAtATime
  <2>4. Follows'
    BY <1>1, <2>1 DEF Follows
  <2> QED
    BY <2>3, <2>4
<1> QED
  BY <1>1, <1>4, <1>5, <1>6, SaysSame DEF BillInv, Orderly

LEMMA RenewalBills ==
    ASSUME BillInv, Inv', NEW w \in Workers, SaveRenewal(w) \/ RenewAddon(w)
    PROVE  BillInv'
<1>1. CASE SaveRenewal(w)
  <2>1. /\ pc[w] = "save" /\ Respond(w) /\ OnlyRows /\ UNCHANGED <<addon, lots, book>>
        /\ org' = [copy[w] EXCEPT !.status = "active", !.since = 0]
    BY <1>1 DEF SaveRenewal, Renewed
  <2>2. events[job[w]].type = "pago"
    BY <2>1, AtThisPoint
  <2>3. ASSUME ~disordered
        PROVE  /\ PlanMirrored(events, org', latest) /\ AddonMirrored(events, addon', latest)
               /\ job[w] \in book
    <3>1. copy[w] = org /\ org \in Rows /\ OneAtATime
      BY <2>1, <2>3, TheLatest
    <3>2. org.sub = Ref(w) /\ job[w] \in book
      BY <2>1, <3>1 DEF OneAtATime
    <3>3. org'.sub = org.sub /\ org'.status = "active" /\ org'.since = 0
      BY <2>1, <3>1 DEF Rows
    <3>4. StandsAs(events[job[w]]) = "active"
      BY <2>2 DEF StandsAs
    <3>5. pc[w] # "idle" /\ events[job[w]].type \in {"pago", "falhou", "cancelada"} /\ ~(org'.since > 0)
      BY <2>1, <2>2, <3>3
    <3>6. org'.status = StandsAs(events[job[w]])
      BY <3>3, <3>4
    <3>7. PlanMirrored(events, org', latest) /\ AddonMirrored(events, addon, latest)
      BY <2>3, <3>2, <3>3, <3>5, <3>6, SaidOfPlan
    <3> QED
      BY <2>1, <3>2, <3>7
  <2>4. Known(job[w]) => job[w] \in book
    BY <2>3 DEF Known
  <2> QED
    BY <2>1, <2>2, <2>3, <2>4, Answers
<1>2. CASE RenewAddon(w)
  <2>1. /\ pc[w] = "handle" /\ Respond(w) /\ OnlyRows /\ UNCHANGED <<org, lots>>
        /\ book' = book \cup {job[w]} /\ addon' = [addon EXCEPT !.active = TRUE]
        /\ addon.sub = Ref(w) /\ events[job[w]].type = "pago"
    BY <1>2 DEF RenewAddon, Handles, Booked
  <2>2. addon'.sub = addon.sub /\ addon'.active = (events[job[w]].type # "cancelada")
    BY <2>1 DEF BillInv, Inv, RowTypes
  <2>3. ~disordered => PlanMirrored(events, org', latest) /\ AddonMirrored(events, addon', latest)
    BY <2>1, <2>2, SaidOfAddon
  <2> QED
    BY <2>1, <2>3, Answers
<1> QED
  BY <1>1, <1>2

LEMMA LossBills ==
    ASSUME BillInv, Inv', NEW w \in Workers, PaymentFailed(w) \/ CancelAddon(w) \/ CancelPlan(w)
    PROVE  BillInv'
<1>1. /\ pc[w] = "handle" /\ Respond(w) /\ OnlyRows /\ lots' = lots /\ book' = book
      /\ events[job[w]].type \in {"falhou", "cancelada"}
  BY DEF PaymentFailed, CancelAddon, CancelPlan, Handles
<1>2. ASSUME ~disordered
      PROVE  PlanMirrored(events, org', latest) /\ AddonMirrored(events, addon', latest)
  <2>1. copy[w] = org /\ org \in Rows
    BY <1>1, <1>2, TheLatest
  <2>2. CASE PaymentFailed(w)
    <3>1. /\ org' = [org EXCEPT !.status = "past_due", !.since = today] /\ addon' = addon
          /\ org.sub = Ref(w) /\ events[job[w]].type = "falhou"
      BY <2>1, <2>2 DEF PaymentFailed, OpensGrace, Handles
    <3>2. org'.sub = org.sub /\ org'.status = StandsAs(events[job[w]]) /\ StandsAs(events[job[w]]) # "active"
      BY <2>1, <3>1 DEF Rows, StandsAs
    <3> QED
      BY <1>1, <1>2, <3>1, <3>2, SaidOfPlan
  <2>3. CASE CancelAddon(w)
    <3>1. /\ addon' = [addon EXCEPT !.active = FALSE] /\ org' = org /\ addon.sub = Ref(w)
          /\ events[job[w]].type = "cancelada"
      BY <2>3 DEF CancelAddon, Handles
    <3>2. addon'.sub = addon.sub /\ addon'.active = (events[job[w]].type # "cancelada")
      BY <3>1 DEF BillInv, Inv, RowTypes
    <3> QED
      BY <1>1, <1>2, <3>1, <3>2, SaidOfAddon
  <2>4. CASE CancelPlan(w)
    <3>1. /\ org' = [org EXCEPT !.status = "canceled"] /\ addon' = addon
          /\ org.sub = Ref(w) /\ events[job[w]].type = "cancelada"
      BY <2>1, <2>4 DEF CancelPlan, Handles
    <3>2. org'.sub = org.sub /\ org'.status = StandsAs(events[job[w]]) /\ StandsAs(events[job[w]]) # "active"
      BY <2>1, <3>1 DEF Rows, StandsAs
    <3> QED
      BY <1>1, <1>2, <3>1, <3>2, SaidOfPlan
  <2> QED
    BY <2>2, <2>3, <2>4
<1> QED
  BY <1>1, <1>2, Answers

LEMMA IgnoreBills ==
    ASSUME BillInv, Inv', NEW w \in Workers, NotPaid(w) \/ Ignore(w)
    PROVE  BillInv'
<1>1. pc[w] = "handle" /\ Respond(w) /\ OnlyRows /\ UNCHANGED <<org, addon, lots, book>>
  BY DEF NotPaid, Ignore, Ignored, Handles, rows
<1>2. CASE NotPaid(w)
  <2>1. events[job[w]].type \in {"pacote", "checkout"} /\ ~Paid(w)
    BY <1>2 DEF NotPaid, Handles
  <2>2. ~disordered => PlanMirrored(events, org', latest) /\ AddonMirrored(events, addon', latest)
    BY <1>1, <2>1, SaidOfNone
  <2> QED
    BY <1>1, <2>1, <2>2, Answers DEF Paid
<1>3. CASE Ignore(w)
  <2>1. events[job[w]].type \in {"pago", "falhou", "cancelada"}
    BY <1>3 DEF Ignore, Ignored, Handles
  <2>2. ASSUME ~disordered
        PROVE  /\ PlanMirrored(events, org, latest) /\ AddonMirrored(events, addon, latest)
               /\ events[job[w]].type = "pago" => ~Known(job[w])
    <3>1. /\ copy[w] = org /\ job[w] = latest /\ Ref(w) = events[latest].ref
          /\ latest \in 1..Len(events) /\ org \in Rows /\ latest \in Nat
          /\ AddonMirrored(events, addon, latest - 1) \/ AddonMirrored(events, addon, latest)
      BY <1>1, <2>2, TheLatest
    <3>2. CASE events[job[w]].type = "falhou" /\ org.sub = Ref(w)
      <4>1. org.status = "past_due"
        BY <1>3, <3>1, <3>2 DEF Ignore, Ignored, Handles, OpensGrace
      <4>2. org.status = StandsAs(events[job[w]]) /\ StandsAs(events[job[w]]) # "active"
        BY <3>2, <4>1 DEF StandsAs
      <4> QED
        BY <1>1, <2>2, <3>2, <4>2, SaidOfPlan
    <3>3. CASE events[job[w]].type = "falhou" /\ addon.sub = Ref(w)
      <4>1. ~Speaks(events[latest], org.sub) /\ ~Opens(events[latest], Plans) /\ addon.sub \in Addons
        BY <1>1, <2>2, <3>1, <3>3, TheLatest, AtThisPoint, KindsAssumption DEF Speaks, Opens
      <4>2. PlanMirrored(events, org, latest)
        BY <1>1, <2>2, <4>1, Untold
      <4>3. FailsWhileOn(events) /\ Len(events) \in Nat
        BY EventFacts DEF BillInv, StripeSays
      <4>4. AddonMirrored(events, addon, latest)
        BY <3>1, <3>3, <4>1, <4>3, AddonStays
      <4> QED
        BY <3>3, <4>2, <4>4
    <3>4. CASE org.sub # Ref(w) /\ addon.sub # Ref(w)
      <4>1. PlanMirrored(events, org, latest) /\ AddonMirrored(events, addon, latest)
        BY <1>1, <2>1, <2>2, <3>4, SaidOfOther
      <4>2. events[job[w]].type = "pago" => ~Known(job[w])
        BY <1>1, <3>4, KnownIsOn
      <4> QED
        BY <4>1, <4>2
    <3> QED
      BY <1>3, <3>1, <3>2, <3>3, <3>4 DEF Ignore, Ignored, Handles
  <2>3. events[job[w]].type = "pago" => ~Known(job[w])
    BY <2>2 DEF Known
  <2> QED
    BY <1>1, <2>1, <2>2, <2>3, Answers
<1> QED
  BY <1>2, <1>3

-----------------------------------------------------------------------------
(***************************************************************************)
(* The steps, and what the invariant says.                                 *)
(***************************************************************************)
LEMMA RestBills ==
    ASSUME BillInv, Inv',
           UNCHANGED <<atStripe, events, acked, org, addon, lots, book, pc, job, copy, crashes, latest,
                       disordered>>
    PROVE  BillInv'
<1>1. \A w \in Workers : Ref(w)' = Ref(w)
  BY DEF Ref
<1>2. PacksBooked'
  BY <1>1 DEF BillInv, PacksBooked
<1>3. InvoicesBooked'
  BY EndsInvoices
<1>4. OneAtATime => OneAtATime'
  BY <1>1 DEF OneAtATime
<1>5. Follows => Follows'
  BY DEF Follows
<1> QED
  BY <1>2, <1>3, <1>4, <1>5, SaysSame DEF BillInv, Orderly

LEMMA InitBills == Init => BillInv
<1> SUFFICES ASSUME Init PROVE BillInv
  OBVIOUS
<1>1. Inv /\ Len(events) = 0 /\ acked = {} /\ latest = 0 /\ \A w \in Workers : pc[w] = "idle"
  BY InitInv DEF Init
<1>2. StripeSays
  BY <1>1 DEF Init, StripeSays, StateTold, FailsWhileOn, Quiets
<1>3. PacksBooked /\ InvoicesBooked
  BY <1>1 DEF Init, PacksBooked, InvoicesBooked
<1>4. OneAtATime /\ Follows
  BY <1>1, NothingTold DEF OneAtATime, Follows
<1> QED
  BY <1>1, <1>2, <1>3, <1>4 DEF BillInv, Orderly

LEMMA NextBills == BillInv /\ [Next]_vars => BillInv'
<1> SUFFICES ASSUME BillInv, [Next]_vars PROVE BillInv'
  OBVIOUS
<1>1. Inv'
  BY NextInv DEF BillInv
<1>2. ASSUME NEW w \in Workers, Handle(w) PROVE BillInv'
  BY <1>1, <1>2, ReceiveBills, PackBills, ActivateBills, BookInvoiceBills, RenewalBills, LossBills,
     IgnoreBills, CrashBills DEF Handle
<1>3. ASSUME \/ \E k \in Packs : BuyPack(k)
             \/ \E s \in Subs : Subscribe(s) \/ Bill(s)
      PROVE  BillInv'
  BY <1>1, <1>3, StripeTellsBills DEF BillInv
<1>4. CASE DayPasses
  BY <1>1, <1>4, RestBills DEF DayPasses, stripe, rows, history
<1>5. CASE UNCHANGED vars
  BY <1>1, <1>5, RestBills DEF vars, stripe, rows, history
<1> QED
  BY <1>2, <1>3, <1>4, <1>5 DEF Next

\* Once everything was answered, the office stands as the last event says, which is as Stripe keeps it.
LEMMA MirroredAtRest == BillInv => MirrorsStripe
<1> SUFFICES ASSUME BillInv, Quiet, ~disordered
             PROVE  /\ \A s \in LastPlan : /\ org.sub = s /\ org.status = atStripe[s]
                                           /\ org.since > 0 => atStripe[s] # "active"
                    /\ \A s \in Addons : addon.sub = s => addon.active = (atStripe[s] # "canceled")
  BY DEF MirrorsStripe
<1> DEFINE n == Len(events)
<1>1. /\ n \in Nat /\ latest \in 0..n /\ OneAtATime /\ Follows
      /\ Subs = Plans \cup Addons /\ None \notin Subs
  BY EventFacts DEF BillInv, Orderly
<1>2. latest = n /\ (n > 0 => latest \in acked)
  <2>1. acked = 1..n /\ acked \subseteq 1..latest
    BY <1>1 DEF Quiet, OneAtATime
  <2>2. n > 0 => n \in acked
    BY <1>1, <2>1
  <2> QED
    BY <1>1, <2>1, <2>2
<1>3. PlanMirrored(events, org, n) /\ AddonMirrored(events, addon, n)
  BY <1>1, <1>2, NothingTold DEF Follows
<1>4. ASSUME NEW s \in Subs, NEW i \in 1..n, Speaks(events[i], s)
      PROVE  \E j \in 1..n : LastWord(events, j, s, n) /\ atStripe[s] = StandsAs(events[j])
  BY <1>4 DEF BillInv, StripeSays, StateTold
<1>5. ASSUME NEW s \in LastPlan
      PROVE  org.sub = s /\ org.status = atStripe[s] /\ (org.since > 0 => atStripe[s] # "active")
  <2>1. PICK i \in 1..n : /\ events[i] = Event("checkout", s, TRUE)
                          /\ \A j \in i + 1..n : ~(events[j].type = "checkout" /\ events[j].paid
                                                   /\ events[j].ref \in Plans)
    BY <1>5 DEF LastPlan
  <2>2. s \in Plans /\ s \in Subs
    BY <1>1, <1>5 DEF LastPlan
  <2>3. Opens(events[i], Plans) /\ events[i].ref = s /\ Speaks(events[i], s)
    BY <2>1, <2>2 DEF Opens, Event, Speaks
  <2>4. LastOpened(events, s, Plans, n)
    BY <2>1, <2>3 DEF LastOpened, Opens
  <2>5. PICK j \in 1..n : LastWord(events, j, s, n) /\ atStripe[s] = StandsAs(events[j])
    BY <1>4, <2>2, <2>3
  <2> QED
    BY <1>3, <2>2, <2>4, <2>5 DEF PlanMirrored
<1>6. ASSUME NEW s \in Addons, addon.sub = s
      PROVE  addon.active = (atStripe[s] # "canceled")
  <2>1. s \in Subs /\ s # None
    BY <1>1
  <2>2. Told("checkout", s, TRUE)
    BY <1>6, <2>1, Zenon DEF BillInv, Inv, Loaded
  <2>3. PICK i \in 1..n : events[i] = Event("checkout", s, TRUE)
    BY <2>2 DEF Told
  <2>4. Speaks(events[i], s)
    BY <2>3 DEF Event, Speaks
  <2>5. PICK j \in 1..n : LastWord(events, j, s, n) /\ atStripe[s] = StandsAs(events[j])
    BY <1>4, <2>1, <2>4
  <2>6. addon.active = (events[j].type # "cancelada")
    BY <1>3, <1>6, <2>5 DEF AddonMirrored
  <2>7. events[j].type # "pacote"
    BY <1>1, <2>1, <2>5, EventFacts DEF LastWord, Speaks, BillInv
  <2>8. events[j].type \in Types
    BY <2>5, EventFacts DEF BillInv
  <2>9. StandsAs(events[j]) # "canceled" <=> events[j].type # "cancelada"
    BY <2>7, <2>8 DEF StandsAs, Types
  <2> QED
    BY <2>5, <2>6, <2>9
<1> QED
  BY <1>5, <1>6

LEMMA BookedAtRest == BillInv => CollectedIsBooked
<1> SUFFICES ASSUME BillInv PROVE CollectedIsBooked
  OBVIOUS
<1>1. ASSUME NEW i \in acked, events[i].type = "pacote", events[i].paid
      PROVE  /\ lots[events[i].ref] = 1
             /\ \/ events[i].ref \in book \/ crashes > 0
                \/ \E w \in Workers : pc[w] = "book" /\ Ref(w) = events[i].ref
  <2>1. lots[events[i].ref] = 1 /\ i \in 1..Len(events)
    BY <1>1 DEF BillInv, PacksBooked, Inv, Control
  <2>2. events[i].ref \in Packs
    BY <1>1, <2>1, EventFacts DEF BillInv
  <2> QED
    BY <2>1, <2>2 DEF BillInv, PacksBooked
<1> QED
  BY <1>1 DEF CollectedIsBooked, BillInv, InvoicesBooked

\* A grace that is open keeps its first day.
LEMMA GraceStep ==
    ASSUME BillInv, [Next]_vars
    PROVE  GraceKept
<1> SUFFICES ASSUME org.status = "past_due", org'.status = "past_due", ~disordered', org' # org
             PROVE  FALSE
  BY DEF GraceKept
<1>1. PICK w \in Workers : ActivatePlan(w) \/ SaveRenewal(w) \/ PaymentFailed(w) \/ CancelPlan(w)
  BY DEF Next, Handle, Receive, NotPaid, AddPack, BookPack, ActivateAddon, BookInvoice, RenewAddon,
         CancelAddon, Ignore, Crash, BuyPack, Subscribe, Bill, Tell, DayPasses, vars, rows
<1>2. /\ pc[w] # "idle" /\ pc[w] # "book" /\ ~disordered
      /\ org \in Rows /\ copy[w] \in Rows
  BY <1>1 DEF ActivatePlan, SaveRenewal, PaymentFailed, CancelPlan, Handles, OnlyRows, history,
              BillInv, Inv, Control, RowTypes
<1>3. ~PaymentFailed(w)
  BY <1>2, TheLatest DEF PaymentFailed, OpensGrace
<1>4. ~ActivatePlan(w)
  BY DEF ActivatePlan
<1>5. ~SaveRenewal(w)
  BY <1>2 DEF SaveRenewal, Renewed, Rows
<1>6. ~CancelPlan(w)
  BY <1>2 DEF CancelPlan, Rows
<1> QED
  BY <1>1, <1>3, <1>4, <1>5, <1>6

\* In every state the office stands as Stripe says and what was collected is booked, and no step opens
\* again a grace that is open (stripe_sync.py), whatever is repeated, lost to a crash or yet to come;
\* unless events are handled out of order or two at a time.
THEOREM BillingIsKept == Spec => BillingKept
<1>1. BillInv => BillingAgrees
  BY MirroredAtRest, BookedAtRest DEF BillingAgrees
<1>2. BillInv /\ [Next]_vars => [BillingAgrees' /\ GraceKept]_vars
  <2> SUFFICES ASSUME BillInv, [Next]_vars PROVE BillingAgrees' /\ GraceKept
    OBVIOUS
  <2>1. BillInv'
    BY NextBills
  <2>2. BillingAgrees'
    BY <1>1, <2>1, PTL
  <2> QED
    BY <2>2, GraceStep
<1>3. Spec => []BillInv
  BY InitBills, NextBills, PTL DEF Spec
<1> QED
  BY <1>2, <1>3, PTL DEF Spec, BillingKept

-----------------------------------------------------------------------------
(* FiscalNotes. *)
PaymentRow == [status : InvoiceStatus, ref : 0 .. MaxRefs]
CallRow == [pc : {"idle", "post", "posted", "get", "got", "delete", "canceled"}, copy : PaymentRow, ref : 0 .. MaxRefs,
            answer : {"none", "accepted", "unprocessable", "authorized", "rejected", "canceled"}]
FiscalRows ==
    /\ payment \in PaymentRow /\ emitter \in [1 .. MaxRefs -> NoteStates] /\ refs \in 1 .. MaxRefs
    /\ clerk \in [Clerks -> CallRow] /\ mailed \in [1 .. MaxRefs -> Nat] /\ losses \in Nat
    /\ \A c \in Clerks : clerk[c].pc \in {"post", "posted"} => clerk[c].ref # 0

\* While handlers have not crossed, a clerk that emits or cancels works alone, and those that look a note up
\* have the reference of the row and the state the emitter still has.
Calm == "others" \notin crossed /\ ~byHand
Idle(c) == clerk[c].pc = "idle"
HeldOK(c) ==
    /\ clerk[c].pc \in {"post", "posted", "delete", "canceled"} =>
        payment = clerk[c].copy /\ \A d \in Clerks \ {c} : Idle(d)
    /\ clerk[c].pc \in {"post", "posted"} => Emittable(payment.status)
    /\ clerk[c].pc = "delete" => payment.ref # 0 /\ payment.status = "issued"
    /\ clerk[c].pc = "canceled" /\ payment.ref # 0 => emitter[payment.ref] = "canceled"
    /\ clerk[c].pc \in LookingUp => clerk[c].copy.ref = payment.ref /\ payment.ref # 0
    /\ clerk[c].pc = "got" => clerk[c].answer = emitter[payment.ref] /\ clerk[c].answer \in {"authorized", "rejected", "canceled"}
AloneOK == \A c \in Clerks : ~Idle(c) =>
    /\ \A d \in Clerks \ {c} : Idle(d)
    /\ clerk[c].pc \in LookingUp => clerk[c].copy = payment

\* Where the living note is: the one of the row, or the one a clerk has just sent.
Posted(c) == clerk[c].pc = "posted"
LivingOK ==
    /\ (\A c \in Clerks : ~Posted(c)) =>
        Living \subseteq {payment.ref} /\ (Living # {} => payment.status \in {"processing", "issued"})
    /\ \A c \in Clerks : Posted(c) => Living \subseteq {clerk[c].ref} /\ (clerk[c].answer # "accepted" => Living = {})
    /\ (\E c \in Clerks : clerk[c].pc \in {"post", "canceled"}) => Living = {}
    /\ Living # {} /\ payment.status = "issued" => emitter[payment.ref] = "authorized"
CanceledOK == payment.ref # 0 /\ payment.status = "canceled" => emitter[payment.ref] = "canceled"
MailedOK == \A r \in 1 .. MaxRefs : mailed[r] > 0 =>
    /\ mailed[r] = 1
    /\ emitter[r] = "canceled" \/ (emitter[r] = "authorized" /\ payment = [status |-> "issued", ref |-> r])

FiscalInv ==
    /\ FiscalRows
    /\ Calm => CanceledOK /\ \A c \in Clerks : HeldOK(c)
    /\ Calm /\ losses = 0 => LivingOK
    /\ Calm /\ crossed = {} => AloneOK /\ MailedOK

-----------------------------------------------------------------------------
LEMMA RefsAreNumbers == 1 .. MaxRefs \subseteq Nat \ {0} /\ 0 .. MaxRefs = {0} \cup 1 .. MaxRefs /\ 1 \in 1 .. MaxRefs
  BY FiscalAssumption

\* What an operation changes of the operations.
LEMMA ClerkMoves ==
    ASSUME FiscalRows, NEW c \in Clerks, NEW next \in CallRow, clerk' = [clerk EXCEPT ![c] = next],
           next.pc \in {"post", "posted"} => next.ref # 0
    PROVE  /\ clerk' \in [Clerks -> CallRow] /\ clerk'[c] = next /\ \A d \in Clerks \ {c} : clerk'[d] = clerk[d]
           /\ \A d \in Clerks : clerk'[d].pc \in {"post", "posted"} => clerk'[d].ref # 0
  BY DEF FiscalRows

LEMMA FinishMoves ==
    ASSUME FiscalRows, NEW c \in Clerks, Finish(c)
    PROVE  /\ clerk' \in [Clerks -> CallRow] /\ clerk'[c].pc = "idle" /\ \A d \in Clerks \ {c} : clerk'[d] = clerk[d]
           /\ \A d \in Clerks : clerk'[d].pc \in {"post", "posted"} => clerk'[d].ref # 0
<1>1. NoCall \in CallRow /\ NoCall.pc = "idle"
  BY RefsAreNumbers DEF NoCall, NoRow, CallRow, PaymentRow, InvoiceStatus
<1> QED
  BY <1>1, ClerkMoves DEF Finish

\* An operation that begins while others are under way has crossed them.
LEMMA Crossings ==
    ASSUME NEW c \in Clerks, NEW call, Begin(c, call), clerk[c].pc = "idle"
    PROVE  /\ crossed \subseteq crossed'
           /\ "others" \notin crossed' => \A d \in Clerks \ {c} : Idle(d) \/ (clerk[d].pc \in LookingUp /\ call.pc \in LookingUp)
           /\ crossed' = {} => \A d \in Clerks \ {c} : Idle(d)
  BY DEF Begin, Idle

LEMMA BeginMoves ==
    ASSUME FiscalInv, NEW c \in Clerks, NEW call \in CallRow, Begin(c, call), call.pc # "idle", call.pc # "posted",
           call.pc = "post" => call.ref # 0, byHand' = byHand
    PROVE  /\ clerk' \in [Clerks -> CallRow] /\ clerk'[c] = call /\ \A d \in Clerks \ {c} : clerk'[d] = clerk[d]
           /\ \A d \in Clerks : clerk'[d].pc \in {"post", "posted"} => clerk'[d].ref # 0
           /\ Idle(c) /\ crossed \subseteq crossed' /\ (Calm' => Calm)
           /\ Calm' => \A d \in Clerks \ {c} : Idle(d) \/ (clerk[d].pc \in LookingUp /\ call.pc \in LookingUp)
           /\ crossed' = {} => \A d \in Clerks \ {c} : Idle(d)
<1>1. clerk[c].pc = "idle" /\ clerk' = [clerk EXCEPT ![c] = call]
  BY DEF Begin
<1>2. FiscalRows
  BY DEF FiscalInv
<1>3. /\ crossed \subseteq crossed'
      /\ "others" \notin crossed' => \A d \in Clerks \ {c} : Idle(d) \/ (clerk[d].pc \in LookingUp /\ call.pc \in LookingUp)
      /\ crossed' = {} => \A d \in Clerks \ {c} : Idle(d)
  BY <1>1, Crossings
<1>4. /\ clerk' \in [Clerks -> CallRow] /\ clerk'[c] = call /\ \A d \in Clerks \ {c} : clerk'[d] = clerk[d]
      /\ \A d \in Clerks : clerk'[d].pc \in {"post", "posted"} => clerk'[d].ref # 0
  BY <1>1, <1>2, ClerkMoves
<1> QED
  BY <1>1, <1>3, <1>4 DEF Calm, Idle

-----------------------------------------------------------------------------
LEMMA AskEmitKeeps == ASSUME FiscalInv, NEW c \in Clerks, AskEmit(c) PROVE FiscalInv'
<1> DEFINE again == payment.status \in {"error", "canceled"}
           ref == IF again THEN refs + 1 ELSE IF payment.ref = 0 THEN 1 ELSE payment.ref
<1>0. FiscalRows
  BY DEF FiscalInv
<1>1. /\ Emittable(payment.status) /\ ref <= MaxRefs /\ refs' = (IF again THEN ref ELSE refs)
      /\ Begin(c, [pc |-> "post", copy |-> payment, ref |-> ref, answer |-> "none"])
      /\ UNCHANGED <<payment, emitter, mailed, losses, byHand>>
  BY DEF AskEmit
<1>2. payment \in PaymentRow /\ payment.ref \in 0 .. MaxRefs /\ refs \in 1 .. MaxRefs
  BY <1>0 DEF FiscalRows, PaymentRow
<1>3. ref \in 1 .. MaxRefs /\ refs' \in 1 .. MaxRefs
  BY <1>1, <1>2, FiscalAssumption
<1> HIDE DEF ref
<1> DEFINE call == [pc |-> "post", copy |-> payment, ref |-> ref, answer |-> "none"]
<1>4. call \in CallRow /\ call.pc = "post" /\ call.ref # 0 /\ call.copy = payment
  BY <1>2, <1>3, RefsAreNumbers DEF CallRow
<1>5. Begin(c, call)
  BY <1>1
<1> HIDE DEF call
<1>6. /\ clerk' \in [Clerks -> CallRow] /\ clerk'[c] = call /\ \A d \in Clerks \ {c} : clerk'[d] = clerk[d]
      /\ \A d \in Clerks : clerk'[d].pc \in {"post", "posted"} => clerk'[d].ref # 0
      /\ Idle(c) /\ crossed \subseteq crossed' /\ (Calm' => Calm)
      /\ Calm' => \A d \in Clerks \ {c} : Idle(d)
  <2>1. call.pc \notin LookingUp
    BY <1>4 DEF LookingUp
  <2> QED
    BY <1>1, <1>4, <1>5, <2>1, BeginMoves
<1>7. FiscalRows'
  BY <1>0, <1>1, <1>3, <1>6 DEF FiscalRows
<1>8. Living' = Living
  BY <1>1 DEF Living
<1>9. Calm' => CanceledOK' /\ \A d \in Clerks : HeldOK(d)'
  <2> SUFFICES ASSUME Calm' PROVE CanceledOK' /\ \A d \in Clerks : HeldOK(d)'
    OBVIOUS
  <2>1. CanceledOK'
    BY <1>1, <1>6 DEF FiscalInv, CanceledOK
  <2>2. HeldOK(c)'
    BY <1>1, <1>4, <1>6 DEF HeldOK, Idle, LookingUp
  <2>3. ASSUME NEW d \in Clerks \ {c} PROVE HeldOK(d)'
    BY <1>6, <2>3 DEF HeldOK, Idle, LookingUp
  <2> QED
    BY <2>1, <2>2, <2>3
<1>10. Calm' /\ losses' = 0 => LivingOK'
  <2> SUFFICES ASSUME Calm', losses' = 0 PROVE LivingOK'
    OBVIOUS
  <2>1. LivingOK /\ \A d \in Clerks : Idle(d)
    BY <1>1, <1>6 DEF FiscalInv
  <2>2. Living = {}
    BY <1>1, <2>1 DEF LivingOK, Idle, Posted, Emittable
  <2>3. \A d \in Clerks : ~Posted(d)'
    BY <1>4, <1>6, <2>1 DEF Idle, Posted
  <2> QED
    BY <1>8, <2>2, <2>3 DEF LivingOK
<1>11. Calm' /\ crossed' = {} => AloneOK' /\ MailedOK'
  <2> SUFFICES ASSUME Calm', crossed' = {} PROVE AloneOK' /\ MailedOK'
    OBVIOUS
  <2>1. MailedOK'
    BY <1>1, <1>6 DEF FiscalInv, MailedOK
  <2>2. AloneOK'
    BY <1>4, <1>6 DEF AloneOK, Idle, LookingUp
  <2> QED
    BY <2>1, <2>2
<1> QED
  BY <1>7, <1>9, <1>10, <1>11 DEF FiscalInv

LEMMA AskCancelKeeps == ASSUME FiscalInv, NEW c \in Clerks, AskCancel(c) PROVE FiscalInv'
<1>0. FiscalRows
  BY DEF FiscalInv
<1> DEFINE call == [pc |-> IF payment.ref = 0 THEN "canceled" ELSE "delete", copy |-> payment, ref |-> payment.ref,
                    answer |-> "none"]
<1>1. payment.status = "issued" /\ Begin(c, call) /\ UNCHANGED <<payment, emitter, refs, mailed, losses, byHand>>
  BY DEF AskCancel
<1>2. payment \in PaymentRow /\ payment.ref \in 0 .. MaxRefs
  BY <1>0 DEF FiscalRows, PaymentRow
<1>4. /\ call \in CallRow /\ call.pc \in {"delete", "canceled"} /\ call.copy = payment
      /\ call.pc = "canceled" <=> payment.ref = 0
  BY <1>2 DEF CallRow
<1> HIDE DEF call
<1>6. /\ clerk' \in [Clerks -> CallRow] /\ clerk'[c] = call /\ \A d \in Clerks \ {c} : clerk'[d] = clerk[d]
      /\ \A d \in Clerks : clerk'[d].pc \in {"post", "posted"} => clerk'[d].ref # 0
      /\ Idle(c) /\ crossed \subseteq crossed' /\ (Calm' => Calm)
      /\ Calm' => \A d \in Clerks \ {c} : Idle(d)
  <2>1. call.pc \notin LookingUp
    BY <1>4 DEF LookingUp
  <2> QED
    BY <1>1, <1>4, <2>1, BeginMoves
<1>7. FiscalRows'
  BY <1>0, <1>1, <1>6 DEF FiscalRows
<1>8. Living' = Living
  BY <1>1 DEF Living
<1>9. Calm' => CanceledOK' /\ \A d \in Clerks : HeldOK(d)'
  <2> SUFFICES ASSUME Calm' PROVE CanceledOK' /\ \A d \in Clerks : HeldOK(d)'
    OBVIOUS
  <2>1. CanceledOK'
    BY <1>1, <1>6 DEF FiscalInv, CanceledOK
  <2>2. HeldOK(c)'
    BY <1>1, <1>4, <1>6 DEF HeldOK, Idle, LookingUp
  <2>3. ASSUME NEW d \in Clerks \ {c} PROVE HeldOK(d)'
    BY <1>6, <2>3 DEF HeldOK, Idle, LookingUp
  <2> QED
    BY <2>1, <2>2, <2>3
<1>10. Calm' /\ losses' = 0 => LivingOK'
  <2> SUFFICES ASSUME Calm', losses' = 0 PROVE LivingOK'
    OBVIOUS
  <2>1. LivingOK /\ \A d \in Clerks : Idle(d)
    BY <1>1, <1>6 DEF FiscalInv
  <2>2. Living \subseteq {payment.ref} /\ Living \subseteq 1 .. MaxRefs /\ (Living # {} => emitter[payment.ref] = "authorized")
    BY <1>1, <2>1 DEF LivingOK, Idle, Posted, Living
  <2>3. \A d \in Clerks : ~Posted(d)'
    BY <1>4, <1>6, <2>1 DEF Idle, Posted
  <2>4. (\E d \in Clerks : clerk'[d].pc \in {"post", "canceled"}) => Living = {}
    BY <1>4, <1>6, <2>1, <2>2, RefsAreNumbers DEF Idle
  <2> QED
    BY <1>1, <1>8, <2>2, <2>3, <2>4 DEF LivingOK
<1>11. Calm' /\ crossed' = {} => AloneOK' /\ MailedOK'
  <2> SUFFICES ASSUME Calm', crossed' = {} PROVE AloneOK' /\ MailedOK'
    OBVIOUS
  <2>1. MailedOK'
    BY <1>1, <1>6 DEF FiscalInv, MailedOK
  <2>2. AloneOK'
    BY <1>4, <1>6 DEF AloneOK, Idle, LookingUp
  <2> QED
    BY <2>1, <2>2
<1> QED
  BY <1>7, <1>9, <1>10, <1>11 DEF FiscalInv

LEMMA AskRefreshKeeps == ASSUME FiscalInv, NEW c \in Clerks, AskRefresh(c) PROVE FiscalInv'
<1>0. FiscalRows
  BY DEF FiscalInv
<1> DEFINE call == [pc |-> "get", copy |-> payment, ref |-> payment.ref, answer |-> "none"]
<1>1. payment.ref # 0 /\ Begin(c, call) /\ UNCHANGED <<payment, emitter, refs, mailed, losses, byHand>>
  BY DEF AskRefresh
<1>2. payment \in PaymentRow /\ payment.ref \in 0 .. MaxRefs
  BY <1>0 DEF FiscalRows, PaymentRow
<1>4. call \in CallRow /\ call.pc = "get" /\ call.copy = payment
  BY <1>2 DEF CallRow
<1> HIDE DEF call
<1>6. /\ clerk' \in [Clerks -> CallRow] /\ clerk'[c] = call /\ \A d \in Clerks \ {c} : clerk'[d] = clerk[d]
      /\ \A d \in Clerks : clerk'[d].pc \in {"post", "posted"} => clerk'[d].ref # 0
      /\ Idle(c) /\ crossed \subseteq crossed' /\ (Calm' => Calm)
      /\ Calm' => \A d \in Clerks \ {c} : Idle(d) \/ clerk[d].pc \in LookingUp
      /\ crossed' = {} => \A d \in Clerks \ {c} : Idle(d)
  BY <1>1, <1>4, BeginMoves
<1>7. FiscalRows'
  BY <1>0, <1>1, <1>6 DEF FiscalRows
<1>8. Living' = Living
  BY <1>1 DEF Living
<1>9. Calm' => CanceledOK' /\ \A d \in Clerks : HeldOK(d)'
  <2> SUFFICES ASSUME Calm' PROVE CanceledOK' /\ \A d \in Clerks : HeldOK(d)'
    OBVIOUS
  <2>1. CanceledOK'
    BY <1>1, <1>6 DEF FiscalInv, CanceledOK
  <2>2. HeldOK(c)'
    BY <1>1, <1>4, <1>6 DEF HeldOK, Idle, LookingUp
  <2>3. ASSUME NEW d \in Clerks \ {c} PROVE HeldOK(d)'
    <3>1. HeldOK(d) /\ clerk'[d] = clerk[d] /\ (Idle(d) \/ clerk[d].pc \in LookingUp)
      BY <1>6, <2>3 DEF FiscalInv
    <3> QED
      BY <1>1, <3>1 DEF HeldOK, Idle, LookingUp
  <2> QED
    BY <2>1, <2>2, <2>3
<1>10. Calm' /\ losses' = 0 => LivingOK'
  <2> SUFFICES ASSUME Calm', losses' = 0 PROVE LivingOK'
    OBVIOUS
  <2>1. LivingOK /\ Idle(c)
    BY <1>1, <1>6 DEF FiscalInv
  <2>2. \A d \in Clerks : Posted(d)' = Posted(d) /\ (clerk'[d].pc \in {"post", "canceled"} => clerk[d].pc \in {"post", "canceled"})
    BY <1>4, <1>6, <2>1 DEF Idle, Posted
  <2>3. \A d \in Clerks : Posted(d) => clerk'[d] = clerk[d]
    BY <1>6, <2>1 DEF Idle, Posted
  <2> QED
    BY <1>1, <1>8, <2>1, <2>2, <2>3 DEF LivingOK
<1>11. Calm' /\ crossed' = {} => AloneOK' /\ MailedOK'
  <2> SUFFICES ASSUME Calm', crossed' = {} PROVE AloneOK' /\ MailedOK'
    OBVIOUS
  <2>1. MailedOK'
    BY <1>1, <1>6 DEF FiscalInv, MailedOK
  <2>2. AloneOK'
    BY <1>1, <1>4, <1>6 DEF AloneOK, Idle, LookingUp
  <2> QED
    BY <2>1, <2>2
<1> QED
  BY <1>7, <1>9, <1>10, <1>11 DEF FiscalInv

-----------------------------------------------------------------------------
LEMMA PostKeeps == ASSUME FiscalInv, NEW c \in Clerks, Post(c) PROVE FiscalInv'
<1> DEFINE ref == clerk[c].ref
           known == emitter[ref] # "none"
<1>0. FiscalRows
  BY DEF FiscalInv
<1>1. PICK note \in {"none", "processing", "rejected"}, answer \in {"accepted", "unprocessable", "refused", "lost"} :
        /\ clerk[c].pc = "post"
        /\ known => note = emitter[ref] \/ note = "none"
        /\ answer = "accepted" => known \/ note = "processing"
        /\ answer = "refused" => note = "none"
        /\ answer = "unprocessable" => note # "processing"
        /\ answer = "lost" => losses < MaxLost
        /\ emitter' = [emitter EXCEPT ![ref] = IF known THEN emitter[ref] ELSE note]
        /\ losses' = IF answer = "lost" THEN losses + 1 ELSE losses
        /\ IF answer \in {"refused", "lost"} THEN Finish(c)
           ELSE clerk' = [clerk EXCEPT ![c].pc = "posted", ![c].answer = answer]
        /\ UNCHANGED <<payment, refs, calls, mailed, crossed, byHand>>
  BY DEF Post
<1>2. ref \in 1 .. MaxRefs /\ clerk[c] \in CallRow /\ losses \in Nat /\ emitter \in [1 .. MaxRefs -> NoteStates]
  BY <1>0, <1>1, RefsAreNumbers DEF FiscalRows, CallRow
<1> HIDE DEF ref
<1>3. /\ emitter' \in [1 .. MaxRefs -> NoteStates] /\ losses' \in Nat /\ (losses' = 0 => losses = 0 /\ answer # "lost")
      /\ \A r \in 1 .. MaxRefs : emitter'[r] = emitter[r] \/ (r = ref /\ emitter[r] = "none" /\ emitter'[r] = note)
  BY <1>1, <1>2 DEF NoteStates
<1>4. /\ clerk' \in [Clerks -> CallRow] /\ \A d \in Clerks \ {c} : clerk'[d] = clerk[d]
      /\ \A d \in Clerks : clerk'[d].pc \in {"post", "posted"} => clerk'[d].ref # 0
      /\ \/ clerk'[c].pc = "idle" /\ answer \in {"refused", "lost"}
         \/ clerk'[c].pc = "posted" /\ clerk'[c].ref = ref /\ clerk'[c].answer = answer /\ clerk'[c].copy = clerk[c].copy
            /\ answer \in {"accepted", "unprocessable"}
  <2>1. CASE answer \in {"refused", "lost"}
    BY <1>0, <1>1, <2>1, FinishMoves
  <2>2. CASE answer \notin {"refused", "lost"}
    <3> DEFINE next == [clerk[c] EXCEPT !.pc = "posted", !.answer = answer]
    <3>1. next \in CallRow /\ next.pc = "posted" /\ next.ref = ref /\ next.answer = answer /\ next.copy = clerk[c].copy
      BY <1>2, <2>2 DEF CallRow, ref
    <3>2. clerk' = [clerk EXCEPT ![c] = next]
      BY <1>0, <1>1, <2>2 DEF FiscalRows
    <3> HIDE DEF next
    <3>3. ref # 0
      BY <1>2, RefsAreNumbers
    <3> QED
      BY <1>0, <2>2, <3>1, <3>2, <3>3, ClerkMoves
  <2> QED
    BY <2>1, <2>2
<1>5. Calm' => Calm
  BY <1>1 DEF Calm
<1>6. Calm => payment = clerk[c].copy /\ Emittable(payment.status) /\ \A d \in Clerks \ {c} : Idle(d)
  BY <1>1 DEF FiscalInv, HeldOK
<1>7. FiscalRows'
  BY <1>0, <1>1, <1>3, <1>4 DEF FiscalRows
<1>9. Calm' => CanceledOK' /\ \A d \in Clerks : HeldOK(d)'
  <2> SUFFICES ASSUME Calm' PROVE CanceledOK' /\ \A d \in Clerks : HeldOK(d)'
    OBVIOUS
  <2>1. CanceledOK'
    <3>1. CanceledOK /\ payment' = payment /\ payment.ref \in 0 .. MaxRefs
      BY <1>0, <1>1, <1>5 DEF FiscalInv, FiscalRows, PaymentRow
    <3> QED
      BY <1>3, <3>1, RefsAreNumbers DEF CanceledOK
  <2>2. HeldOK(c)'
    BY <1>1, <1>4, <1>5, <1>6 DEF HeldOK, Idle, LookingUp
  <2>3. ASSUME NEW d \in Clerks \ {c} PROVE HeldOK(d)'
    BY <1>4, <1>5, <1>6, <2>3 DEF HeldOK, Idle, LookingUp
  <2> QED
    BY <2>1, <2>2, <2>3
<1>10. Calm' /\ losses' = 0 => LivingOK'
  <2> SUFFICES ASSUME Calm', losses' = 0 PROVE LivingOK'
    OBVIOUS
  <2>1. Living = {}
    BY <1>1, <1>3, <1>5 DEF FiscalInv, LivingOK
  <2>2. Living' \subseteq {ref} /\ (answer # "accepted" => Living' = {})
    BY <1>1, <1>3, <2>1 DEF Living
  <2>3. \A d \in Clerks \ {c} : Idle(d)'
    BY <1>4, <1>5, <1>6 DEF Idle
  <2>4. payment'.status # "issued"
    BY <1>1, <1>5, <1>6 DEF Emittable
  <2>5. (\A d \in Clerks : ~Posted(d)') => Living' = {}
    BY <1>4, <2>2 DEF Posted
  <2>6. \A d \in Clerks : Posted(d)' => d = c /\ clerk'[c].ref = ref /\ clerk'[c].answer = answer
    BY <1>4, <2>3 DEF Posted, Idle
  <2>7. \A d \in Clerks : clerk'[d].pc \notin {"post", "canceled"}
    BY <1>4, <2>3 DEF Idle
  <2> QED
    BY <2>2, <2>4, <2>5, <2>6, <2>7 DEF LivingOK
<1>11. Calm' /\ crossed' = {} => AloneOK' /\ MailedOK'
  <2> SUFFICES ASSUME Calm', crossed' = {} PROVE AloneOK' /\ MailedOK'
    OBVIOUS
  <2>1. MailedOK'
    <3>1. MailedOK /\ payment.status # "issued"
      BY <1>1, <1>5, <1>6 DEF FiscalInv, Emittable
    <3> QED
      BY <1>1, <1>3, <3>1 DEF MailedOK
  <2>2. AloneOK'
    BY <1>4, <1>5, <1>6 DEF AloneOK, Idle, LookingUp
  <2> QED
    BY <2>1, <2>2
<1> QED
  BY <1>7, <1>9, <1>10, <1>11 DEF FiscalInv

LEMMA SaveEmissionKeeps == ASSUME FiscalInv, NEW c \in Clerks, SaveEmission(c) PROVE FiscalInv'
<1> DEFINE status == IF clerk[c].answer = "accepted" THEN "processing" ELSE "error"
           row == [status |-> status, ref |-> clerk[c].ref]
<1>0. FiscalRows
  BY DEF FiscalInv
<1>1. /\ clerk[c].pc = "posted" /\ payment' = row
      /\ IF status = "processing" THEN clerk' = [clerk EXCEPT ![c].pc = "get", ![c].copy = row] ELSE Finish(c)
      /\ UNCHANGED <<emitter, refs, calls, mailed, losses, crossed, byHand>>
  BY DEF SaveEmission
<1>2. clerk[c] \in CallRow /\ clerk[c].ref \in 1 .. MaxRefs
  BY <1>0, <1>1, RefsAreNumbers DEF FiscalRows, CallRow
<1>3. row \in PaymentRow /\ row.ref = clerk[c].ref /\ row.ref # 0 /\ row.status = status
  BY <1>2, RefsAreNumbers DEF PaymentRow, InvoiceStatus
<1>a. status \in {"processing", "error"} /\ (status = "processing" <=> clerk[c].answer = "accepted")
  OBVIOUS
<1> HIDE DEF row, status
<1>4. /\ clerk' \in [Clerks -> CallRow] /\ \A d \in Clerks \ {c} : clerk'[d] = clerk[d]
      /\ \A d \in Clerks : clerk'[d].pc \in {"post", "posted"} => clerk'[d].ref # 0
      /\ clerk'[c].pc = "idle" \/ (clerk'[c].pc = "get" /\ clerk'[c].copy = row)
  <2>1. CASE status # "processing"
    BY <1>0, <1>1, <2>1, FinishMoves
  <2>2. CASE status = "processing"
    <3> DEFINE next == [clerk[c] EXCEPT !.pc = "get", !.copy = row]
    <3>1. next \in CallRow /\ next.pc = "get" /\ next.copy = row
      BY <1>2, <1>3 DEF CallRow
    <3>2. clerk' = [clerk EXCEPT ![c] = next]
      BY <1>0, <1>1, <2>2 DEF FiscalRows
    <3> HIDE DEF next
    <3> QED
      BY <1>0, <3>1, <3>2, ClerkMoves
  <2> QED
    BY <2>1, <2>2
<1>5. Calm' => Calm
  BY <1>1 DEF Calm
<1>6. Calm => Emittable(payment.status) /\ \A d \in Clerks \ {c} : Idle(d)
  BY <1>1 DEF FiscalInv, HeldOK
<1>7. FiscalRows'
  BY <1>0, <1>1, <1>3, <1>4 DEF FiscalRows
<1>9. Calm' => CanceledOK' /\ \A d \in Clerks : HeldOK(d)'
  <2> SUFFICES ASSUME Calm' PROVE CanceledOK' /\ \A d \in Clerks : HeldOK(d)'
    OBVIOUS
  <2>1. CanceledOK'
    BY <1>1, <1>3, <1>a DEF CanceledOK
  <2>2. HeldOK(c)'
    BY <1>1, <1>3, <1>4 DEF HeldOK, Idle, LookingUp
  <2>3. ASSUME NEW d \in Clerks \ {c} PROVE HeldOK(d)'
    BY <1>4, <1>5, <1>6, <2>3 DEF HeldOK, Idle, LookingUp
  <2> QED
    BY <2>1, <2>2, <2>3
<1>10. Calm' /\ losses' = 0 => LivingOK'
  <2> SUFFICES ASSUME Calm', losses' = 0 PROVE LivingOK'
    OBVIOUS
  <2>1. Living \subseteq {row.ref} /\ (Living # {} => status = "processing") /\ Living' = Living
    BY <1>1, <1>3, <1>5, <1>a DEF FiscalInv, LivingOK, Posted, Living
  <2>3. \A d \in Clerks : clerk'[d].pc \in {"idle", "get"}
    BY <1>4, <1>5, <1>6 DEF Idle
  <2> QED
    BY <1>1, <1>3, <1>a, <2>1, <2>3 DEF LivingOK, Posted
<1>11. Calm' /\ crossed' = {} => AloneOK' /\ MailedOK'
  <2> SUFFICES ASSUME Calm', crossed' = {} PROVE AloneOK' /\ MailedOK'
    OBVIOUS
  <2>1. MailedOK'
    <3>1. MailedOK /\ payment.status # "issued"
      BY <1>1, <1>5, <1>6 DEF FiscalInv, Emittable
    <3> QED
      BY <1>1, <3>1 DEF MailedOK
  <2>2. AloneOK'
    BY <1>1, <1>4, <1>5, <1>6 DEF AloneOK, Idle, LookingUp
  <2> QED
    BY <2>1, <2>2
<1> QED
  BY <1>7, <1>9, <1>10, <1>11 DEF FiscalInv

LEMMA GetKeeps == ASSUME FiscalInv, NEW c \in Clerks, Get(c) PROVE FiscalInv'
<1> DEFINE answer == emitter[clerk[c].copy.ref]
<1>0. FiscalRows
  BY DEF FiscalInv
<1>1. /\ clerk[c].pc = "get"
      /\ IF answer \in {"authorized", "rejected", "canceled"}
         THEN clerk' = [clerk EXCEPT ![c].pc = "got", ![c].answer = answer]
         ELSE Finish(c)
      /\ UNCHANGED <<payment, emitter, refs, calls, mailed, losses, crossed, byHand>>
  BY DEF Get
<1>2. clerk[c] \in CallRow
  BY <1>0 DEF FiscalRows
<1> HIDE DEF answer
<1>4. /\ clerk' \in [Clerks -> CallRow] /\ \A d \in Clerks \ {c} : clerk'[d] = clerk[d]
      /\ \A d \in Clerks : clerk'[d].pc \in {"post", "posted"} => clerk'[d].ref # 0
      /\ \/ clerk'[c].pc = "idle"
         \/ clerk'[c].pc = "got" /\ clerk'[c].answer = answer /\ clerk'[c].copy = clerk[c].copy
            /\ answer \in {"authorized", "rejected", "canceled"}
  <2>1. CASE answer \notin {"authorized", "rejected", "canceled"}
    BY <1>0, <1>1, <2>1, FinishMoves
  <2>2. CASE answer \in {"authorized", "rejected", "canceled"}
    <3> DEFINE next == [clerk[c] EXCEPT !.pc = "got", !.answer = answer]
    <3>1. next \in CallRow /\ next.pc = "got" /\ next.answer = answer /\ next.copy = clerk[c].copy
      BY <1>2, <2>2 DEF CallRow
    <3>2. clerk' = [clerk EXCEPT ![c] = next]
      BY <1>0, <1>1, <2>2 DEF FiscalRows
    <3> HIDE DEF next
    <3> QED
      BY <1>0, <2>2, <3>1, <3>2, ClerkMoves
  <2> QED
    BY <2>1, <2>2
<1>5. Calm' = Calm
  BY <1>1 DEF Calm
<1>7. FiscalRows'
  BY <1>0, <1>1, <1>4 DEF FiscalRows
<1>9. Calm' => CanceledOK' /\ \A d \in Clerks : HeldOK(d)'
  <2> SUFFICES ASSUME Calm' PROVE CanceledOK' /\ \A d \in Clerks : HeldOK(d)'
    OBVIOUS
  <2>0. CanceledOK /\ \A d \in Clerks : HeldOK(d)
    BY <1>5 DEF FiscalInv
  <2>1. CanceledOK'
    BY <1>1, <2>0 DEF CanceledOK
  <2>2. HeldOK(c)'
    BY <1>1, <1>4, <2>0 DEF HeldOK, Idle, LookingUp, answer
  <2>3. ASSUME NEW d \in Clerks \ {c} PROVE HeldOK(d)'
    <3>1. HeldOK(d) /\ clerk[d].pc \notin {"post", "posted", "delete", "canceled"}
      BY <1>1, <2>0, <2>3 DEF HeldOK, Idle
    <3> QED
      BY <1>1, <1>4, <2>3, <3>1 DEF HeldOK, Idle, LookingUp
  <2> QED
    BY <2>1, <2>2, <2>3
<1>10. Calm' /\ losses' = 0 => LivingOK'
  <2> SUFFICES ASSUME Calm', losses' = 0 PROVE LivingOK'
    OBVIOUS
  <2>1. LivingOK /\ Living' = Living
    BY <1>1, <1>5 DEF FiscalInv, Living
  <2>2. \A d \in Clerks : /\ Posted(d)' = Posted(d) /\ (Posted(d) => clerk'[d] = clerk[d])
                          /\ clerk'[d].pc \in {"post", "canceled"} => clerk[d].pc \in {"post", "canceled"}
    BY <1>1, <1>4 DEF Posted
  <2> QED
    BY <1>1, <2>1, <2>2 DEF LivingOK
<1>11. Calm' /\ crossed' = {} => AloneOK' /\ MailedOK'
  <2> SUFFICES ASSUME Calm', crossed' = {} PROVE AloneOK' /\ MailedOK'
    OBVIOUS
  <2>0. AloneOK /\ MailedOK
    BY <1>1, <1>5 DEF FiscalInv
  <2>1. MailedOK'
    BY <1>1, <2>0 DEF MailedOK
  <2>2. AloneOK'
    BY <1>1, <1>4, <2>0 DEF AloneOK, Idle, LookingUp
  <2> QED
    BY <2>1, <2>2
<1> QED
  BY <1>7, <1>9, <1>10, <1>11 DEF FiscalInv

LEMMA SaveRefreshKeeps == ASSUME FiscalInv, NEW c \in Clerks, SaveRefresh(c) PROVE FiscalInv'
<1> DEFINE status == StatusOf(clerk[c].answer)
           of == clerk[c].copy.ref
<1>0. FiscalRows
  BY DEF FiscalInv
<1>1. /\ clerk[c].pc = "got" /\ payment' = [payment EXCEPT !.status = status]
      /\ mailed' = IF status = "issued" /\ clerk[c].copy.status # "issued"
                   THEN [mailed EXCEPT ![of] = mailed[of] + 1] ELSE mailed
      /\ Finish(c)
      /\ UNCHANGED <<emitter, refs, calls, losses, crossed, byHand>>
  BY DEF SaveRefresh
<1>2. payment \in PaymentRow /\ clerk[c] \in CallRow /\ of \in 0 .. MaxRefs /\ clerk[c].copy \in PaymentRow
  BY <1>0 DEF FiscalRows, CallRow, PaymentRow
<1>a. status \in {"issued", "error", "canceled"} /\ (status = "issued" <=> clerk[c].answer = "authorized")
  BY DEF StatusOf
<1>b. clerk[c].answer = "canceled" => status = "canceled"
  BY DEF StatusOf
<1>c. clerk[c].answer \in {"authorized", "rejected", "canceled"} => (status = "canceled" => clerk[c].answer = "canceled")
  BY DEF StatusOf
<1> HIDE DEF status, of
<1>3. /\ payment' \in PaymentRow /\ payment'.status = status /\ payment'.ref = payment.ref
      /\ mailed' \in [1 .. MaxRefs -> Nat]
      /\ \A r \in 1 .. MaxRefs : mailed'[r] =
           IF r = of /\ status = "issued" /\ clerk[c].copy.status # "issued" THEN mailed[r] + 1 ELSE mailed[r]
  <2>1. payment' \in PaymentRow /\ payment'.status = status /\ payment'.ref = payment.ref
    BY <1>1, <1>2, <1>a DEF PaymentRow, InvoiceStatus
  <2>2. mailed \in [1 .. MaxRefs -> Nat]
    BY <1>0 DEF FiscalRows
  <2>3. /\ mailed' \in [1 .. MaxRefs -> Nat]
        /\ \A r \in 1 .. MaxRefs : mailed'[r] =
             IF r = of /\ status = "issued" /\ clerk[c].copy.status # "issued" THEN mailed[r] + 1 ELSE mailed[r]
    <3>1. CASE status = "issued" /\ clerk[c].copy.status # "issued"
      <4>1. mailed' = [mailed EXCEPT ![of] = mailed[of] + 1]
        BY <1>1, <3>1
      <4>3. ASSUME NEW r \in 1 .. MaxRefs
            PROVE  mailed'[r] \in Nat /\ mailed'[r] = IF r = of THEN mailed[r] + 1 ELSE mailed[r]
        BY <2>2, <4>1
      <4>4. mailed' = [r \in 1 .. MaxRefs |-> mailed'[r]]
        BY <2>2, <4>1
      <4> QED
        BY <3>1, <4>3, <4>4
    <3>2. CASE ~(status = "issued" /\ clerk[c].copy.status # "issued")
      BY <1>1, <2>2, <3>2
    <3> QED
      BY <3>1, <3>2
  <2> QED
    BY <2>1, <2>3
<1>4. /\ clerk' \in [Clerks -> CallRow] /\ clerk'[c].pc = "idle" /\ \A d \in Clerks \ {c} : clerk'[d] = clerk[d]
      /\ \A d \in Clerks : clerk'[d].pc \in {"post", "posted"} => clerk'[d].ref # 0
  BY <1>0, <1>1, FinishMoves
<1>5. Calm' = Calm
  BY <1>1 DEF Calm
<1>6. Calm => /\ of = payment.ref /\ payment.ref # 0 /\ clerk[c].answer = emitter[payment.ref]
              /\ clerk[c].answer \in {"authorized", "rejected", "canceled"}
              /\ \A d \in Clerks : clerk[d].pc \notin {"post", "posted", "delete", "canceled"}
  BY <1>1 DEF FiscalInv, HeldOK, LookingUp, Idle, of
<1>7. FiscalRows'
  BY <1>0, <1>1, <1>3, <1>4 DEF FiscalRows
<1>9. Calm' => CanceledOK' /\ \A d \in Clerks : HeldOK(d)'
  <2> SUFFICES ASSUME Calm' PROVE CanceledOK' /\ \A d \in Clerks : HeldOK(d)'
    OBVIOUS
  <2>1. CanceledOK'
    BY <1>1, <1>3, <1>5, <1>6, <1>c DEF CanceledOK
  <2>2. HeldOK(c)'
    BY <1>4 DEF HeldOK, LookingUp
  <2>3. ASSUME NEW d \in Clerks \ {c} PROVE HeldOK(d)'
    BY <1>1, <1>3, <1>4, <1>5, <1>6 DEF FiscalInv, HeldOK, Idle, LookingUp
  <2> QED
    BY <2>1, <2>2, <2>3
<1>10. Calm' /\ losses' = 0 => LivingOK'
  <2> SUFFICES ASSUME Calm', losses' = 0 PROVE LivingOK'
    OBVIOUS
  <2>1. Living \subseteq {payment.ref} /\ Living' = Living
    BY <1>1, <1>5, <1>6 DEF FiscalInv, LivingOK, Posted, Living
  <2>2. \A d \in Clerks : clerk'[d].pc \notin {"post", "posted", "delete", "canceled"}
    BY <1>4, <1>5, <1>6
  <2>3. Living # {} => emitter[payment.ref] = "authorized" /\ status = "issued"
    BY <1>5, <1>6, <1>a, <2>1 DEF Living
  <2> QED
    BY <1>1, <1>3, <2>1, <2>2, <2>3 DEF LivingOK, Posted
<1>11. Calm' /\ crossed' = {} => AloneOK' /\ MailedOK'
  <2> SUFFICES ASSUME Calm', crossed' = {} PROVE AloneOK' /\ MailedOK'
    OBVIOUS
  <2>0. AloneOK /\ MailedOK
    BY <1>1, <1>5 DEF FiscalInv
  <2>1. clerk[c].copy = payment /\ \A d \in Clerks \ {c} : Idle(d)
    BY <1>1, <2>0 DEF AloneOK, Idle, LookingUp
  <2>2. ASSUME NEW r \in 1 .. MaxRefs, mailed'[r] > 0
        PROVE  /\ mailed'[r] = 1
               /\ emitter'[r] = "canceled" \/ (emitter'[r] = "authorized" /\ payment' = [status |-> "issued", ref |-> r])
    <3>1. mailed[r] \in Nat /\ emitter' = emitter
      BY <1>0, <1>1 DEF FiscalRows
    <3>2. CASE r = payment.ref /\ status = "issued"
      <4>1. emitter[r] = "authorized" /\ payment' = [status |-> "issued", ref |-> r]
        BY <1>1, <1>2, <1>5, <1>6, <1>a, <3>2 DEF PaymentRow
      <4>2. payment.status # "issued" => mailed[r] = 0
        BY <2>0, <3>1, <4>1 DEF MailedOK
      <4>3. payment.status = "issued" => mailed'[r] = mailed[r]
        BY <1>3, <2>1
      <4>4. payment.status # "issued" => mailed'[r] = mailed[r] + 1
        BY <1>3, <1>5, <1>6, <2>1, <3>2
      <4> QED
        BY <2>0, <2>2, <3>1, <4>1, <4>2, <4>3, <4>4 DEF MailedOK
    <3>3. CASE ~(r = payment.ref /\ status = "issued")
      <4>1. mailed'[r] = mailed[r]
        BY <1>3, <1>5, <1>6, <3>3
      <4>2. mailed[r] = 1 /\ (emitter[r] = "canceled" \/ (emitter[r] = "authorized" /\ payment.ref = r))
        BY <2>0, <2>2, <4>1 DEF MailedOK
      <4> QED
        BY <1>5, <1>6, <1>a, <3>1, <3>3, <4>1, <4>2
    <3> QED
      BY <3>2, <3>3
  <2>3. MailedOK'
    BY <2>2 DEF MailedOK
  <2>4. AloneOK'
    BY <1>4, <2>1 DEF AloneOK, Idle
  <2> QED
    BY <2>3, <2>4
<1> QED
  BY <1>7, <1>9, <1>10, <1>11 DEF FiscalInv

LEMMA CancelAtEmitterKeeps == ASSUME FiscalInv, NEW c \in Clerks, CancelAtEmitter(c) PROVE FiscalInv'
<1> DEFINE ref == clerk[c].copy.ref
<1>0. FiscalRows
  BY DEF FiscalInv
<1>1. PICK cancels \in BOOLEAN, answered \in BOOLEAN :
        /\ clerk[c].pc = "delete"
        /\ cancels => emitter[ref] \in {"authorized", "canceled"}
        /\ ~answered => losses < MaxLost
        /\ emitter' = IF cancels THEN [emitter EXCEPT ![ref] = "canceled"] ELSE emitter
        /\ losses' = IF answered THEN losses ELSE losses + 1
        /\ IF cancels /\ answered THEN clerk' = [clerk EXCEPT ![c].pc = "canceled"] ELSE Finish(c)
        /\ UNCHANGED <<payment, refs, calls, mailed, crossed, byHand>>
  BY DEF CancelAtEmitter
<1>2. clerk[c] \in CallRow /\ losses \in Nat /\ emitter \in [1 .. MaxRefs -> NoteStates]
  BY <1>0 DEF FiscalRows
<1> HIDE DEF ref
<1>3. /\ emitter' \in [1 .. MaxRefs -> NoteStates] /\ losses' \in Nat /\ (losses' = 0 => losses = 0 /\ answered)
      /\ \A r \in 1 .. MaxRefs : emitter'[r] = IF cancels /\ r = ref THEN "canceled" ELSE emitter[r]
  <2>1. losses' \in Nat /\ (losses' = 0 => losses = 0 /\ answered)
    <3>1. CASE answered
      BY <1>1, <1>2, <3>1
    <3>2. CASE ~answered
      BY <1>1, <1>2, <3>2
    <3> QED
      BY <3>1, <3>2
  <2>2. /\ emitter' \in [1 .. MaxRefs -> NoteStates]
        /\ \A r \in 1 .. MaxRefs : emitter'[r] = IF cancels /\ r = ref THEN "canceled" ELSE emitter[r]
    <3>1. CASE cancels
      BY <1>1, <1>2, <3>1 DEF NoteStates
    <3>2. CASE ~cancels
      BY <1>1, <1>2, <3>2
    <3> QED
      BY <3>1, <3>2
  <2> QED
    BY <2>1, <2>2
<1>4. /\ clerk' \in [Clerks -> CallRow] /\ \A d \in Clerks \ {c} : clerk'[d] = clerk[d]
      /\ \A d \in Clerks : clerk'[d].pc \in {"post", "posted"} => clerk'[d].ref # 0
      /\ \/ clerk'[c].pc = "idle" /\ ~(cancels /\ answered)
         \/ clerk'[c].pc = "canceled" /\ clerk'[c].copy = clerk[c].copy /\ cancels
  <2>1. CASE ~(cancels /\ answered)
    BY <1>0, <1>1, <2>1, FinishMoves
  <2>2. CASE cancels /\ answered
    <3> DEFINE next == [clerk[c] EXCEPT !.pc = "canceled"]
    <3>1. next \in CallRow /\ next.pc = "canceled" /\ next.copy = clerk[c].copy
      BY <1>2 DEF CallRow
    <3>2. clerk' = [clerk EXCEPT ![c] = next]
      BY <1>0, <1>1, <2>2 DEF FiscalRows
    <3> HIDE DEF next
    <3> QED
      BY <1>0, <2>2, <3>1, <3>2, ClerkMoves
  <2> QED
    BY <2>1, <2>2
<1>5. Calm' = Calm
  BY <1>1 DEF Calm
<1>6. Calm => /\ payment = clerk[c].copy /\ ref = payment.ref /\ payment.ref # 0 /\ payment.status = "issued"
              /\ payment.ref \in 1 .. MaxRefs /\ \A d \in Clerks \ {c} : Idle(d)
  BY <1>0, <1>1, RefsAreNumbers DEF FiscalInv, FiscalRows, PaymentRow, HeldOK, ref
<1>7. FiscalRows'
  BY <1>0, <1>1, <1>3, <1>4 DEF FiscalRows
<1>9. Calm' => CanceledOK' /\ \A d \in Clerks : HeldOK(d)'
  <2> SUFFICES ASSUME Calm' PROVE CanceledOK' /\ \A d \in Clerks : HeldOK(d)'
    OBVIOUS
  <2>1. CanceledOK'
    BY <1>1, <1>5, <1>6 DEF CanceledOK
  <2>2. HeldOK(c)'
    BY <1>1, <1>3, <1>4, <1>5, <1>6 DEF HeldOK, Idle, LookingUp
  <2>3. ASSUME NEW d \in Clerks \ {c} PROVE HeldOK(d)'
    BY <1>4, <1>5, <1>6, <2>3 DEF HeldOK, Idle, LookingUp
  <2> QED
    BY <2>1, <2>2, <2>3
<1>10. Calm' /\ losses' = 0 => LivingOK'
  <2> SUFFICES ASSUME Calm', losses' = 0 PROVE LivingOK'
    OBVIOUS
  <2>1. \A d \in Clerks : ~Posted(d) /\ ~Posted(d)' /\ clerk'[d].pc \in {"idle", "canceled"}
    BY <1>1, <1>4, <1>5, <1>6 DEF Posted, Idle
  <2>2. LivingOK /\ Living \subseteq {payment.ref}
    BY <1>3, <1>5, <2>1 DEF FiscalInv, LivingOK
  <2>3. cancels => Living' = {}
    BY <1>3, <1>5, <1>6, <2>2 DEF Living
  <2>4. ~cancels => emitter' = emitter /\ Living' = Living /\ \A d \in Clerks : clerk'[d].pc = "idle"
    BY <1>1, <1>4, <1>5, <1>6 DEF Living, Idle
  <2> QED
    BY <1>1, <2>1, <2>2, <2>3, <2>4 DEF LivingOK
<1>11. Calm' /\ crossed' = {} => AloneOK' /\ MailedOK'
  <2> SUFFICES ASSUME Calm', crossed' = {} PROVE AloneOK' /\ MailedOK'
    OBVIOUS
  <2>1. MailedOK'
    <3>1. MailedOK
      BY <1>1, <1>5 DEF FiscalInv
    <3> QED
      BY <1>1, <1>3, <3>1 DEF MailedOK
  <2>2. AloneOK'
    BY <1>4, <1>5, <1>6 DEF AloneOK, Idle, LookingUp
  <2> QED
    BY <2>1, <2>2
<1> QED
  BY <1>7, <1>9, <1>10, <1>11 DEF FiscalInv

LEMMA SaveCancellationKeeps == ASSUME FiscalInv, NEW c \in Clerks, SaveCancellation(c) PROVE FiscalInv'
<1>0. FiscalRows
  BY DEF FiscalInv
<1>1. /\ clerk[c].pc = "canceled" /\ payment' = [payment EXCEPT !.status = "canceled"] /\ Finish(c)
      /\ UNCHANGED <<emitter, refs, calls, mailed, losses, crossed, byHand>>
  BY DEF SaveCancellation
<1>3. payment' \in PaymentRow /\ payment'.status = "canceled" /\ payment'.ref = payment.ref
  BY <1>0, <1>1 DEF FiscalRows, PaymentRow, InvoiceStatus
<1>4. /\ clerk' \in [Clerks -> CallRow] /\ clerk'[c].pc = "idle" /\ \A d \in Clerks \ {c} : clerk'[d] = clerk[d]
      /\ \A d \in Clerks : clerk'[d].pc \in {"post", "posted"} => clerk'[d].ref # 0
  BY <1>0, <1>1, FinishMoves
<1>5. Calm' = Calm
  BY <1>1 DEF Calm
<1>6. Calm => /\ payment.ref # 0 => emitter[payment.ref] = "canceled"
              /\ \A d \in Clerks \ {c} : Idle(d)
  BY <1>1 DEF FiscalInv, HeldOK
<1>7. FiscalRows'
  BY <1>0, <1>1, <1>3, <1>4 DEF FiscalRows
<1>8. Calm' => \A d \in Clerks : clerk'[d].pc = "idle"
  BY <1>4, <1>5, <1>6 DEF Idle
<1>9. Calm' => CanceledOK' /\ \A d \in Clerks : HeldOK(d)'
  BY <1>1, <1>3, <1>5, <1>6, <1>8 DEF CanceledOK, HeldOK, LookingUp
<1>10. Calm' /\ losses' = 0 => LivingOK'
  <2> SUFFICES ASSUME Calm', losses' = 0 PROVE LivingOK'
    OBVIOUS
  <2>1. Living = {} /\ Living' = Living
    BY <1>1, <1>5 DEF FiscalInv, LivingOK, Living
  <2> QED
    BY <1>8, <2>1 DEF LivingOK, Posted
<1>11. Calm' /\ crossed' = {} => AloneOK' /\ MailedOK'
  <2> SUFFICES ASSUME Calm', crossed' = {} PROVE AloneOK' /\ MailedOK'
    OBVIOUS
  <2>1. MailedOK
    BY <1>1, <1>5 DEF FiscalInv
  <2>2. ASSUME NEW r \in 1 .. MaxRefs, mailed[r] > 0 PROVE mailed[r] = 1 /\ emitter[r] = "canceled"
    <3>1. r # 0
      BY RefsAreNumbers
    <3> QED
      BY <1>5, <1>6, <2>1, <2>2, <3>1 DEF MailedOK
  <2>3. MailedOK'
    BY <1>1, <2>2 DEF MailedOK
  <2>4. AloneOK'
    BY <1>8 DEF AloneOK, Idle
  <2> QED
    BY <2>3, <2>4
<1> QED
  BY <1>7, <1>9, <1>10, <1>11 DEF FiscalInv

LEMMA ClerkDiesKeeps == ASSUME FiscalInv, NEW c \in Clerks, ClerkDies(c) PROVE FiscalInv'
<1>0. FiscalRows
  BY DEF FiscalInv
<1>1. /\ losses' = losses + 1 /\ Finish(c) /\ UNCHANGED <<payment, emitter, refs, calls, mailed, crossed, byHand>>
  BY DEF ClerkDies
<1>4. /\ clerk' \in [Clerks -> CallRow] /\ clerk'[c].pc = "idle" /\ \A d \in Clerks \ {c} : clerk'[d] = clerk[d]
      /\ \A d \in Clerks : clerk'[d].pc \in {"post", "posted"} => clerk'[d].ref # 0
  BY <1>0, <1>1, FinishMoves
<1>5. Calm' = Calm /\ losses' \in Nat /\ losses' # 0
  BY <1>0, <1>1 DEF Calm, FiscalRows
<1>7. FiscalRows'
  BY <1>0, <1>1, <1>4, <1>5 DEF FiscalRows
<1>9. Calm' => CanceledOK' /\ \A d \in Clerks : HeldOK(d)'
  <2> SUFFICES ASSUME Calm' PROVE CanceledOK' /\ \A d \in Clerks : HeldOK(d)'
    OBVIOUS
  <2>0. CanceledOK /\ \A d \in Clerks : HeldOK(d)
    BY <1>5 DEF FiscalInv
  <2>1. CanceledOK'
    BY <1>1, <2>0 DEF CanceledOK
  <2>2. ASSUME NEW d \in Clerks PROVE HeldOK(d)'
    <3>1. HeldOK(d) /\ \A e \in Clerks : Idle(e) => Idle(e)'
      BY <1>4, <2>0 DEF Idle
    <3>2. clerk'[d] = clerk[d] \/ Idle(d)'
      BY <1>4 DEF Idle
    <3> QED
      BY <1>1, <3>1, <3>2 DEF HeldOK, Idle, LookingUp
  <2> QED
    BY <2>1, <2>2
<1>11. Calm' /\ crossed' = {} => AloneOK' /\ MailedOK'
  <2> SUFFICES ASSUME Calm', crossed' = {} PROVE AloneOK' /\ MailedOK'
    OBVIOUS
  <2>0. AloneOK /\ MailedOK
    BY <1>1, <1>5 DEF FiscalInv
  <2>1. MailedOK'
    BY <1>1, <2>0 DEF MailedOK
  <2>2. AloneOK'
    BY <1>1, <1>4, <2>0 DEF AloneOK, Idle, LookingUp
  <2> QED
    BY <2>1, <2>2
<1> QED
  BY <1>5, <1>7, <1>9, <1>11 DEF FiscalInv

LEMMA RegisterByHandKeeps == ASSUME FiscalInv, RegisterByHand PROVE FiscalInv'
<1>0. FiscalRows
  BY DEF FiscalInv
<1>1. PICK status \in {"issued", "not_required", "pending"} :
        /\ payment' = [payment EXCEPT !.status = status]
        /\ byHand' = (byHand \/ Living # {} \/ \E c \in Clerks : clerk[c].pc # "idle")
        /\ UNCHANGED <<emitter, refs, clerk, mailed, losses, crossed>>
  BY DEF RegisterByHand
<1>3. payment' \in PaymentRow /\ payment'.status = status /\ payment'.ref = payment.ref
  BY <1>0, <1>1 DEF FiscalRows, PaymentRow, InvoiceStatus
<1>5. Calm' => Calm /\ Living = {} /\ \A c \in Clerks : Idle(c)
  BY <1>1 DEF Calm, Idle
<1>7. FiscalRows'
  BY <1>0, <1>1, <1>3 DEF FiscalRows
<1>9. Calm' => CanceledOK' /\ \A d \in Clerks : HeldOK(d)'
  BY <1>1, <1>3, <1>5 DEF CanceledOK, HeldOK, LookingUp, Idle
<1>10. Calm' => LivingOK'
  <2>1. Calm' => Living' = {} /\ \A c \in Clerks : Idle(c)'
    BY <1>1, <1>5 DEF Living, Idle
  <2> QED
    BY <2>1 DEF LivingOK, Idle, Posted
<1>11. Calm' /\ crossed' = {} => AloneOK' /\ MailedOK'
  <2> SUFFICES ASSUME Calm', crossed' = {} PROVE AloneOK' /\ MailedOK'
    OBVIOUS
  <2>1. MailedOK
    BY <1>1, <1>5 DEF FiscalInv
  <2>2. MailedOK'
    BY <1>1, <1>5, <2>1 DEF MailedOK, Living
  <2>3. AloneOK'
    BY <1>1, <1>5 DEF AloneOK, Idle
  <2> QED
    BY <2>2, <2>3
<1> QED
  BY <1>7, <1>9, <1>10, <1>11 DEF FiscalInv

LEMMA EmitterDecidesKeeps == ASSUME FiscalInv, EmitterDecides PROVE FiscalInv'
<1>0. FiscalRows
  BY DEF FiscalInv
<1>1. PICK r \in 1 .. MaxRefs, note \in {"authorized", "rejected"} :
        /\ emitter[r] = "processing" /\ emitter' = [emitter EXCEPT ![r] = note]
        /\ UNCHANGED <<payment, refs, clerk, calls, mailed, losses, crossed, byHand>>
  BY DEF EmitterDecides
<1>2. /\ emitter' \in [1 .. MaxRefs -> NoteStates] /\ payment.ref \in 0 .. MaxRefs
      /\ \A x \in 1 .. MaxRefs : emitter'[x] = IF x = r THEN note ELSE emitter[x]
  BY <1>0, <1>1 DEF FiscalRows, NoteStates, PaymentRow
<1>3. payment.ref # 0 /\ emitter[payment.ref] # "processing" => emitter'[payment.ref] = emitter[payment.ref]
  BY <1>1, <1>2, RefsAreNumbers
<1>5. Calm' = Calm
  BY <1>1 DEF Calm
<1>7. FiscalRows'
  BY <1>0, <1>1, <1>2 DEF FiscalRows
<1>9. Calm' => CanceledOK' /\ \A d \in Clerks : HeldOK(d)'
  <2> SUFFICES ASSUME Calm' PROVE CanceledOK' /\ \A d \in Clerks : HeldOK(d)'
    OBVIOUS
  <2>0. CanceledOK /\ \A d \in Clerks : HeldOK(d)
    BY <1>5 DEF FiscalInv
  <2>1. CanceledOK'
    BY <1>1, <1>3, <2>0 DEF CanceledOK
  <2>2. ASSUME NEW d \in Clerks PROVE HeldOK(d)'
    BY <1>1, <1>3, <2>0 DEF HeldOK, Idle, LookingUp
  <2> QED
    BY <2>1, <2>2
<1>10. Calm' /\ losses' = 0 => LivingOK'
  <2> SUFFICES ASSUME Calm', losses' = 0 PROVE LivingOK'
    OBVIOUS
  <2>1. LivingOK /\ \A d \in Clerks : HeldOK(d)
    BY <1>1, <1>5 DEF FiscalInv
  <2>2. Living' \subseteq Living
    BY <1>1, <1>2 DEF Living
  <2>3. ASSUME Living # {}, payment.status = "issued" PROVE emitter'[payment.ref] = "authorized"
    <3>1. \A d \in Clerks : ~Posted(d)
      BY <2>1, <2>3 DEF HeldOK, Posted, Emittable
    <3>2. payment.ref \in 1 .. MaxRefs
      BY <2>1, <2>3, <3>1 DEF LivingOK, Living
    <3> QED
      BY <1>1, <1>2, <2>1, <2>3, <3>2 DEF LivingOK
  <2> QED
    BY <1>1, <2>1, <2>2, <2>3 DEF LivingOK, Posted
<1>11. Calm' /\ crossed' = {} => AloneOK' /\ MailedOK'
  BY <1>1, <1>2, <1>5 DEF FiscalInv, AloneOK, MailedOK, Idle
<1> QED
  BY <1>7, <1>9, <1>10, <1>11 DEF FiscalInv

-----------------------------------------------------------------------------
LEMMA FiscalInitHolds == FiscalInit => FiscalInv
<1> SUFFICES ASSUME FiscalInit PROVE FiscalInv
  OBVIOUS
<1>1. NoRow \in PaymentRow /\ NoCall \in CallRow /\ NoCall.pc = "idle" /\ NoRow.ref = 0 /\ NoRow.status = "pending"
  BY RefsAreNumbers DEF NoCall, NoRow, CallRow, PaymentRow, InvoiceStatus
<1>2. FiscalRows
  BY <1>1, RefsAreNumbers DEF FiscalInit, FiscalRows, NoteStates
<1>3. Living = {} /\ \A c \in Clerks : clerk[c].pc = "idle"
  BY <1>1 DEF FiscalInit, Living
<1>4. CanceledOK /\ LivingOK /\ AloneOK /\ MailedOK /\ \A c \in Clerks : HeldOK(c)
  BY <1>1, <1>3 DEF FiscalInit, CanceledOK, LivingOK, AloneOK, MailedOK, HeldOK, Idle, Posted, LookingUp
<1> QED
  BY <1>2, <1>4 DEF FiscalInv

LEMMA FiscalStep == FiscalInv /\ [FiscalNext]_fiscalVars => FiscalInv'
<1> SUFFICES ASSUME FiscalInv, [FiscalNext]_fiscalVars PROVE FiscalInv'
  OBVIOUS
<1>1. CASE UNCHANGED fiscalVars
  BY <1>1 DEF fiscalVars, FiscalInv, FiscalRows, Calm, CanceledOK, HeldOK, LivingOK, Living, AloneOK, MailedOK, Idle, Posted
<1>2. CASE FiscalNext
  BY <1>2, AskEmitKeeps, PostKeeps, SaveEmissionKeeps, AskRefreshKeeps, GetKeeps, SaveRefreshKeeps, AskCancelKeeps,
     CancelAtEmitterKeeps, SaveCancellationKeeps, ClerkDiesKeeps, RegisterByHandKeeps, EmitterDecidesKeeps DEF FiscalNext
<1> QED
  BY <1>1, <1>2

\* At rest, and with nothing lost, the living note is the one of the row.
LEMMA FiscalInvIsEnough == FiscalInv => NotesKept
<1> SUFFICES ASSUME FiscalInv PROVE NotesKept
  OBVIOUS
<1>1. ASSUME Calm, losses = 0 PROVE Cardinality(Living) <= 1
  <2>1. PICK x : Living \subseteq {x}
    BY <1>1 DEF FiscalInv, LivingOK
  <2>2. Living = {} \/ Living = {x}
    BY <2>1
  <2>3. Cardinality({}) = 0 /\ Cardinality({x}) = 1
    BY FS_EmptySet, FS_Singleton
  <2> QED
    BY <2>2, <2>3
<1>2. ASSUME Calm, losses = 0, \A c \in Clerks : clerk[c].pc = "idle", Living # {}
      PROVE  payment.status \in {"processing", "issued"} /\ payment.ref \in Living
  BY <1>2 DEF FiscalInv, LivingOK, Posted
<1>3. Calm /\ payment.ref # 0 /\ payment.status = "canceled" => emitter[payment.ref] # "authorized"
  BY DEF FiscalInv, CanceledOK
<1>4. Calm /\ losses = 0 /\ Living # {} /\ payment.status = "issued" => emitter[payment.ref] = "authorized"
  BY DEF FiscalInv, LivingOK
<1>5. ASSUME Calm, crossed = {}, NEW r \in 1 .. MaxRefs PROVE mailed[r] <= 1
  BY <1>5 DEF FiscalInv, FiscalRows, MailedOK
<1> QED
  BY <1>1, <1>2, <1>3, <1>4, <1>5 DEF NotesKept, Calm

\* A payment keeps one living note at most, its row tells the truth of it, and the client is sent it once.
THEOREM NotesAreKept == FiscalSpec => []NotesKept
<1>1. FiscalSpec => []FiscalInv
  BY FiscalInitHolds, FiscalStep, PTL DEF FiscalSpec
<1> QED
  BY <1>1, FiscalInvIsEnough, PTL

-----------------------------------------------------------------------------
(* Portfolio. *)
ItemRow == [status : Statuses, asaas : Nat, note : {"none", "asked", "error"}]
Requests == {"pay", "reopen", "cancel", "charge", "note", "delete"}
DeskRow == [pc : Requests \cup {"idle", "closing", "close", "reactivate", "charged", "noted", "event"},
            item : Items \cup {NoItem}, ag : {"none", "active", "done", "canceled"},
            event : Nat \X {"none", "paid", "refunded", "deleted"}]
ChargeRow == [item : Items, state : {"pending", "paid", "refunded", "deleted"}]
PfRows ==
    /\ item \in [Items -> ItemRow] /\ agreement \in {"none", "active", "done", "canceled"}
    /\ charges \in Seq(ChargeRow) /\ notes \in [Items -> Nat]
    /\ desk \in [Desks -> DeskRow] /\ raced \subseteq Items /\ decided \subseteq Items /\ lost \in BOOLEAN

\* What the service has told: the changes each charge went through.
ToldOf(state) == CASE state = "pending" -> {} [] state = "paid" -> {"paid"} [] state = "refunded" -> {"paid", "refunded"}
                   [] state = "deleted" -> {"deleted"}
PostedOK ==
    /\ posted = {e \in (DOMAIN charges) \X {"paid", "refunded", "deleted"} : e[2] \in ToldOf(charges[e[1]].state)}
    /\ received \subseteq posted

\* A handler has an item that exists; one of the webhook has the event it recorded.
Working(d) == desk[d].pc # "idle"
Serves(d) == desk[d].event[2] # "none"
DeskOK(d) ==
    /\ Working(d) => desk[d].item \in Items /\ item[desk[d].item].status # "none"
    /\ desk[d].pc \in {"closing", "close", "reactivate"} => desk[d].item \in Instalments
    /\ desk[d].pc \in {"charge", "note", "noted", "delete", "charged"} => ~Serves(d)
    /\ desk[d].pc = "delete" => desk[d].item \in Reimbursements
    /\ desk[d].pc = "event" => Serves(d)
    /\ desk[d].pc = "charged" => desk[d].event[1] \in DOMAIN charges /\ charges[desk[d].event[1]].item = desk[d].item
    /\ Working(d) /\ Serves(d) => desk[d].event \in received /\ charges[desk[d].event[1]].item = desk[d].item
NoneYet ==
    /\ \A c \in DOMAIN charges : item[charges[c].item].status # "none"
    /\ agreement = "none" => \A i \in Instalments : item[i].status = "none"

\* Two handlers that touch an item raced on it.
AloneOn == \A d, e \in Desks : d # e /\ Working(d) /\ Working(e) => Touches(desk[d].item) \cap Touches(desk[e].item) \subseteq raced

NotesOK(i) ==
    /\ notes[i] <= 1
    /\ notes[i] > 0 => item[i].note = "asked" \/ \E d \in Desks : desk[d].pc = "noted" /\ desk[d].item = i
    /\ \A d \in Desks : desk[d].item = i =>
        /\ desk[d].pc \in {"note", "noted"} => item[i].note # "asked" /\ item[i].status # "gone"
        /\ desk[d].pc = "note" => notes[i] = 0
ChargesOK(i) ==
    /\ \A c \in DOMAIN charges : charges[c].item = i => item[i].asaas = c \/ \E d \in Desks : desk[d].pc = "charged" /\ desk[d].event[1] = c
    /\ \A d \in Desks : desk[d].item = i =>
        /\ desk[d].pc = "charge" => item[i].asaas = 0 /\ item[i].status # "gone"
        /\ desk[d].pc = "charged" => item[i].asaas = 0 /\ item[i].status # "gone"

\* While no two handlers of the instalments overlapped, a request's agreement is the one there is.
NoneOpen == \A i \in Instalments : item[i].status # "open"
AgreementOK ==
    /\ \A d \in Desks : Working(d) /\ desk[d].item \in Instalments =>
        /\ ~Serves(d) => desk[d].ag = agreement
        /\ desk[d].pc = "close" => agreement = "active" /\ NoneOpen
    /\ agreement = "done" => NoneOpen \/ \E d \in Desks : desk[d].pc = "reactivate"

\* What a charge's events did to an item nobody decided by hand.
Acting(d) == desk[d].pc \in {"event", "pay", "reopen", "cancel"}
Handled(c) == {s \in {"paid", "refunded", "deleted"} : <<c, s>> \in received /\ ~\E d \in Desks : Acting(d) /\ desk[d].event = <<c, s>>}
Due(handled) == IF "deleted" \in handled THEN "canceled" ELSE IF "paid" \in handled /\ "refunded" \notin handled THEN "paid" ELSE "open"
BooksOK(i) ==
    /\ \A c \in DOMAIN charges : charges[c].item = i => item[i].status = Due(Handled(c))
    /\ \A d \in Desks : desk[d].item = i =>
        /\ desk[d].pc \in {"charge", "charged"} => item[i].status = "open"
        /\ desk[d].pc \in {"pay", "reopen", "cancel", "delete"} => Serves(d)
        /\ desk[d].pc = "pay" => desk[d].event[2] = "paid"
        /\ desk[d].pc = "reopen" => desk[d].event[2] = "refunded"
        /\ desk[d].pc = "cancel" => desk[d].event[2] = "deleted"
        /\ desk[d].pc \in {"event", "pay"} /\ desk[d].event[2] = "paid" => <<desk[d].event[1], "refunded">> \notin received

PfInv ==
    /\ PfRows /\ PostedOK /\ NoneYet /\ AloneOn
    /\ \A d \in Desks : DeskOK(d)
    /\ ~lost => \A i \in Items \ raced : NotesOK(i) /\ ChargesOK(i)
    /\ ~lost /\ raced \cap Instalments = {} => AgreementOK
    /\ ~lost => \A i \in Items \ (raced \cup decided) : BooksOK(i)

-----------------------------------------------------------------------------
LEMMA DeskMoves ==
    ASSUME PfRows, NEW d \in Desks, NEW next \in DeskRow, desk' = [desk EXCEPT ![d] = next]
    PROVE  desk' \in [Desks -> DeskRow] /\ desk'[d] = next /\ \A e \in Desks \ {d} : desk'[e] = desk[e]
  BY DEF PfRows

LEMMA EndsMoves ==
    ASSUME PfRows, NEW d \in Desks, Ends(d)
    PROVE  desk' \in [Desks -> DeskRow] /\ desk'[d].pc = "idle" /\ \A e \in Desks \ {d} : desk'[e] = desk[e]
<1>1. IdleDesk \in DeskRow /\ IdleDesk.pc = "idle"
  BY DEF IdleDesk, DeskRow
<1> QED
  BY <1>1, DeskMoves DEF Ends

LEMMA SavesMoves ==
    ASSUME PfRows, NEW d \in Desks, NEW i \in Items, NEW row \in ItemRow, Saves(d, i, row)
    PROVE  /\ item' \in [Items -> ItemRow] /\ \A j \in Items \ {i} : item'[j] = item[j]
           /\ item'[i] = IF Exists(i) THEN row ELSE item[i]
  BY DEF PfRows, Saves

LEMMA RowOf == ASSUME PfRows, NEW i \in Items
    PROVE  /\ item[i] \in ItemRow
           /\ \A s \in Statuses : [item[i] EXCEPT !.status = s] \in ItemRow
           /\ \A n \in {"none", "asked", "error"} : [item[i] EXCEPT !.note = n] \in ItemRow
           /\ \A a \in Nat : [item[i] EXCEPT !.asaas = a] \in ItemRow
  BY DEF PfRows, ItemRow

LEMMA ChargeOf ==
    ASSUME PfRows, NEW c \in DOMAIN charges
    PROVE  /\ charges[c] \in ChargeRow /\ charges[c].item \in Items /\ charges[c].state \in {"pending", "paid", "refunded", "deleted"}
           /\ c \in Nat /\ c # 0 /\ DOMAIN charges = 1 .. Len(charges) /\ Len(charges) \in Nat
<1>1. charges \in Seq(ChargeRow) /\ DOMAIN charges = 1 .. Len(charges) /\ Len(charges) \in Nat
  BY DEF PfRows
<1>2. charges[c] \in ChargeRow
  BY <1>1
<1> QED
  BY <1>1, <1>2 DEF ChargeRow

\* A step of a handler in the middle of its work.
Moves(d) ==
    /\ Working(d) /\ desk' \in [Desks -> DeskRow] /\ \A e \in Desks \ {d} : desk'[e] = desk[e]
    /\ \/ desk'[d].pc = "idle"
       \/ desk'[d].item = desk[d].item /\ desk'[d].ag = desk[d].ag /\ desk'[d].event = desk[d].event
    /\ item' \in [Items -> ItemRow] /\ \A j \in Items \ {desk[d].item} : item'[j] = item[j]
    /\ item'[desk[d].item].status # "none"
    /\ notes' \in [Items -> Nat] /\ \A j \in Items \ {desk[d].item} : notes'[j] = notes[j]
    /\ agreement' \in {"none", "active", "done", "canceled"} /\ (agreement' = "none" => agreement = "none")
    /\ desk[d].item \notin Instalments => agreement' = agreement
    /\ UNCHANGED <<charges, posted, received, raced, decided, lost>>

\* Who works on an item without a race works alone on it, and on the agreement if it is of one.
LEMMA AloneHere ==
    ASSUME PfInv, NEW d \in Desks, Working(d), desk[d].item \notin raced, NEW e \in Desks \ {d}, Working(e)
    PROVE  desk[e].item # desk[d].item /\ (desk[d].item \in Instalments => desk[e].item \notin Instalments)
  BY DEF PfInv, AloneOn, DeskOK, Touches

LEMMA OneCharge ==
    ASSUME PfInv, ~lost, NEW d \in Desks, Working(d), desk[d].item \notin raced, desk[d].pc # "charged",
           NEW c \in DOMAIN charges, charges[c].item = desk[d].item
    PROVE  item[desk[d].item].asaas = c
<1>1. desk[d].item \in Items /\ ChargesOK(desk[d].item)
  BY DEF PfInv, DeskOK
<1>2. ASSUME NEW e \in Desks, desk[e].pc = "charged", desk[e].event[1] = c PROVE FALSE
  <2>1. desk[e].item = desk[d].item /\ Working(e) /\ e # d
    BY <1>2 DEF PfInv, DeskOK, Working
  <2> QED
    BY <2>1, AloneHere
<1> QED
  BY <1>1, <1>2 DEF ChargesOK

LEMMA ElsewhereKeeps ==
    ASSUME PfInv, NEW d \in Desks, Moves(d), DeskOK(d)', NEW i \in Items, i # desk[d].item
    PROVE  /\ NotesOK(i) => NotesOK(i)'
           /\ ChargesOK(i) => ChargesOK(i)'
           /\ BooksOK(i) => BooksOK(i)'
<1>0. /\ DeskOK(d) /\ \A e \in Desks \ {d} : desk'[e] = desk[e]
      /\ desk'[d].pc = "idle" \/ (desk'[d].item = desk[d].item /\ desk'[d].event = desk[d].event)
      /\ item'[i] = item[i] /\ notes'[i] = notes[i] /\ UNCHANGED <<charges, received>>
  BY DEF Moves, PfInv
<1>1. NotesOK(i) => NotesOK(i)'
  BY <1>0 DEF NotesOK
<1>2. ChargesOK(i) => ChargesOK(i)'
  <2> SUFFICES ASSUME ChargesOK(i) PROVE ChargesOK(i)'
    OBVIOUS
  <2>1. ASSUME NEW c \in DOMAIN charges, charges[c].item = i,
               NEW e \in Desks, desk[e].pc = "charged", desk[e].event[1] = c
        PROVE  desk'[e] = desk[e]
    BY <1>0, <2>1 DEF DeskOK
  <2>2. \A c \in DOMAIN charges : charges[c].item = i =>
            item[i].asaas = c \/ \E e \in Desks : desk'[e].pc = "charged" /\ desk'[e].event[1] = c
    BY <2>1 DEF ChargesOK
  <2>3. \A e \in Desks : desk'[e].item = i =>
            /\ desk'[e].pc = "charge" => item[i].asaas = 0 /\ item[i].status # "gone"
            /\ desk'[e].pc = "charged" => item[i].asaas = 0 /\ item[i].status # "gone"
    BY <1>0 DEF ChargesOK
  <2> QED
    BY <1>0, <2>2, <2>3 DEF ChargesOK
<1>3. BooksOK(i) => BooksOK(i)'
  <2> SUFFICES ASSUME BooksOK(i) PROVE BooksOK(i)'
    OBVIOUS
  <2>1. ASSUME NEW c \in DOMAIN charges, charges[c].item = i PROVE Handled(c)' = Handled(c)
    <3>1. ASSUME NEW s \in {"paid", "refunded", "deleted"}
          PROVE  ~(Acting(d) /\ desk[d].event = <<c, s>>) /\ ~(Acting(d) /\ desk[d].event = <<c, s>>)'
      <4>1. ~(Acting(d) /\ desk[d].event = <<c, s>>)
        BY <1>0, <2>1 DEF DeskOK, Acting, Serves, Working
      <4>2. ~(Acting(d) /\ desk[d].event = <<c, s>>)'
        BY <1>0, <2>1, <4>1 DEF DeskOK, Acting, Serves, Working
      <4> QED
        BY <4>1, <4>2
    <3>2. ASSUME NEW s \in {"paid", "refunded", "deleted"}
          PROVE  (\E e \in Desks : Acting(e) /\ desk[e].event = <<c, s>>)' <=> (\E e \in Desks : Acting(e) /\ desk[e].event = <<c, s>>)
      BY <1>0, <3>1 DEF Acting
    <3> QED
      BY <1>0, <3>2 DEF Handled
  <2>2. \A c \in DOMAIN charges : charges[c].item = i => item[i].status = Due(Handled(c)')
    BY <2>1 DEF BooksOK
  <2>3. ASSUME NEW e \in Desks, desk'[e].item = i, desk'[e].pc # "idle"
        PROVE  desk'[e] = desk[e]
    BY <1>0, <2>3
  <2> QED
    BY <1>0, <2>2, <2>3 DEF BooksOK, Serves, Due
<1> QED
  BY <1>1, <1>2, <1>3

\* Enough to show of a step, for it to keep the invariant: what it makes of its own item.
ItemHolds(i) ==
    /\ ~lost /\ i \notin raced => NotesOK(i) /\ ChargesOK(i)
    /\ ~lost /\ i \notin raced \cup decided => BooksOK(i)
AgreementHolds(d, i) ==
    i \in Instalments =>
        /\ Working(d) => (~Serves(d) => desk[d].ag = agreement) /\ (desk[d].pc = "close" => agreement = "active" /\ NoneOpen)
        /\ agreement = "done" => NoneOpen \/ \E e \in Desks : desk[e].pc = "reactivate"

LEMMA MovesKeeps ==
    ASSUME PfInv, NEW d \in Desks, NEW i, i = desk[d].item, Moves(d), DeskOK(d)', ItemHolds(i)',
           ~lost /\ raced \cap Instalments = {} => AgreementHolds(d, i)'
    PROVE  PfInv'
<1>0. /\ Working(d) /\ desk' \in [Desks -> DeskRow] /\ \A e \in Desks \ {d} : desk'[e] = desk[e]
      /\ \/ desk'[d].pc = "idle"
         \/ desk'[d].item = desk[d].item /\ desk'[d].ag = desk[d].ag /\ desk'[d].event = desk[d].event
      /\ item' \in [Items -> ItemRow] /\ \A j \in Items \ {desk[d].item} : item'[j] = item[j]
      /\ item'[desk[d].item].status # "none"
      /\ notes' \in [Items -> Nat] /\ \A j \in Items \ {desk[d].item} : notes'[j] = notes[j]
      /\ agreement' \in {"none", "active", "done", "canceled"} /\ (agreement' = "none" => agreement = "none")
      /\ desk[d].item \notin Instalments => agreement' = agreement
      /\ UNCHANGED <<charges, posted, received, raced, decided, lost>>
  BY DEF Moves
<1>1. i \in Items /\ item[i].status # "none" /\ PfRows /\ PostedOK /\ NoneYet /\ AloneOn
  BY <1>0 DEF PfInv, DeskOK
<1>2. PfRows' /\ PostedOK'
  BY <1>0, <1>1 DEF PfRows, PostedOK
<1>3. NoneYet'
  <2>1. \A c \in DOMAIN charges : charges[c].item \in Items
    BY <1>1, ChargeOf
  <2>2. \A j \in Items : item[j].status # "none" => item'[j].status # "none"
    BY <1>0
  <2>3. Instalments \subseteq Items /\ (agreement = "none" => i \notin Instalments)
    BY <1>1 DEF Items, NoneYet
  <2> QED
    BY <1>0, <1>1, <2>1, <2>2, <2>3 DEF NoneYet
<1>4. AloneOn'
  BY <1>0, <1>1 DEF AloneOn, Working, Touches
<1>5. ASSUME NEW e \in Desks PROVE DeskOK(e)'
  <2>1. CASE e = d
    BY <2>1
  <2>2. CASE e # d
    <3>1. DeskOK(e) /\ desk'[e] = desk[e]
      BY <1>0, <2>2 DEF PfInv
    <3>2. desk[e].item \in Items /\ item[desk[e].item].status # "none" => item'[desk[e].item].status # "none"
      BY <1>0
    <3> QED
      BY <1>0, <3>1, <3>2 DEF DeskOK, Working, Serves
  <2> QED
    BY <2>1, <2>2
<1>6. ASSUME NEW j \in Items PROVE ItemHolds(j)'
  <2>1. CASE j = i
    BY <2>1
  <2>2. CASE j # i
    <3>1. ItemHolds(j)
      BY DEF PfInv, ItemHolds
    <3>2. (NotesOK(j) => NotesOK(j)') /\ (ChargesOK(j) => ChargesOK(j)') /\ (BooksOK(j) => BooksOK(j)')
      BY <2>2, ElsewhereKeeps
    <3> QED
      BY <1>0, <3>1, <3>2 DEF ItemHolds
  <2> QED
    BY <2>1, <2>2
<1>7. ASSUME ~lost', raced' \cap Instalments = {} PROVE AgreementOK'
  <2>0. AgreementOK /\ AgreementHolds(d, i)' /\ ~lost /\ raced \cap Instalments = {}
    BY <1>0, <1>7 DEF PfInv
  <2>1. CASE i \in Instalments
    <3>1. \A e \in Desks \ {d} : Working(e) => desk[e].item \notin Instalments
      BY <1>0, <2>0, <2>1, AloneHere
    <3>2. ASSUME NEW e \in Desks, Working(e)', desk'[e].item \in Instalments PROVE e = d
      BY <1>0, <3>1, <3>2 DEF Working
    <3> QED
      BY <2>0, <2>1, <3>2 DEF AgreementHolds, AgreementOK
  <2>2. CASE i \notin Instalments
    <3>1. NoneOpen' = NoneOpen /\ agreement' = agreement
      BY <1>0, <2>2 DEF NoneOpen, Items
    <3>2. ASSUME NEW e \in Desks, Working(e)', desk'[e].item \in Instalments PROVE desk'[e] = desk[e]
      BY <1>0, <2>2, <3>2 DEF Working
    <3>3. ASSUME NEW e \in Desks, desk[e].pc = "reactivate" PROVE desk'[e] = desk[e]
      BY <1>0, <2>2, <3>3 DEF PfInv, DeskOK
    <3> QED
      BY <2>0, <3>1, <3>2, <3>3 DEF AgreementOK, Working, Serves
  <2> QED
    BY <2>1, <2>2
<1> QED
  BY <1>2, <1>3, <1>4, <1>5, <1>6, <1>7 DEF PfInv, ItemHolds

-----------------------------------------------------------------------------
\* The events a charge had handled, after a handler of it stops acting on one.
LEMMA HandledAfter ==
    ASSUME PfInv, NEW d \in Desks, Moves(d), ~Acting(d)',
           desk[d].item \notin raced, NEW c \in DOMAIN charges, charges[c].item = desk[d].item
    PROVE  /\ Acting(d) /\ Serves(d) /\ desk[d].event[1] = c => Handled(c)' = Handled(c) \cup {desk[d].event[2]}
           /\ ~(Acting(d) /\ Serves(d)) => Handled(c)' = Handled(c)
<1>0. /\ Working(d) /\ desk' \in [Desks -> DeskRow] /\ (\A e \in Desks \ {d} : desk'[e] = desk[e]) /\ UNCHANGED received
      /\ DeskOK(d) /\ desk[d] \in DeskRow
  BY DEF Moves, PfInv, PfRows
<1>1. ASSUME NEW e \in Desks \ {d}, NEW s \in {"paid", "refunded", "deleted"}, Acting(e), desk[e].event = <<c, s>> PROVE FALSE
  <2>1. Working(e) /\ desk[e].item = desk[d].item
    BY <1>1 DEF PfInv, DeskOK, Acting, Working, Serves
  <2> QED
    BY <1>0, <2>1, AloneHere
<1>2. ASSUME NEW e \in Desks, NEW s \in {"paid", "refunded", "deleted"}, (Acting(e) /\ desk[e].event = <<c, s>>)' PROVE FALSE
  <2>1. e # d /\ desk'[e] = desk[e]
    BY <1>0, <1>2
  <2> QED
    BY <1>1, <1>2, <2>1 DEF Acting
<1>3. Handled(c)' = {s \in {"paid", "refunded", "deleted"} : <<c, s>> \in received}
  BY <1>0, <1>2 DEF Handled
<1>4. Handled(c) = {s \in {"paid", "refunded", "deleted"} : <<c, s>> \in received /\ ~(Acting(d) /\ desk[d].event = <<c, s>>)}
  BY <1>1 DEF Handled
<1>5. ASSUME Acting(d), Serves(d), desk[d].event[1] = c PROVE Handled(c)' = Handled(c) \cup {desk[d].event[2]}
  <2>1. desk[d].event \in Nat \X {"none", "paid", "refunded", "deleted"} /\ desk[d].event[2] # "none" /\ desk[d].event \in received
    BY <1>0, <1>5 DEF DeskRow, Serves, DeskOK
  <2>2. PICK s \in {"paid", "refunded", "deleted"} : desk[d].event = <<c, s>> /\ <<c, s>> \in received /\ desk[d].event[2] = s
    BY <1>5, <2>1
  <2>3. Handled(c) = {x \in {"paid", "refunded", "deleted"} : <<c, x>> \in received} \ {s}
    BY <1>4, <1>5, <2>2
  <2> QED
    BY <1>3, <2>2, <2>3
<1>6. ASSUME ~(Acting(d) /\ Serves(d)) PROVE Handled(c)' = Handled(c)
  <2>1. \A s \in {"paid", "refunded", "deleted"} : ~(Acting(d) /\ desk[d].event = <<c, s>>)
    BY <1>6 DEF Serves
  <2> QED
    BY <1>3, <1>4, <2>1
<1> QED
  BY <1>5, <1>6

\* The changes of a charge that were told.
LEMMA WhatWasTold ==
    ASSUME PfInv, NEW c \in DOMAIN charges
    PROVE  /\ <<c, "deleted">> \in received => <<c, "paid">> \notin received /\ <<c, "refunded">> \notin received
           /\ \A s \in {"paid", "refunded", "deleted"} : <<c, s>> \in posted <=> s \in ToldOf(charges[c].state)
<1>1. \A s \in {"paid", "refunded", "deleted"} : <<c, s>> \in posted <=> s \in ToldOf(charges[c].state)
  BY DEF PfInv, PostedOK
<1>2. charges[c].state \in {"pending", "paid", "refunded", "deleted"}
  BY ChargeOf DEF PfInv
<1>3. received \subseteq posted
  BY DEF PfInv, PostedOK
<1> QED
  BY <1>1, <1>2, <1>3 DEF ToldOf

LEMMA HandledStill ==
    ASSUME PfInv, NEW d \in Desks, Moves(d), Acting(d), Acting(d)', NEW c PROVE Handled(c)' = Handled(c)
<1>1. UNCHANGED received /\ \A e \in Desks : Acting(e)' = Acting(e) /\ (Acting(e) => desk'[e].event = desk[e].event)
  BY DEF Moves, Acting
<1> QED
  BY <1>1 DEF Handled

\* Steps that leave the note and the charge of their item alone.
LEMMA AskedStays ==
    ASSUME PfInv, NEW d \in Desks, NEW i, i = desk[d].item, Moves(d), ~lost, i \notin raced,
           desk[d].pc \notin {"charged", "noted"}, desk'[d].pc \notin {"charge", "charged", "note", "noted"},
           item'[i].asaas = item[i].asaas, item'[i].note = item[i].note, notes'[i] = notes[i]
    PROVE  NotesOK(i)' /\ ChargesOK(i)'
<1>0. /\ Working(d) /\ i \in Items /\ (\A e \in Desks \ {d} : desk'[e] = desk[e]) /\ charges' = charges
      /\ NotesOK(i) /\ ChargesOK(i)
  BY DEF Moves, PfInv, DeskOK
<1>1. \A e \in Desks : (desk'[e].item = i /\ desk'[e].pc # "idle") => e = d
  BY <1>0, AloneHere DEF Working
<1>2. NotesOK(i)'
  BY <1>0, <1>1 DEF NotesOK
<1>3. ChargesOK(i)'
  BY <1>0, <1>1 DEF ChargesOK
<1> QED
  BY <1>2, <1>3

LEMMA BooksStay ==
    ASSUME PfInv, NEW d \in Desks, NEW i, i = desk[d].item, Moves(d), i \notin raced,
           desk'[d].pc \notin {"charge", "charged", "pay", "reopen", "cancel", "delete", "event"},
           \A c \in DOMAIN charges : charges[c].item = i => item'[i].status = Due(Handled(c)')
    PROVE  BooksOK(i)'
<1>0. Working(d) /\ (\A e \in Desks \ {d} : desk'[e] = desk[e]) /\ charges' = charges
  BY DEF Moves
<1>1. \A e \in Desks : (desk'[e].item = i /\ desk'[e].pc # "idle") => e = d
  BY <1>0, AloneHere DEF Working
<1>2. \A e \in Desks : desk'[e].item = i =>
        desk'[e].pc \notin {"charge", "charged", "pay", "reopen", "cancel", "delete", "event"}
  BY <1>1
<1> QED
  BY <1>0, <1>2 DEF BooksOK, Due

LEMMA AgreementStays ==
    ASSUME PfInv, NEW d \in Desks, NEW i, i = desk[d].item, Moves(d), ~lost, raced \cap Instalments = {},
           agreement' = agreement, desk[d].pc # "reactivate", desk'[d].pc # "close",
           item'[i].status = "open" => item[i].status = "open"
    PROVE  AgreementHolds(d, i)'
<1> SUFFICES ASSUME i \in Instalments PROVE AgreementHolds(d, i)'
  BY DEF AgreementHolds
<1>0. /\ Working(d) /\ (\A e \in Desks \ {d} : desk'[e] = desk[e]) /\ AgreementOK
      /\ desk'[d].pc = "idle" \/ (desk'[d].ag = desk[d].ag /\ desk'[d].event = desk[d].event)
      /\ \A j \in Items \ {i} : item'[j] = item[j]
  BY DEF Moves, PfInv
<1>1. NoneOpen => NoneOpen'
  BY <1>0 DEF NoneOpen, Items
<1>2. \A e \in Desks : desk[e].pc = "reactivate" => desk'[e] = desk[e]
  BY <1>0
<1> QED
  BY <1>0, <1>1, <1>2 DEF AgreementHolds, AgreementOK, Working, Serves

\* The charge an event speaks of is the one its item has.
LEMMA TheCharge ==
    ASSUME PfInv, ~lost, NEW d \in Desks, Working(d), Serves(d), desk[d].item \notin raced \cup decided,
           NEW c \in DOMAIN charges, charges[c].item = desk[d].item
    PROVE  desk[d].event[1] = c /\ item[desk[d].item].asaas = c /\ desk[d].event = <<c, desk[d].event[2]>>
<1>1. desk[d].pc # "charged" /\ desk[d].event \in received /\ charges[desk[d].event[1]].item = desk[d].item
  BY DEF PfInv, DeskOK
<1>2. received \subseteq posted /\ \A e \in posted : e[1] \in DOMAIN charges /\ e = <<e[1], e[2]>>
  BY DEF PfInv, PostedOK
<1> QED
  BY <1>1, <1>2, OneCharge

LEMMA Dues ==
    \A h \in SUBSET {"paid", "refunded", "deleted"} :
        /\ Due(h) \in {"open", "paid", "canceled"}
        /\ "deleted" \notin h /\ "refunded" \notin h => Due(h \cup {"paid"}) = "paid"
        /\ "deleted" \notin h => Due(h \cup {"refunded"}) = "open"
        /\ Due(h \cup {"deleted"}) = "canceled"
  BY DEF Due

LEMMA HandledIn == \A c : Handled(c) \in SUBSET {"paid", "refunded", "deleted"} /\ \A s \in Handled(c) : <<c, s>> \in received
  BY DEF Handled

LEMMA ItsItem ==
    ASSUME PfInv, NEW d \in Desks, Working(d)
    PROVE  desk[d].item \in Items /\ item[desk[d].item].status # "none" /\ PfRows /\ DeskOK(d) /\ desk[d] \in DeskRow
           /\ item[desk[d].item] \in ItemRow /\ agreement \in {"none", "active", "done", "canceled"}
<1>1. desk[d].item \in Items /\ item[desk[d].item].status # "none" /\ PfRows /\ DeskOK(d)
  BY DEF PfInv, DeskOK
<1> QED
  BY <1>1 DEF PfRows

LEMMA PayKeeps == ASSUME PfInv, NEW d \in Desks, Pay(d) PROVE PfInv'
<1>0. PICK i : i = desk[d].item
  OBVIOUS
<1> USE <1>0
<1> DEFINE row == [item[i] EXCEPT !.status = "paid"]
           next == IF Exists(i) /\ i \in Instalments THEN [desk[d] EXCEPT !.pc = "closing"] ELSE IdleDesk
<1>1. /\ desk[d].pc = "pay" /\ Working(d) /\ Saves(d, i, row) /\ desk' = [desk EXCEPT ![d] = next]
      /\ UNCHANGED <<agreement, charges, notes, posted, received, work, raced, decided, lost>>
  BY DEF Pay, Working
<1>2. i \in Items /\ item[i].status # "none" /\ PfRows /\ DeskOK(d) /\ desk[d] \in DeskRow /\ item[i] \in ItemRow
  BY <1>1, ItsItem
<1>3. row \in ItemRow /\ row.status = "paid" /\ row.asaas = item[i].asaas /\ row.note = item[i].note
  BY <1>2 DEF ItemRow, Statuses
<1>4. /\ next \in DeskRow
      /\ next.pc = "idle" \/ (next.pc = "closing" /\ i \in Instalments /\ next.item = i /\ next.ag = desk[d].ag /\ next.event = desk[d].event)
  BY <1>2 DEF DeskRow, IdleDesk
<1> HIDE DEF next, row
<1>5. desk' \in [Desks -> DeskRow] /\ desk'[d] = next /\ \A e \in Desks \ {d} : desk'[e] = desk[e]
  BY <1>1, <1>2, <1>4, DeskMoves
<1>6. /\ item' \in [Items -> ItemRow] /\ \A j \in Items \ {i} : item'[j] = item[j]
      /\ item'[i] = IF Exists(i) THEN row ELSE item[i]
  BY <1>1, <1>2, <1>3, SavesMoves
<1>7. /\ item'[i].status # "none" /\ item'[i].asaas = item[i].asaas /\ item'[i].note = item[i].note
      /\ item'[i].status = "open" => item[i].status = "open"
  BY <1>2, <1>3, <1>6
<1>8. Moves(d)
  BY <1>1, <1>2, <1>4, <1>5, <1>6, <1>7 DEF Moves, PfRows
<1>9. DeskOK(d)'
  BY <1>1, <1>2, <1>4, <1>5, <1>7 DEF DeskOK, Working, Serves
<1>10. ASSUME ~lost, i \notin raced PROVE NotesOK(i)' /\ ChargesOK(i)'
  BY <1>1, <1>4, <1>5, <1>7, <1>8, <1>10, AskedStays
<1>11. ASSUME ~lost, i \notin raced \cup decided PROVE BooksOK(i)'
  <2>0. BooksOK(i) /\ Acting(d) /\ ~Acting(d)' /\ desk'[d].pc \notin {"charge", "charged", "pay", "reopen", "cancel", "delete", "event"}
    BY <1>1, <1>2, <1>4, <1>5, <1>11 DEF PfInv, Acting
  <2>1. Serves(d) /\ desk[d].event[2] = "paid" /\ <<desk[d].event[1], "refunded">> \notin received /\ desk[d].event \in received
    BY <1>1, <1>2, <2>0 DEF BooksOK, DeskOK
  <2>2. ASSUME NEW c \in DOMAIN charges, charges[c].item = i PROVE item'[i].status = Due(Handled(c)')
    <3>1. desk[d].event[1] = c /\ desk[d].event = <<c, "paid">>
      BY <1>1, <1>11, <2>1, <2>2, TheCharge
    <3>2. <<c, "deleted">> \notin received /\ <<c, "refunded">> \notin received
      BY <2>1, <2>2, <3>1, WhatWasTold
    <3>3. Handled(c)' = Handled(c) \cup {"paid"}
      BY <1>8, <1>11, <2>0, <2>1, <2>2, <3>1, HandledAfter
    <3>4. Due(Handled(c)') = "paid" /\ Due(Handled(c)) \in {"open", "paid", "canceled"}
      BY <3>2, <3>3, HandledIn, Dues
    <3>5. Exists(i)
      BY <1>2, <2>0, <2>2, <3>4 DEF BooksOK, Exists
    <3> QED
      BY <1>3, <1>6, <3>4, <3>5
  <2> QED
    BY <1>8, <1>11, <2>0, <2>2, BooksStay
<1>12. ItemHolds(i)'
  BY <1>1, <1>10, <1>11 DEF ItemHolds
<1>13. ~lost /\ raced \cap Instalments = {} => AgreementHolds(d, i)'
  BY <1>1, <1>4, <1>5, <1>7, <1>8, AgreementStays
<1> QED
  BY <1>8, <1>9, <1>12, <1>13, MovesKeeps

LEMMA ReopenKeeps == ASSUME PfInv, NEW d \in Desks, Reopen(d) PROVE PfInv'
<1>0. PICK i : i = desk[d].item
  OBVIOUS
<1> USE <1>0
<1> DEFINE row == [item[i] EXCEPT !.status = "open"]
           next == IF Exists(i) /\ i \in Instalments THEN [desk[d] EXCEPT !.pc = "reactivate"] ELSE IdleDesk
<1>1. /\ desk[d].pc = "reopen" /\ Working(d) /\ Saves(d, i, row) /\ desk' = [desk EXCEPT ![d] = next]
      /\ UNCHANGED <<agreement, charges, notes, posted, received, work, raced, decided, lost>>
  BY DEF Reopen, Working
<1>2. i \in Items /\ item[i].status # "none" /\ PfRows /\ DeskOK(d) /\ desk[d] \in DeskRow /\ item[i] \in ItemRow
  BY <1>1, ItsItem
<1>3. row \in ItemRow /\ row.status = "open" /\ row.asaas = item[i].asaas /\ row.note = item[i].note
  BY <1>2 DEF ItemRow, Statuses
<1>4. /\ next \in DeskRow
      /\ \/ next.pc = "idle" /\ ~(Exists(i) /\ i \in Instalments)
         \/ next.pc = "reactivate" /\ i \in Instalments /\ next.item = i /\ next.ag = desk[d].ag /\ next.event = desk[d].event
  BY <1>2 DEF DeskRow, IdleDesk
<1> HIDE DEF next, row
<1>5. desk' \in [Desks -> DeskRow] /\ desk'[d] = next /\ \A e \in Desks \ {d} : desk'[e] = desk[e]
  BY <1>1, <1>2, <1>4, DeskMoves
<1>6. /\ item' \in [Items -> ItemRow] /\ \A j \in Items \ {i} : item'[j] = item[j]
      /\ item'[i] = IF Exists(i) THEN row ELSE item[i]
  BY <1>1, <1>2, <1>3, SavesMoves
<1>7. item'[i].status # "none" /\ item'[i].asaas = item[i].asaas /\ item'[i].note = item[i].note
  BY <1>2, <1>3, <1>6
<1>8. Moves(d)
  BY <1>1, <1>2, <1>4, <1>5, <1>6, <1>7 DEF Moves, PfRows
<1>9. DeskOK(d)'
  BY <1>1, <1>2, <1>4, <1>5, <1>7 DEF DeskOK, Working, Serves
<1>10. ASSUME ~lost, i \notin raced PROVE NotesOK(i)' /\ ChargesOK(i)'
  BY <1>1, <1>4, <1>5, <1>7, <1>8, <1>10, AskedStays
<1>11. ASSUME ~lost, i \notin raced \cup decided PROVE BooksOK(i)'
  <2>0. BooksOK(i) /\ Acting(d) /\ ~Acting(d)' /\ desk'[d].pc \notin {"charge", "charged", "pay", "reopen", "cancel", "delete", "event"}
    BY <1>1, <1>2, <1>4, <1>5, <1>11 DEF PfInv, Acting
  <2>1. Serves(d) /\ desk[d].event[2] = "refunded" /\ desk[d].event \in received
    BY <1>1, <1>2, <2>0 DEF BooksOK, DeskOK
  <2>2. ASSUME NEW c \in DOMAIN charges, charges[c].item = i PROVE item'[i].status = Due(Handled(c)')
    <3>1. desk[d].event[1] = c /\ desk[d].event = <<c, "refunded">>
      BY <1>1, <1>11, <2>1, <2>2, TheCharge
    <3>2. <<c, "deleted">> \notin received
      BY <2>1, <2>2, <3>1, WhatWasTold
    <3>3. Handled(c)' = Handled(c) \cup {"refunded"}
      BY <1>8, <1>11, <2>0, <2>1, <2>2, <3>1, HandledAfter
    <3>4. Due(Handled(c)') = "open" /\ Due(Handled(c)) \in {"open", "paid", "canceled"}
      BY <3>2, <3>3, HandledIn, Dues
    <3>5. Exists(i)
      BY <1>2, <2>0, <2>2, <3>4 DEF BooksOK, Exists
    <3> QED
      BY <1>3, <1>6, <3>4, <3>5
  <2> QED
    BY <1>8, <1>11, <2>0, <2>2, BooksStay
<1>12. ItemHolds(i)'
  BY <1>1, <1>10, <1>11 DEF ItemHolds
<1>13. ~lost /\ raced \cap Instalments = {} => AgreementHolds(d, i)'
  <2> SUFFICES ASSUME ~lost, raced \cap Instalments = {} PROVE AgreementHolds(d, i)'
    OBVIOUS
  <2>1. CASE desk'[d].pc = "reactivate"
    <3>1. i \in Instalments => (~Serves(d) => desk[d].ag = agreement)
      BY <1>1 DEF PfInv, AgreementOK
    <3> QED
      BY <1>1, <1>4, <1>5, <2>1, <3>1 DEF AgreementHolds, Serves
  <2>2. CASE desk'[d].pc # "reactivate"
    <3>1. i \in Instalments => item'[i] = item[i]
      BY <1>4, <1>5, <1>6, <2>2
    <3>2. i \in Instalments => AgreementHolds(d, i)'
      BY <1>1, <1>4, <1>5, <1>8, <3>1, AgreementStays
    <3> QED
      BY <3>2 DEF AgreementHolds
  <2> QED
    BY <2>1, <2>2
<1> QED
  BY <1>8, <1>9, <1>12, <1>13, MovesKeeps

LEMMA CancelItemKeeps == ASSUME PfInv, NEW d \in Desks, CancelItem(d) PROVE PfInv'
<1>0. PICK i : i = desk[d].item
  OBVIOUS
<1> USE <1>0
<1> DEFINE row == [item[i] EXCEPT !.status = "canceled"]
<1>1. /\ desk[d].pc = "cancel" /\ Working(d) /\ Saves(d, i, row) /\ Ends(d)
      /\ UNCHANGED <<agreement, charges, notes, posted, received, work, raced, decided, lost>>
  BY DEF CancelItem, Working
<1>2. i \in Items /\ item[i].status # "none" /\ PfRows /\ DeskOK(d) /\ desk[d] \in DeskRow /\ item[i] \in ItemRow
  BY <1>1, ItsItem
<1>3. row \in ItemRow /\ row.status = "canceled" /\ row.asaas = item[i].asaas /\ row.note = item[i].note
  BY <1>2 DEF ItemRow, Statuses
<1> HIDE DEF row
<1>5. desk' \in [Desks -> DeskRow] /\ desk'[d].pc = "idle" /\ \A e \in Desks \ {d} : desk'[e] = desk[e]
  BY <1>1, <1>2, EndsMoves
<1>6. /\ item' \in [Items -> ItemRow] /\ \A j \in Items \ {i} : item'[j] = item[j]
      /\ item'[i] = IF Exists(i) THEN row ELSE item[i]
  BY <1>1, <1>2, <1>3, SavesMoves
<1>7. /\ item'[i].status # "none" /\ item'[i].asaas = item[i].asaas /\ item'[i].note = item[i].note
      /\ item'[i].status = "open" => item[i].status = "open"
  BY <1>2, <1>3, <1>6
<1>8. Moves(d)
  BY <1>1, <1>2, <1>5, <1>6, <1>7 DEF Moves, PfRows
<1>9. DeskOK(d)'
  BY <1>5 DEF DeskOK, Working
<1>10. ASSUME ~lost, i \notin raced PROVE NotesOK(i)' /\ ChargesOK(i)'
  BY <1>1, <1>5, <1>7, <1>8, <1>10, AskedStays
<1>11. ASSUME ~lost, i \notin raced \cup decided PROVE BooksOK(i)'
  <2>0. BooksOK(i) /\ Acting(d) /\ ~Acting(d)'
    BY <1>1, <1>2, <1>5, <1>11 DEF PfInv, Acting
  <2>1. Serves(d) /\ desk[d].event[2] = "deleted" /\ desk[d].event \in received
    BY <1>1, <1>2, <2>0 DEF BooksOK, DeskOK
  <2>2. ASSUME NEW c \in DOMAIN charges, charges[c].item = i PROVE item'[i].status = Due(Handled(c)')
    <3>1. desk[d].event[1] = c
      BY <1>1, <1>11, <2>1, <2>2, TheCharge
    <3>3. Handled(c)' = Handled(c) \cup {"deleted"}
      BY <1>8, <1>11, <2>0, <2>1, <2>2, <3>1, HandledAfter
    <3>4. Due(Handled(c)') = "canceled" /\ Due(Handled(c)) \in {"open", "paid", "canceled"}
      BY <3>3, HandledIn, Dues
    <3>5. Exists(i)
      BY <1>2, <2>0, <2>2, <3>4 DEF BooksOK, Exists
    <3> QED
      BY <1>3, <1>6, <3>4, <3>5
  <2> QED
    BY <1>5, <1>8, <1>11, <2>0, <2>2, BooksStay
<1>12. ItemHolds(i)'
  BY <1>1, <1>10, <1>11 DEF ItemHolds
<1>13. ~lost /\ raced \cap Instalments = {} => AgreementHolds(d, i)'
  BY <1>1, <1>5, <1>7, <1>8, AgreementStays
<1> QED
  BY <1>8, <1>9, <1>12, <1>13, MovesKeeps

\* A step that leaves its item and its charges' events as they are.
LEMMA BooksUntouched ==
    ASSUME PfInv, NEW d \in Desks, NEW i, i = desk[d].item, Moves(d), ~lost, i \notin raced \cup decided, ~Acting(d), ~Acting(d)',
           desk'[d].pc \notin {"charge", "charged", "delete"}, item'[i].status = item[i].status
    PROVE  BooksOK(i)'
<1>1. BooksOK(i) /\ i \notin raced
  BY ItsItem DEF PfInv, Moves
<1>2. ASSUME NEW c \in DOMAIN charges, charges[c].item = i PROVE item'[i].status = Due(Handled(c)')
  BY <1>1, <1>2, HandledAfter DEF BooksOK
<1> QED
  BY <1>1, <1>2, BooksStay DEF Acting

LEMMA CloseIfDoneKeeps == ASSUME PfInv, NEW d \in Desks, CloseIfDone(d) PROVE PfInv'
<1>0. PICK i : i = desk[d].item
  OBVIOUS
<1> USE <1>0
<1> DEFINE ag == IF desk[d].event[2] = "none" THEN desk[d].ag ELSE agreement
           done == ag = "active" /\ ~\E j \in Instalments : item[j].status = "open"
           next == IF done THEN [desk[d] EXCEPT !.pc = "close"] ELSE IdleDesk
<1>1. /\ desk[d].pc = "closing" /\ Working(d) /\ desk' = [desk EXCEPT ![d] = next]
      /\ UNCHANGED <<item, agreement, charges, notes, posted, received, work, raced, decided, lost>>
  BY DEF CloseIfDone, Working
<1>2. i \in Items /\ item[i].status # "none" /\ PfRows /\ DeskOK(d) /\ desk[d] \in DeskRow /\ item[i] \in ItemRow
      /\ i \in Instalments
  BY <1>1, ItsItem DEF DeskOK
<1>4. /\ next \in DeskRow
      /\ \/ next.pc = "idle"
         \/ next.pc = "close" /\ next.item = i /\ next.ag = desk[d].ag /\ next.event = desk[d].event /\ ag = "active" /\ NoneOpen
  BY <1>2 DEF DeskRow, IdleDesk, NoneOpen
<1> HIDE DEF next
<1>5. desk' \in [Desks -> DeskRow] /\ desk'[d] = next /\ \A e \in Desks \ {d} : desk'[e] = desk[e]
  BY <1>1, <1>2, <1>4, DeskMoves
<1>8. Moves(d)
  BY <1>1, <1>2, <1>4, <1>5 DEF Moves, PfRows
<1>9. DeskOK(d)'
  BY <1>1, <1>2, <1>4, <1>5 DEF DeskOK, Working, Serves
<1>10. ASSUME ~lost, i \notin raced PROVE NotesOK(i)' /\ ChargesOK(i)'
  BY <1>1, <1>4, <1>5, <1>8, <1>10, AskedStays
<1>11. ASSUME ~lost, i \notin raced \cup decided PROVE BooksOK(i)'
  BY <1>1, <1>4, <1>5, <1>8, <1>11, BooksUntouched DEF Acting
<1>12. ItemHolds(i)'
  BY <1>1, <1>10, <1>11 DEF ItemHolds
<1>13. ~lost /\ raced \cap Instalments = {} => AgreementHolds(d, i)'
  <2> SUFFICES ASSUME ~lost, raced \cap Instalments = {} PROVE AgreementHolds(d, i)'
    OBVIOUS
  <2>1. CASE desk'[d].pc = "close"
    <3>1. ag = agreement /\ (~Serves(d) => desk[d].ag = agreement)
      BY <1>1, <1>2 DEF PfInv, AgreementOK, Serves
    <3>2. NoneOpen' = NoneOpen
      BY <1>1 DEF NoneOpen
    <3> QED
      BY <1>1, <1>4, <1>5, <2>1, <3>1, <3>2 DEF AgreementHolds, Serves
  <2>2. CASE desk'[d].pc # "close"
    BY <1>1, <1>8, <2>2, AgreementStays
  <2> QED
    BY <2>1, <2>2
<1> QED
  BY <1>8, <1>9, <1>12, <1>13, MovesKeeps

LEMMA CloseKeeps == ASSUME PfInv, NEW d \in Desks, Close(d) PROVE PfInv'
<1>0. PICK i : i = desk[d].item
  OBVIOUS
<1> USE <1>0
<1>1. /\ desk[d].pc = "close" /\ Working(d) /\ Ends(d) /\ agreement' = "done"
      /\ UNCHANGED <<item, charges, notes, posted, received, work, raced, decided, lost>>
  BY DEF Close, Working
<1>2. i \in Items /\ item[i].status # "none" /\ PfRows /\ DeskOK(d) /\ i \in Instalments
  BY <1>1, ItsItem DEF DeskOK
<1>5. desk' \in [Desks -> DeskRow] /\ desk'[d].pc = "idle" /\ \A e \in Desks \ {d} : desk'[e] = desk[e]
  BY <1>1, <1>2, EndsMoves
<1>8. Moves(d)
  BY <1>1, <1>2, <1>5 DEF Moves, PfRows
<1>9. DeskOK(d)'
  BY <1>5 DEF DeskOK, Working
<1>10. ASSUME ~lost, i \notin raced PROVE NotesOK(i)' /\ ChargesOK(i)'
  BY <1>1, <1>5, <1>8, <1>10, AskedStays
<1>11. ASSUME ~lost, i \notin raced \cup decided PROVE BooksOK(i)'
  BY <1>1, <1>5, <1>8, <1>11, BooksUntouched DEF Acting
<1>12. ItemHolds(i)'
  BY <1>1, <1>10, <1>11 DEF ItemHolds
<1>13. ~lost /\ raced \cap Instalments = {} => AgreementHolds(d, i)'
  <2> SUFFICES ASSUME ~lost, raced \cap Instalments = {} PROVE AgreementHolds(d, i)'
    OBVIOUS
  <2>1. NoneOpen /\ NoneOpen' = NoneOpen
    BY <1>1, <1>2 DEF PfInv, AgreementOK, NoneOpen
  <2> QED
    BY <1>5, <2>1 DEF AgreementHolds, Working
<1> QED
  BY <1>8, <1>9, <1>12, <1>13, MovesKeeps

LEMMA ReactivateKeeps == ASSUME PfInv, NEW d \in Desks, Reactivate(d) PROVE PfInv'
<1>0. PICK i : i = desk[d].item
  OBVIOUS
<1> USE <1>0
<1>1. /\ desk[d].pc = "reactivate" /\ Working(d) /\ Ends(d)
      /\ agreement' = IF (IF desk[d].event[2] = "none" THEN desk[d].ag ELSE agreement) = "done" THEN "active" ELSE agreement
      /\ UNCHANGED <<item, charges, notes, posted, received, work, raced, decided, lost>>
  BY DEF Reactivate, Working
<1>2. i \in Items /\ item[i].status # "none" /\ PfRows /\ DeskOK(d) /\ i \in Instalments
  BY <1>1, ItsItem DEF DeskOK
<1>5. desk' \in [Desks -> DeskRow] /\ desk'[d].pc = "idle" /\ \A e \in Desks \ {d} : desk'[e] = desk[e]
  BY <1>1, <1>2, EndsMoves
<1>8. Moves(d)
  BY <1>1, <1>2, <1>5 DEF Moves, PfRows
<1>9. DeskOK(d)'
  BY <1>5 DEF DeskOK, Working
<1>10. ASSUME ~lost, i \notin raced PROVE NotesOK(i)' /\ ChargesOK(i)'
  BY <1>1, <1>5, <1>8, <1>10, AskedStays
<1>11. ASSUME ~lost, i \notin raced \cup decided PROVE BooksOK(i)'
  BY <1>1, <1>5, <1>8, <1>11, BooksUntouched DEF Acting
<1>12. ItemHolds(i)'
  BY <1>1, <1>10, <1>11 DEF ItemHolds
<1>13. ~lost /\ raced \cap Instalments = {} => AgreementHolds(d, i)'
  <2> SUFFICES ASSUME ~lost, raced \cap Instalments = {} PROVE AgreementHolds(d, i)'
    OBVIOUS
  <2>1. ~Serves(d) => desk[d].ag = agreement
    BY <1>1, <1>2 DEF PfInv, AgreementOK
  <2>2. agreement' # "done"
    BY <1>1, <2>1 DEF Serves
  <2> QED
    BY <1>5, <2>2 DEF AgreementHolds, Working
<1> QED
  BY <1>8, <1>9, <1>12, <1>13, MovesKeeps

LEMMA NotesStay ==
    ASSUME PfInv, NEW d \in Desks, NEW i, i = desk[d].item, Moves(d), ~lost, i \notin raced,
           desk[d].pc # "noted", desk'[d].pc \notin {"note", "noted"}, item'[i].note = item[i].note, notes'[i] = notes[i]
    PROVE  NotesOK(i)'
<1>0. Working(d) /\ i \in Items /\ (\A e \in Desks \ {d} : desk'[e] = desk[e]) /\ NotesOK(i)
  BY DEF Moves, PfInv, DeskOK
<1>1. \A e \in Desks : (desk'[e].item = i /\ desk'[e].pc # "idle") => e = d
  BY <1>0, AloneHere DEF Working
<1> QED
  BY <1>0, <1>1 DEF NotesOK

LEMMA ChargesStay ==
    ASSUME PfInv, NEW d \in Desks, NEW i, i = desk[d].item, Moves(d), ~lost, i \notin raced,
           desk[d].pc # "charged", desk'[d].pc \notin {"charge", "charged"}, item'[i].asaas = item[i].asaas
    PROVE  ChargesOK(i)'
<1>0. Working(d) /\ i \in Items /\ (\A e \in Desks \ {d} : desk'[e] = desk[e]) /\ charges' = charges /\ ChargesOK(i)
  BY DEF Moves, PfInv, DeskOK
<1>1. \A e \in Desks : (desk'[e].item = i /\ desk'[e].pc # "idle") => e = d
  BY <1>0, AloneHere DEF Working
<1> QED
  BY <1>0, <1>1 DEF ChargesOK

LEMMA SaveChargeKeeps == ASSUME PfInv, NEW d \in Desks, SaveCharge(d) PROVE PfInv'
<1>0. PICK i : i = desk[d].item
  OBVIOUS
<1> USE <1>0
<1> DEFINE row == [item[i] EXCEPT !.asaas = desk[d].event[1]]
<1>1. /\ desk[d].pc = "charged" /\ Working(d) /\ Saves(d, i, row) /\ Ends(d)
      /\ UNCHANGED <<agreement, charges, notes, posted, received, work, raced, decided, lost>>
  BY DEF SaveCharge, Working
<1>2. i \in Items /\ item[i].status # "none" /\ PfRows /\ DeskOK(d) /\ desk[d] \in DeskRow /\ item[i] \in ItemRow
  BY <1>1, ItsItem
<1>a. desk[d].event[1] \in DOMAIN charges /\ desk[d].event[1] \in Nat
  BY <1>1, <1>2, ChargeOf DEF DeskOK
<1>3. row \in ItemRow /\ row.status = item[i].status /\ row.asaas = desk[d].event[1] /\ row.note = item[i].note
  BY <1>2, <1>a DEF ItemRow
<1> HIDE DEF row
<1>5. desk' \in [Desks -> DeskRow] /\ desk'[d].pc = "idle" /\ \A e \in Desks \ {d} : desk'[e] = desk[e]
  BY <1>1, <1>2, EndsMoves
<1>6. /\ item' \in [Items -> ItemRow] /\ \A j \in Items \ {i} : item'[j] = item[j]
      /\ item'[i] = IF Exists(i) THEN row ELSE item[i]
  BY <1>1, <1>2, <1>3, SavesMoves
<1>7. item'[i].status = item[i].status /\ item'[i].note = item[i].note
  BY <1>2, <1>3, <1>6
<1>8. Moves(d)
  BY <1>1, <1>2, <1>5, <1>6, <1>7 DEF Moves, PfRows
<1>9. DeskOK(d)'
  BY <1>5 DEF DeskOK, Working
<1>10. ASSUME ~lost, i \notin raced PROVE NotesOK(i)' /\ ChargesOK(i)'
  <2>1. NotesOK(i)'
    BY <1>1, <1>5, <1>7, <1>8, <1>10, NotesStay
  <2>2. ChargesOK(i) /\ item[i].asaas = 0 /\ Exists(i)
    BY <1>1, <1>2, <1>10 DEF PfInv, ChargesOK, Exists
  <2>3. ASSUME NEW c \in DOMAIN charges, charges[c].item = i PROVE item'[i].asaas = c
    <3>1. PICK e \in Desks : desk[e].pc = "charged" /\ desk[e].event[1] = c
      BY <1>2, <2>2, <2>3, ChargeOf DEF ChargesOK
    <3>2. desk[e].item = i /\ Working(e)
      BY <2>3, <3>1 DEF PfInv, DeskOK, Working
    <3>3. e = d
      BY <1>1, <1>10, <3>2, AloneHere
    <3> QED
      BY <1>3, <1>6, <2>2, <3>1, <3>3
  <2>4. \A e \in Desks : (desk'[e].item = i /\ desk'[e].pc # "idle") => e = d
    BY <1>1, <1>5, <1>10, AloneHere DEF Working
  <2> QED
    BY <1>1, <1>5, <2>1, <2>3, <2>4 DEF ChargesOK
<1>11. ASSUME ~lost, i \notin raced \cup decided PROVE BooksOK(i)'
  BY <1>1, <1>5, <1>7, <1>8, <1>11, BooksUntouched DEF Acting
<1>12. ItemHolds(i)'
  BY <1>1, <1>10, <1>11 DEF ItemHolds
<1>13. ~lost /\ raced \cap Instalments = {} => AgreementHolds(d, i)'
  BY <1>1, <1>5, <1>7, <1>8, AgreementStays
<1> QED
  BY <1>8, <1>9, <1>12, <1>13, MovesKeeps

LEMMA AskNoteKeeps == ASSUME PfInv, NEW d \in Desks, AskNote(d) PROVE PfInv'
<1>0. PICK i : i = desk[d].item
  OBVIOUS
<1> USE <1>0
<1>1. /\ desk[d].pc = "note" /\ Working(d)
      /\ \/ notes' = [notes EXCEPT ![i] = notes[i] + 1] /\ desk' = [desk EXCEPT ![d].pc = "noted"]
         \/ Ends(d) /\ UNCHANGED notes
      /\ UNCHANGED <<item, agreement, charges, posted, received, work, raced, decided, lost>>
  BY DEF AskNote, Working
<1>2. i \in Items /\ item[i].status # "none" /\ PfRows /\ DeskOK(d) /\ desk[d] \in DeskRow
  BY <1>1, ItsItem
<1>5. /\ desk' \in [Desks -> DeskRow] /\ \A e \in Desks \ {d} : desk'[e] = desk[e]
      /\ notes' \in [Items -> Nat] /\ \A j \in Items \ {i} : notes'[j] = notes[j]
      /\ \/ desk'[d].pc = "idle" /\ notes' = notes
         \/ /\ desk'[d].pc = "noted" /\ desk'[d].item = i /\ desk'[d].ag = desk[d].ag /\ desk'[d].event = desk[d].event
            /\ notes'[i] = notes[i] + 1
  <2>1. CASE notes' = [notes EXCEPT ![i] = notes[i] + 1] /\ desk' = [desk EXCEPT ![d].pc = "noted"]
    <3> DEFINE next == [desk[d] EXCEPT !.pc = "noted"]
    <3>1. next \in DeskRow /\ next.pc = "noted" /\ next.item = i /\ next.ag = desk[d].ag /\ next.event = desk[d].event
      BY <1>2 DEF DeskRow
    <3>2. desk' = [desk EXCEPT ![d] = next]
      BY <1>2, <2>1 DEF PfRows
    <3>3. notes \in [Items -> Nat]
      BY <1>2 DEF PfRows
    <3>4. notes' \in [Items -> Nat] /\ (\A j \in Items \ {i} : notes'[j] = notes[j]) /\ notes'[i] = notes[i] + 1
      BY <1>2, <2>1, <3>3
    <3> HIDE DEF next
    <3> QED
      BY <1>2, <3>1, <3>2, <3>4, DeskMoves
  <2>2. CASE Ends(d) /\ UNCHANGED notes
    BY <1>2, <2>2, EndsMoves DEF PfRows
  <2> QED
    BY <1>1, <2>1, <2>2
<1>8. Moves(d)
  BY <1>1, <1>2, <1>5 DEF Moves, PfRows
<1>9. DeskOK(d)'
  BY <1>1, <1>2, <1>5 DEF DeskOK, Working, Serves
<1>10. ASSUME ~lost, i \notin raced PROVE NotesOK(i)' /\ ChargesOK(i)'
  <2>1. ChargesOK(i)'
    BY <1>1, <1>5, <1>8, <1>10, ChargesStay
  <2>2. CASE desk'[d].pc = "idle"
    BY <1>1, <1>5, <1>8, <1>10, <2>1, <2>2, NotesStay
  <2>3. CASE desk'[d].pc = "noted"
    <3>1. notes[i] = 0 /\ item[i].note # "asked" /\ item[i].status # "gone"
      BY <1>1, <1>2, <1>10 DEF PfInv, NotesOK
    <3>2. \A e \in Desks : (desk'[e].item = i /\ desk'[e].pc # "idle") => e = d
      BY <1>1, <1>5, <1>10, AloneHere DEF Working
    <3>3. notes'[i] = 1 /\ desk'[d].item = i
      BY <1>5, <2>3, <3>1
    <3>4. NotesOK(i)'
      BY <1>1, <2>3, <3>1, <3>2, <3>3 DEF NotesOK
    <3> QED
      BY <2>1, <3>4
  <2> QED
    BY <1>5, <2>2, <2>3
<1>11. ASSUME ~lost, i \notin raced \cup decided PROVE BooksOK(i)'
  BY <1>1, <1>5, <1>8, <1>11, BooksUntouched DEF Acting
<1>12. ItemHolds(i)'
  BY <1>1, <1>10, <1>11 DEF ItemHolds
<1>13. ~lost /\ raced \cap Instalments = {} => AgreementHolds(d, i)'
  BY <1>1, <1>5, <1>8, AgreementStays
<1> QED
  BY <1>8, <1>9, <1>12, <1>13, MovesKeeps

LEMMA SaveNoteKeeps == ASSUME PfInv, NEW d \in Desks, SaveNote(d) PROVE PfInv'
<1>0. PICK i : i = desk[d].item
  OBVIOUS
<1> USE <1>0
<1> DEFINE row == [item[i] EXCEPT !.note = "asked"]
<1>1. /\ desk[d].pc = "noted" /\ Working(d) /\ Saves(d, i, row) /\ Ends(d)
      /\ UNCHANGED <<agreement, charges, notes, posted, received, work, raced, decided, lost>>
  BY DEF SaveNote, Working
<1>2. i \in Items /\ item[i].status # "none" /\ PfRows /\ DeskOK(d) /\ desk[d] \in DeskRow /\ item[i] \in ItemRow
  BY <1>1, ItsItem
<1>3. row \in ItemRow /\ row.status = item[i].status /\ row.asaas = item[i].asaas /\ row.note = "asked"
  BY <1>2 DEF ItemRow
<1> HIDE DEF row
<1>5. desk' \in [Desks -> DeskRow] /\ desk'[d].pc = "idle" /\ \A e \in Desks \ {d} : desk'[e] = desk[e]
  BY <1>1, <1>2, EndsMoves
<1>6. /\ item' \in [Items -> ItemRow] /\ \A j \in Items \ {i} : item'[j] = item[j]
      /\ item'[i] = IF Exists(i) THEN row ELSE item[i]
  BY <1>1, <1>2, <1>3, SavesMoves
<1>7. item'[i].status = item[i].status /\ item'[i].asaas = item[i].asaas
  BY <1>2, <1>3, <1>6
<1>8. Moves(d)
  BY <1>1, <1>2, <1>5, <1>6, <1>7 DEF Moves, PfRows
<1>9. DeskOK(d)'
  BY <1>5 DEF DeskOK, Working
<1>10. ASSUME ~lost, i \notin raced PROVE NotesOK(i)' /\ ChargesOK(i)'
  <2>1. ChargesOK(i)'
    BY <1>1, <1>5, <1>7, <1>8, <1>10, ChargesStay
  <2>2. Exists(i) /\ notes'[i] <= 1
    BY <1>1, <1>2, <1>10 DEF PfInv, NotesOK, Exists
  <2>3. item'[i].note = "asked"
    BY <1>3, <1>6, <2>2
  <2>4. \A e \in Desks : (desk'[e].item = i /\ desk'[e].pc # "idle") => e = d
    BY <1>1, <1>5, <1>10, AloneHere DEF Working
  <2> QED
    BY <1>5, <2>1, <2>2, <2>3, <2>4 DEF NotesOK
<1>11. ASSUME ~lost, i \notin raced \cup decided PROVE BooksOK(i)'
  BY <1>1, <1>5, <1>7, <1>8, <1>11, BooksUntouched DEF Acting
<1>12. ItemHolds(i)'
  BY <1>1, <1>10, <1>11 DEF ItemHolds
<1>13. ~lost /\ raced \cap Instalments = {} => AgreementHolds(d, i)'
  BY <1>1, <1>5, <1>7, <1>8, AgreementStays
<1> QED
  BY <1>8, <1>9, <1>12, <1>13, MovesKeeps

LEMMA DeleteKeeps == ASSUME PfInv, NEW d \in Desks, Delete(d) PROVE PfInv'
<1>0. PICK i : i = desk[d].item
  OBVIOUS
<1> USE <1>0
<1>1. /\ desk[d].pc = "delete" /\ Working(d) /\ item' = [item EXCEPT ![i].status = "gone"] /\ Ends(d)
      /\ UNCHANGED <<agreement, charges, notes, posted, received, work, raced, decided, lost>>
  BY DEF Delete, Working
<1>2. /\ i \in Items /\ item[i].status # "none" /\ PfRows /\ DeskOK(d) /\ desk[d] \in DeskRow /\ item[i] \in ItemRow
      /\ i \notin Instalments /\ ~Serves(d)
  BY <1>1, ItsItem, PfAssumption DEF DeskOK
<1>5. desk' \in [Desks -> DeskRow] /\ desk'[d].pc = "idle" /\ \A e \in Desks \ {d} : desk'[e] = desk[e]
  BY <1>1, <1>2, EndsMoves
<1>6. /\ item' \in [Items -> ItemRow] /\ \A j \in Items \ {i} : item'[j] = item[j]
      /\ item'[i].status = "gone" /\ item'[i].asaas = item[i].asaas /\ item'[i].note = item[i].note
  <2> DEFINE row == [item[i] EXCEPT !.status = "gone"]
  <2>1. row \in ItemRow /\ row.status = "gone" /\ row.asaas = item[i].asaas /\ row.note = item[i].note
    BY <1>2 DEF ItemRow, Statuses
  <2>2. item \in [Items -> ItemRow] /\ item' = [item EXCEPT ![i] = row]
    BY <1>1, <1>2 DEF PfRows
  <2> HIDE DEF row
  <2> QED
    BY <1>2, <2>1, <2>2
<1>8. Moves(d)
  BY <1>1, <1>2, <1>5, <1>6 DEF Moves, PfRows
<1>9. DeskOK(d)'
  BY <1>5 DEF DeskOK, Working
<1>10. ASSUME ~lost, i \notin raced PROVE NotesOK(i)' /\ ChargesOK(i)'
  BY <1>1, <1>5, <1>6, <1>8, <1>10, AskedStays
<1>11. ASSUME ~lost, i \notin raced \cup decided PROVE FALSE
  BY <1>1, <1>2, <1>11 DEF PfInv, BooksOK
<1>12. ItemHolds(i)'
  BY <1>1, <1>10, <1>11 DEF ItemHolds
<1>13. AgreementHolds(d, i)'
  BY <1>2 DEF AgreementHolds
<1> QED
  BY <1>8, <1>9, <1>12, <1>13, MovesKeeps

LEMMA SettleKeeps == ASSUME PfInv, NEW d \in Desks, Settle(d) PROVE PfInv'
<1>0. PICK i : i = desk[d].item
  OBVIOUS
<1> USE <1>0
<1> DEFINE kind == desk[d].event[2]
           act == IF Exists(i) /\ item[i].asaas = desk[d].event[1] THEN Response(item[i], kind) ELSE "idle"
           next == IF act = "idle" THEN IdleDesk ELSE [desk[d] EXCEPT !.pc = act]
<1>1. /\ desk[d].pc = "event" /\ Working(d) /\ desk' = [desk EXCEPT ![d] = next]
      /\ UNCHANGED <<item, agreement, charges, notes, posted, received, work, raced, decided, lost>>
  BY DEF Settle, Working
<1>2. i \in Items /\ item[i].status # "none" /\ PfRows /\ DeskOK(d) /\ desk[d] \in DeskRow /\ item[i] \in ItemRow
      /\ Serves(d)
  BY <1>1, ItsItem DEF DeskOK
<1>3. /\ act \in {"pay", "reopen", "cancel", "idle"}
      /\ act = "pay" => kind = "paid"
      /\ act = "reopen" => kind = "refunded"
      /\ act = "cancel" => kind = "deleted"
      /\ act = "idle" => \/ ~(Exists(i) /\ item[i].asaas = desk[d].event[1])
                         \/ ~(kind = "paid" /\ item[i].status = "open") /\ ~(kind = "refunded" /\ item[i].status = "paid")
                            /\ ~(kind = "deleted" /\ item[i].status = "open")
  BY DEF Response
<1> HIDE DEF act
<1>4. /\ next \in DeskRow
      /\ \/ next.pc = "idle" /\ act = "idle"
         \/ next.pc = act /\ act # "idle" /\ next.item = i /\ next.ag = desk[d].ag /\ next.event = desk[d].event
  BY <1>2, <1>3 DEF DeskRow, IdleDesk, Requests
<1> HIDE DEF next
<1>5. desk' \in [Desks -> DeskRow] /\ desk'[d] = next /\ \A e \in Desks \ {d} : desk'[e] = desk[e]
  BY <1>1, <1>2, <1>4, DeskMoves
<1>8. Moves(d)
  BY <1>1, <1>2, <1>4, <1>5 DEF Moves, PfRows
<1>9. DeskOK(d)'
  BY <1>1, <1>2, <1>3, <1>4, <1>5 DEF DeskOK, Working, Serves
<1>10. ASSUME ~lost, i \notin raced PROVE NotesOK(i)' /\ ChargesOK(i)'
  <2>1. desk'[d].pc \notin {"charge", "charged", "note", "noted"} /\ desk[d].pc \notin {"charged", "noted"}
    BY <1>1, <1>3, <1>4, <1>5
  <2> QED
    BY <1>1, <1>8, <1>10, <2>1, AskedStays
<1>11. ASSUME ~lost, i \notin raced \cup decided PROVE BooksOK(i)'
  <2>0. BooksOK(i) /\ Acting(d) /\ desk[d].event \in received /\ i \notin raced
    BY <1>1, <1>2, <1>11 DEF PfInv, Acting, DeskOK
  <2>1. CASE act # "idle"
    <3>1. Acting(d)' /\ desk'[d].event = desk[d].event /\ desk'[d].item = i
      BY <1>3, <1>4, <1>5, <2>1 DEF Acting
    <3>2. \A c \in DOMAIN charges : charges[c].item = i => item[i].status = Due(Handled(c)')
      BY <1>8, <2>0, <3>1, HandledStill DEF BooksOK
    <3>3. \A e \in Desks : (desk'[e].item = i /\ desk'[e].pc # "idle") => e = d
      BY <1>1, <1>5, <2>0, AloneHere DEF Working
    <3>4. kind = "paid" => <<desk[d].event[1], "refunded">> \notin received
      BY <1>1, <2>0 DEF BooksOK
    <3> QED
      BY <1>1, <1>2, <1>3, <1>4, <1>5, <2>1, <3>1, <3>2, <3>3, <3>4 DEF BooksOK, Serves, Due
  <2>2. CASE act = "idle"
    <3>1. desk'[d].pc = "idle" /\ ~Acting(d)'
      BY <1>4, <1>5, <2>2 DEF Acting
    <3>2. ASSUME NEW c \in DOMAIN charges, charges[c].item = i PROVE item'[i].status = Due(Handled(c)')
      <4>1. desk[d].event[1] = c /\ item[i].asaas = c /\ desk[d].event = <<c, kind>>
        BY <1>1, <1>2, <1>11, <3>2, TheCharge
      <4>2. Handled(c)' = Handled(c) \cup {kind} /\ item[i].status = Due(Handled(c)) /\ kind \notin Handled(c)
        BY <1>2, <1>8, <2>0, <3>1, <3>2, <4>1, HandledAfter DEF BooksOK, Handled
      <4>3. kind \in {"paid", "refunded", "deleted"}
        BY <1>2 DEF DeskRow, Serves
      <4>4. Exists(i)
        BY <1>2, <4>2, HandledIn, Dues DEF Exists
      <4>5. ~(kind = "paid" /\ item[i].status = "open") /\ ~(kind = "refunded" /\ item[i].status = "paid")
            /\ ~(kind = "deleted" /\ item[i].status = "open")
        BY <1>3, <2>2, <4>1, <4>4
      <4>6. Handled(c) \in SUBSET {"paid", "refunded", "deleted"} /\ \A s \in Handled(c) : <<c, s>> \in received
        BY HandledIn
      <4>7. <<c, "deleted">> \in received => <<c, "paid">> \notin received /\ <<c, "refunded">> \notin received
        BY <3>2, WhatWasTold
      <4>8. CASE kind = "paid"
        <5>1. <<c, "refunded">> \notin received /\ <<c, "paid">> \in received
          BY <1>1, <2>0, <4>1, <4>8 DEF BooksOK
        <5>2. Handled(c) = {}
          BY <4>2, <4>6, <4>7, <4>8, <5>1
        <5> QED
          BY <4>2, <4>5, <4>8, <5>2 DEF Due
      <4>9. CASE kind = "refunded"
        <5>1. "deleted" \notin Handled(c)
          BY <2>0, <4>1, <4>6, <4>7, <4>9
        <5> QED
          BY <1>1, <4>2, <4>5, <4>9, <5>1 DEF Due
      <4>10. CASE kind = "deleted"
        <5>1. Handled(c) = {}
          BY <2>0, <4>1, <4>2, <4>6, <4>7, <4>10
        <5> QED
          BY <4>2, <4>5, <4>10, <5>1 DEF Due
      <4> QED
        BY <4>3, <4>8, <4>9, <4>10
    <3> QED
      BY <1>8, <2>0, <3>1, <3>2, BooksStay
  <2> QED
    BY <2>1, <2>2
<1>12. ItemHolds(i)'
  BY <1>1, <1>10, <1>11 DEF ItemHolds
<1>13. ~lost /\ raced \cap Instalments = {} => AgreementHolds(d, i)'
  <2>1. desk'[d].pc # "close" /\ desk[d].pc # "reactivate"
    BY <1>1, <1>3, <1>4, <1>5
  <2> QED
    BY <1>1, <1>8, <2>1, AgreementStays
<1> QED
  BY <1>8, <1>9, <1>12, <1>13, MovesKeeps

-----------------------------------------------------------------------------
LEMMA DiesKeeps == ASSUME PfInv, NEW d \in Desks, Dies(d) PROVE PfInv'
<1>1. lost' /\ Ends(d) /\ UNCHANGED <<item, agreement, charges, notes, posted, received, work, raced, decided>> /\ PfRows /\ lost' \in BOOLEAN
  BY DEF Dies, PfInv
<1>2. desk' \in [Desks -> DeskRow] /\ desk'[d].pc = "idle" /\ \A e \in Desks \ {d} : desk'[e] = desk[e]
  BY <1>1, EndsMoves
<1>3. PfRows' /\ PostedOK' /\ NoneYet'
  BY <1>1, <1>2 DEF PfInv, PfRows, PostedOK, NoneYet
<1>4. AloneOn'
  BY <1>1, <1>2 DEF PfInv, AloneOn, Working, Touches
<1>5. ASSUME NEW e \in Desks PROVE DeskOK(e)'
  BY <1>1, <1>2 DEF PfInv, DeskOK, Working, Serves
<1> QED
  BY <1>1, <1>3, <1>4, <1>5 DEF PfInv

\* What a new handler of an item does to the others.
LEMMA NewHandler ==
    ASSUME PfInv, NEW d \in Desks, NEW i \in Items, ~Working(d), desk'[d].item = i,
           \A e \in Desks \ {d} : desk'[e] = desk[e], raced' = Race(d, i)
    PROVE  /\ AloneOn' /\ raced \subseteq raced'
           /\ i \notin raced' => \A e \in Desks \ {d} : Working(e) => desk[e].item # i
<1>1. ASSUME NEW e \in Desks \ {d}, Working(e) PROVE Touches(desk[e].item) \cap Touches(i) \subseteq raced'
  <2>1. desk[e].item \in Items /\ Touches(desk[e].item) \subseteq Items
    BY <1>1, ItsItem DEF Touches, Items
  <2> QED
    BY <1>1, <2>1 DEF Race, Busy, Working
<1>2. raced \subseteq raced'
  BY DEF Race
<1>3. AloneOn'
  BY <1>1, <1>2 DEF PfInv, AloneOn, Working, Touches
<1>4. i \in Touches(i)
  BY DEF Touches
<1> QED
  BY <1>1, <1>2, <1>3, <1>4

LEMMA AskKeeps ==
    ASSUME PfInv, NEW d \in Desks, NEW i \in Items, NEW a \in {"pay", "reopen", "cancel", "charge", "note", "delete"}, Ask(d, i, a)
    PROVE  PfInv'
<1> DEFINE next == [pc |-> a, item |-> i, ag |-> agreement, event |-> <<0, "none">>]
<1>0. PfRows /\ PostedOK /\ NoneYet
  BY DEF PfInv
<1>1. /\ ~Working(d) /\ Exists(i) /\ Allowed(i, a) /\ desk' = [desk EXCEPT ![d] = next] /\ raced' = Race(d, i)
      /\ decided' = IF a \in {"pay", "reopen", "cancel", "delete"} THEN decided \cup {i} ELSE decided
      /\ UNCHANGED <<item, agreement, charges, notes, posted, received, lost>>
  BY DEF Ask, Working
<1>2. /\ next \in DeskRow /\ next.pc = a /\ next.item = i /\ next.ag = agreement /\ next.event = <<0, "none">>
      /\ next.event[2] = "none"
  BY <1>0 DEF DeskRow, Requests, PfRows
<1> HIDE DEF next
<1>3. desk' \in [Desks -> DeskRow] /\ desk'[d] = next /\ \A e \in Desks \ {d} : desk'[e] = desk[e]
  BY <1>0, <1>1, <1>2, DeskMoves
<1>4. /\ AloneOn' /\ raced \subseteq raced'
      /\ i \notin raced' => \A e \in Desks \ {d} : Working(e) => desk[e].item # i
  BY <1>1, <1>2, <1>3, NewHandler
<1>5. PfRows' /\ PostedOK' /\ NoneYet'
  <2>1. raced' \subseteq Items /\ decided' \subseteq Items
    BY <1>0, <1>1 DEF PfRows, Race, Busy
  <2> QED
    BY <1>0, <1>1, <1>3, <2>1 DEF PfRows, PostedOK, NoneYet
<1>6. /\ a = "note" => item[i].note \in {"none", "error"}
      /\ a = "charge" => item[i].status = "open" /\ item[i].asaas = 0
      /\ a = "delete" => i \in Reimbursements
      /\ item[i].status # "none" /\ item[i].status # "gone"
  BY <1>1 DEF Allowed, NotCharged, Exists
<1>7. ASSUME NEW e \in Desks PROVE DeskOK(e)'
  <2>1. CASE e # d
    BY <1>1, <1>3, <2>1 DEF PfInv, DeskOK, Working, Serves
  <2>2. CASE e = d
    BY <1>1, <1>2, <1>3, <1>6, <2>2 DEF DeskOK, Working, Serves
  <2> QED
    BY <2>1, <2>2
<1>8. ASSUME ~lost', NEW j \in Items \ raced' PROVE NotesOK(j)' /\ ChargesOK(j)'
  <2>0. NotesOK(j) /\ ChargesOK(j) /\ desk[d].pc = "idle"
    BY <1>1, <1>4, <1>8 DEF PfInv, Working
  <2>1. j = i /\ a = "note" => notes[i] = 0
    <3> SUFFICES ASSUME j = i, a = "note", notes[i] # 0 PROVE FALSE
      OBVIOUS
    <3>1. notes[i] > 0
      BY <1>0 DEF PfRows
    <3>2. PICK e \in Desks : desk[e].pc = "noted" /\ desk[e].item = i
      BY <1>6, <2>0, <3>1 DEF NotesOK
    <3> QED
      BY <1>4, <1>8, <2>0, <3>2 DEF Working
  <2>2. NotesOK(j)'
    BY <1>1, <1>2, <1>3, <1>6, <2>0, <2>1 DEF NotesOK
  <2>3. ChargesOK(j)'
    <3>1. \A e \in Desks : desk[e].pc = "charged" => desk'[e] = desk[e]
      BY <1>3, <2>0
    <3>2. \A c \in DOMAIN charges : charges[c].item = j =>
            item[j].asaas = c \/ \E e \in Desks : desk'[e].pc = "charged" /\ desk'[e].event[1] = c
      BY <2>0, <3>1 DEF ChargesOK
    <3>3. \A e \in Desks : desk'[e].item = j =>
            /\ desk'[e].pc = "charge" => item[j].asaas = 0 /\ item[j].status # "gone"
            /\ desk'[e].pc = "charged" => item[j].asaas = 0 /\ item[j].status # "gone"
      BY <1>2, <1>3, <1>6, <2>0 DEF ChargesOK
    <3> QED
      BY <1>1, <3>2, <3>3 DEF ChargesOK
  <2> QED
    BY <2>2, <2>3
<1>9. ASSUME ~lost', raced' \cap Instalments = {} PROVE AgreementOK'
  <2>0. AgreementOK /\ desk[d].pc = "idle" /\ NoneOpen' = NoneOpen
    BY <1>1, <1>4, <1>9 DEF PfInv, Working, NoneOpen
  <2>1. \A e \in Desks : desk[e].pc = "reactivate" => desk'[e] = desk[e]
    BY <1>3, <2>0
  <2> QED
    BY <1>1, <1>2, <1>3, <2>0, <2>1 DEF AgreementOK, Working, Serves
<1>10. ASSUME ~lost', NEW j \in Items \ (raced' \cup decided') PROVE BooksOK(j)'
  <2>0. BooksOK(j) /\ desk[d].pc = "idle" /\ (j = i => a \in {"charge", "note"})
    BY <1>1, <1>4, <1>10 DEF PfInv, Working
  <2>1. ASSUME NEW c PROVE Handled(c)' = Handled(c)
    <3>1. \A s \in {"paid", "refunded", "deleted"} : ~(Acting(d) /\ desk[d].event = <<c, s>>) /\ ~(Acting(d) /\ desk[d].event = <<c, s>>)'
      BY <1>2, <1>3, <2>0 DEF Acting
    <3> QED
      BY <1>1, <1>3, <3>1 DEF Handled, Acting
  <2>2. \A c \in DOMAIN charges : charges[c].item = j => item[j].status = Due(Handled(c)')
    BY <2>0, <2>1 DEF BooksOK
  <2>3. ASSUME NEW e \in Desks, e # d PROVE desk'[e] = desk[e]
    BY <1>3, <2>3
  <2> QED
    BY <1>1, <1>2, <1>3, <1>6, <2>0, <2>2, <2>3 DEF BooksOK, Serves, Due
<1> QED
  BY <1>4, <1>5, <1>7, <1>8, <1>9, <1>10 DEF PfInv

LEMMA TakeEventKeeps == ASSUME PfInv, NEW d \in Desks, NEW e \in posted, TakeEvent(d, e) PROVE PfInv'
<1> DEFINE i == charges[e[1]].item
           next == [IdleDesk EXCEPT !.pc = "event", !.item = charges[e[1]].item, !.event = e]
<1>0. PfRows /\ PostedOK /\ NoneYet
  BY DEF PfInv
<1>1. /\ ~Working(d) /\ desk[d].pc = "idle" /\ e \notin received /\ received' = received \cup {e} /\ desk' = [desk EXCEPT ![d] = next]
      /\ raced' = Race(d, i) /\ lost' = (lost \/ (e[2] = "paid" /\ <<e[1], "refunded">> \in received))
      /\ UNCHANGED <<item, agreement, charges, notes, posted, decided>>
  BY DEF TakeEvent, Working
<1>2. /\ e = <<e[1], e[2]>> /\ e[1] \in DOMAIN charges /\ e[2] \in {"paid", "refunded", "deleted"} /\ e[1] \in Nat
      /\ i \in Items /\ item[i].status # "none"
  BY <1>0, ChargeOf DEF PostedOK, NoneYet
<1>3. next \in DeskRow /\ next.pc = "event" /\ next.item = i /\ next.event = e
  BY <1>2 DEF DeskRow, IdleDesk
<1> HIDE DEF next
<1>4. desk' \in [Desks -> DeskRow] /\ desk'[d] = next /\ \A x \in Desks \ {d} : desk'[x] = desk[x]
  BY <1>0, <1>1, <1>3, DeskMoves
<1>5. /\ AloneOn' /\ raced \subseteq raced'
      /\ i \notin raced' => \A x \in Desks \ {d} : Working(x) => desk[x].item # i
  BY <1>1, <1>2, <1>3, <1>4, NewHandler
<1>6. PfRows' /\ PostedOK' /\ NoneYet'
  <2>1. raced' \subseteq Items
    BY <1>0, <1>1 DEF PfRows, Race, Busy
  <2>2. lost' \in BOOLEAN
    BY <1>0, <1>1 DEF PfRows
  <2> QED
    BY <1>0, <1>1, <1>4, <2>1, <2>2 DEF PfRows, PostedOK, NoneYet
<1>7. ASSUME NEW x \in Desks PROVE DeskOK(x)'
  <2>1. CASE x # d
    BY <1>1, <1>4, <2>1 DEF PfInv, DeskOK, Working, Serves
  <2>2. CASE x = d
    BY <1>1, <1>2, <1>3, <1>4, <2>2 DEF DeskOK, Working, Serves
  <2> QED
    BY <2>1, <2>2
<1>a. ~lost' => ~lost /\ ~(e[2] = "paid" /\ <<e[1], "refunded">> \in received)
  BY <1>0, <1>1 DEF PfRows
<1>b. \A x \in Desks : desk[x].pc # "idle" => desk'[x] = desk[x]
  BY <1>1, <1>4
<1>8. ASSUME ~lost', NEW j \in Items \ raced' PROVE NotesOK(j)' /\ ChargesOK(j)'
  <2>0. NotesOK(j) /\ ChargesOK(j)
    BY <1>5, <1>8, <1>a DEF PfInv
  <2>1. \A x \in Desks : desk'[x].pc \in {"note", "noted", "charge", "charged"} => desk'[x] = desk[x]
    BY <1>3, <1>4
  <2>2. NotesOK(j)'
    BY <1>1, <1>b, <2>0, <2>1 DEF NotesOK
  <2>3. ChargesOK(j)'
    <3>1. \A c \in DOMAIN charges : charges[c].item = j =>
            item[j].asaas = c \/ \E x \in Desks : desk'[x].pc = "charged" /\ desk'[x].event[1] = c
      BY <1>b, <2>0 DEF ChargesOK
    <3> QED
      BY <1>1, <2>0, <2>1, <3>1 DEF ChargesOK
  <2> QED
    BY <2>2, <2>3
<1>9. ASSUME ~lost', raced' \cap Instalments = {} PROVE AgreementOK'
  <2>0. AgreementOK /\ NoneOpen' = NoneOpen
    BY <1>1, <1>5, <1>9, <1>a DEF PfInv, NoneOpen
  <2> QED
    BY <1>1, <1>2, <1>3, <1>4, <1>b, <2>0 DEF AgreementOK, Working, Serves
<1>10. ASSUME ~lost', NEW j \in Items \ (raced' \cup decided') PROVE BooksOK(j)'
  <2>0. BooksOK(j)
    BY <1>1, <1>5, <1>10, <1>a DEF PfInv
  <2>1. ASSUME NEW c PROVE Handled(c)' = Handled(c)
    <3>1. ASSUME NEW s \in {"paid", "refunded", "deleted"} PROVE s \in Handled(c)' <=> s \in Handled(c)
      <4>1. CASE e = <<c, s>>
        <5>1. s \notin Handled(c)
          BY <1>1, <4>1 DEF Handled
        <5>2. Acting(d)' /\ desk'[d].event = <<c, s>>
          BY <1>3, <1>4, <4>1 DEF Acting
        <5> QED
          BY <5>1, <5>2 DEF Handled
      <4>2. CASE e # <<c, s>>
        <5>1. <<c, s>> \in received' <=> <<c, s>> \in received
          BY <1>1, <4>2
        <5>2. ~(Acting(d) /\ desk[d].event = <<c, s>>) /\ ~(Acting(d) /\ desk[d].event = <<c, s>>)'
          BY <1>1, <1>3, <1>4, <4>2 DEF Acting
        <5>3. (\E x \in Desks : Acting(x) /\ desk[x].event = <<c, s>>)' <=> (\E x \in Desks : Acting(x) /\ desk[x].event = <<c, s>>)
          BY <1>4, <5>2 DEF Acting
        <5> QED
          BY <5>1, <5>3 DEF Handled
      <4> QED
        BY <4>1, <4>2
    <3> QED
      BY <3>1 DEF Handled
  <2>2. \A c \in DOMAIN charges : charges[c].item = j => item[j].status = Due(Handled(c)')
    BY <2>0, <2>1 DEF BooksOK
  <2>3. ASSUME NEW x \in Desks, x # d, desk[x].item = j, desk[x].pc \in {"event", "pay"}, desk[x].event[2] = "paid",
               <<desk[x].event[1], "refunded">> \in received'
        PROVE  FALSE
    <3>1. Working(x) /\ Serves(x) /\ charges[desk[x].event[1]].item = j
      BY <2>3 DEF PfInv, DeskOK, Working, Serves
    <3>2. e = <<desk[x].event[1], "refunded">>
      BY <1>1, <2>0, <2>3 DEF BooksOK
    <3>3. i = j
      BY <3>1, <3>2
    <3> QED
      BY <1>5, <1>10, <2>3, <3>1, <3>3
  <2>4. e[2] = "paid" => <<e[1], "refunded">> \notin received'
    BY <1>1, <1>2, <1>10, <1>a
  <2>5. ASSUME NEW x \in Desks, x # d PROVE desk'[x] = desk[x]
    BY <1>4, <2>5
  <2>6. ASSUME NEW x \in Desks, x # d, desk'[x].item = j
        PROVE  /\ desk'[x].pc \in {"charge", "charged"} => item[j].status = "open"
               /\ desk'[x].pc \in {"pay", "reopen", "cancel", "delete"} => desk'[x].event[2] # "none"
               /\ desk'[x].pc = "pay" => desk'[x].event[2] = "paid"
               /\ desk'[x].pc = "reopen" => desk'[x].event[2] = "refunded"
               /\ desk'[x].pc = "cancel" => desk'[x].event[2] = "deleted"
               /\ desk'[x].pc \in {"event", "pay"} /\ desk'[x].event[2] = "paid" => <<desk'[x].event[1], "refunded">> \notin received'
    BY <2>0, <2>3, <2>5, <2>6 DEF BooksOK, Serves
  <2>7. desk'[d].pc = "event" /\ desk'[d].event = e
    BY <1>3, <1>4
  <2> QED
    BY <1>1, <2>2, <2>4, <2>6, <2>7 DEF BooksOK, Serves, Due
<1> QED
  BY <1>5, <1>6, <1>7, <1>8, <1>9, <1>10 DEF PfInv

\* Items that come to exist have no handler and no charge.
LEMMA CreationKeeps ==
    ASSUME PfInv, NEW new \in SUBSET Items, \A i \in new : item[i].status = "none",
           item' = [i \in Items |-> IF i \in new THEN [item[i] EXCEPT !.status = "open"] ELSE item[i]],
           agreement' \in {"none", "active", "done", "canceled"},
           agreement' # agreement => agreement = "none" /\ agreement' = "active",
           agreement' = "none" => new \cap Instalments = {},
           new \cap Instalments # {} => agreement = "none" /\ agreement' = "active",
           UNCHANGED <<charges, notes, posted, received, desk, raced, decided, lost>>
    PROVE  PfInv'
<1>0. PfRows /\ PostedOK /\ NoneYet /\ AloneOn
  BY DEF PfInv
<1>1. /\ item' \in [Items -> ItemRow]
      /\ \A i \in Items : /\ item'[i].asaas = item[i].asaas /\ item'[i].note = item[i].note
                          /\ item[i].status # "none" => item'[i] = item[i]
                          /\ i \notin new => item'[i] = item[i]
                          /\ i \in new => item'[i].status = "open"
  BY <1>0 DEF PfRows, ItemRow, Statuses
<1>2. \A d \in Desks : Working(d) => desk[d].item \in Items /\ item[desk[d].item].status # "none" /\ desk[d].item \notin new
  BY ItsItem
<1>3. \A c \in DOMAIN charges : charges[c].item \in Items /\ item[charges[c].item].status # "none" /\ charges[c].item \notin new
  BY <1>0, ChargeOf DEF NoneYet
<1>4. PfRows' /\ PostedOK' /\ AloneOn'
  BY <1>0, <1>1 DEF PfRows, PostedOK, AloneOn, Working, Touches
<1>5. NoneYet'
  BY <1>0, <1>1, <1>3 DEF NoneYet, Items
<1>6. ASSUME NEW d \in Desks PROVE DeskOK(d)'
  BY <1>1, <1>2 DEF PfInv, DeskOK, Working, Serves
<1>7. ASSUME ~lost', NEW j \in Items \ raced' PROVE NotesOK(j)' /\ ChargesOK(j)'
  <2>0. NotesOK(j) /\ ChargesOK(j)
    BY <1>7 DEF PfInv
  <2>1. \A d \in Desks : desk[d].pc # "idle" /\ desk[d].item = j => item'[j] = item[j]
    BY <1>1, <1>2 DEF Working
  <2>2. NotesOK(j)'
    BY <1>1, <2>0, <2>1 DEF NotesOK
  <2>3. ChargesOK(j)'
    BY <1>1, <2>0, <2>1 DEF ChargesOK
  <2> QED
    BY <2>2, <2>3
<1>8. ASSUME ~lost', raced' \cap Instalments = {} PROVE AgreementOK'
  <2>0. AgreementOK
    BY <1>8 DEF PfInv
  <2>1. agreement = "none" => \A d \in Desks : Working(d) => desk[d].item \notin Instalments
    BY <1>0, <1>2 DEF NoneYet
  <2>2. agreement' = "done" => agreement = "done" /\ new \cap Instalments = {}
    OBVIOUS
  <2>3. new \cap Instalments = {} => NoneOpen' = NoneOpen
    BY <1>1 DEF NoneOpen, Items
  <2>4. ASSUME NEW d \in Desks, Working(d), desk[d].item \in Instalments
        PROVE  agreement' = agreement /\ (desk[d].pc = "close" => NoneOpen')
    <3>1. agreement' = agreement
      BY <2>1, <2>4
    <3>2. new \cap Instalments = {}
      <4>1. agreement # "none"
        BY <2>1, <2>4
      <4> QED
        BY <4>1
    <3> QED
      BY <2>0, <2>3, <2>4, <3>1, <3>2 DEF AgreementOK
  <2> QED
    BY <2>0, <2>2, <2>3, <2>4 DEF AgreementOK, Working, Serves
<1>9. ASSUME ~lost', NEW j \in Items \ (raced' \cup decided') PROVE BooksOK(j)'
  <2>0. BooksOK(j)
    BY <1>9 DEF PfInv
  <2>1. \A c : Handled(c)' = Handled(c)
    BY DEF Handled, Acting
  <2>2. \A d \in Desks : desk[d].pc # "idle" /\ desk[d].item = j => item'[j] = item[j]
    BY <1>1, <1>2 DEF Working
  <2>3. \A c \in DOMAIN charges : charges[c].item = j => item'[j].status = Due(Handled(c)')
    BY <1>1, <1>3, <2>0, <2>1 DEF BooksOK
  <2> QED
    BY <2>0, <2>2, <2>3 DEF BooksOK, Serves, Due
<1> QED
  BY <1>4, <1>5, <1>6, <1>7, <1>8, <1>9 DEF PfInv

LEMMA CreateAgreementKeeps == ASSUME PfInv, CreateAgreement PROVE PfInv'
<1>1. /\ agreement = "none" /\ agreement' = "active" /\ Instalments \in SUBSET Items
      /\ item' = [i \in Items |-> IF i \in Instalments THEN [item[i] EXCEPT !.status = "open"] ELSE item[i]]
      /\ UNCHANGED <<charges, notes, posted, received, desk, raced, decided, lost>>
  BY DEF CreateAgreement, Items
<1>2. \A i \in Instalments : item[i].status = "none"
  BY <1>1 DEF PfInv, NoneYet
<1> QED
  BY <1>1, <1>2, CreationKeeps

LEMMA CreateExpenseKeeps == ASSUME PfInv, NEW i \in Items, CreateExpense(i) PROVE PfInv'
<1>1. /\ {i} \in SUBSET Items /\ {i} \cap Instalments = {} /\ item[i].status = "none"
      /\ UNCHANGED <<agreement, charges, notes, posted, received, desk, raced, decided, lost>>
  BY PfAssumption DEF CreateExpense, Items
<1>2. item' = [j \in Items |-> IF j \in {i} THEN [item[j] EXCEPT !.status = "open"] ELSE item[j]]
  BY DEF CreateExpense, PfInv, PfRows
<1>3. agreement \in {"none", "active", "done", "canceled"}
  BY DEF PfInv, PfRows
<1> QED
  BY <1>1, <1>2, <1>3, CreationKeeps

LEMMA CancelAgreementKeeps == ASSUME PfInv, CancelAgreement PROVE PfInv'
<1>0. PfRows /\ PostedOK /\ NoneYet /\ AloneOn
  BY DEF PfInv
<1>1. /\ agreement' = "canceled"
      /\ item' = [i \in Items |-> IF i \in Instalments /\ item[i].status = "open"
                                THEN [item[i] EXCEPT !.status = "canceled"] ELSE item[i]]
      /\ raced' = raced \cup (Instalments \cap UNION {Touches(desk[d].item) : d \in {e \in Desks : desk[e].pc # "idle"}})
      /\ decided' = decided \cup {i \in Instalments : item[i].status = "open"}
      /\ UNCHANGED <<charges, notes, posted, received, desk, lost>>
  BY DEF CancelAgreement
<1>2. /\ item' \in [Items -> ItemRow]
      /\ \A i \in Items : /\ item'[i].asaas = item[i].asaas /\ item'[i].note = item[i].note
                          /\ item'[i].status = "none" <=> item[i].status = "none"
                          /\ item'[i].status = "gone" <=> item[i].status = "gone"
                          /\ i \notin decided' => item'[i] = item[i]
  BY <1>0, <1>1 DEF PfRows, ItemRow, Statuses
<1>3. PfRows' /\ PostedOK' /\ NoneYet'
  <2>1. raced' \subseteq Items /\ decided' \subseteq Items
    BY <1>0, <1>1 DEF PfRows, Items
  <2>2. \A c \in DOMAIN charges : charges[c].item \in Items
    BY <1>0, ChargeOf
  <2> QED
    BY <1>0, <1>1, <1>2, <2>1, <2>2 DEF PfRows, PostedOK, NoneYet
<1>4. AloneOn' /\ raced \subseteq raced' /\ decided \subseteq decided'
  BY <1>0, <1>1 DEF AloneOn, Working, Touches
<1>5. ASSUME NEW d \in Desks PROVE DeskOK(d)'
  BY <1>1, <1>2 DEF PfInv, DeskOK, Working, Serves
<1>7. ASSUME ~lost', NEW j \in Items \ raced' PROVE NotesOK(j)' /\ ChargesOK(j)'
  <2>0. NotesOK(j) /\ ChargesOK(j)
    BY <1>1, <1>4, <1>7 DEF PfInv
  <2>2. NotesOK(j)'
    BY <1>1, <1>2, <2>0 DEF NotesOK
  <2>3. ChargesOK(j)'
    BY <1>1, <1>2, <2>0 DEF ChargesOK
  <2> QED
    BY <2>2, <2>3
<1>8. ASSUME ~lost', raced' \cap Instalments = {} PROVE AgreementOK'
  <2>1. ASSUME NEW d \in Desks, Working(d), desk[d].item \in Instalments PROVE FALSE
    <3>1. desk[d].item \in Touches(desk[d].item)
      BY DEF Touches
    <3> QED
      BY <1>1, <1>8, <2>1, <3>1 DEF Working
  <2> QED
    BY <1>1, <2>1 DEF AgreementOK, Working
<1>9. ASSUME ~lost', NEW j \in Items \ (raced' \cup decided') PROVE BooksOK(j)'
  <2>0. BooksOK(j) /\ item'[j] = item[j]
    BY <1>1, <1>2, <1>4, <1>9 DEF PfInv
  <2>1. \A c : Handled(c)' = Handled(c)
    BY <1>1 DEF Handled, Acting
  <2>2. \A c \in DOMAIN charges : charges[c].item = j => item'[j].status = Due(Handled(c)')
    BY <2>0, <2>1 DEF BooksOK
  <2> QED
    BY <1>1, <2>0, <2>2 DEF BooksOK, Serves, Due
<1> QED
  BY <1>3, <1>4, <1>5, <1>7, <1>8, <1>9 DEF PfInv

LEMMA NoteFailsKeeps == ASSUME PfInv, NEW i \in Items, NoteFails(i) PROVE PfInv'
<1>0. PfRows /\ PostedOK /\ NoneYet /\ AloneOn
  BY DEF PfInv
<1>1. /\ item[i].note = "asked" /\ notes[i] > 0
      /\ notes' = [notes EXCEPT ![i] = notes[i] - 1] /\ item' = [item EXCEPT ![i].note = "error"]
      /\ UNCHANGED <<agreement, charges, posted, received, desk, raced, decided, lost>>
  BY DEF NoteFails
<1>2. /\ item' \in [Items -> ItemRow] /\ item'[i].note = "error"
      /\ \A j \in Items : /\ item'[j].asaas = item[j].asaas /\ item'[j].status = item[j].status
                          /\ j # i => item'[j] = item[j]
  BY <1>0, <1>1 DEF PfRows, ItemRow
<1>3. notes' \in [Items -> Nat] /\ notes'[i] = notes[i] - 1 /\ \A j \in Items \ {i} : notes'[j] = notes[j]
  BY <1>0, <1>1 DEF PfRows
<1>4. \A c \in DOMAIN charges : charges[c].item \in Items
  BY <1>0, ChargeOf
<1>5. PfRows' /\ PostedOK' /\ AloneOn'
  BY <1>0, <1>1, <1>2, <1>3 DEF PfRows, PostedOK, AloneOn, Working, Touches
<1>6. NoneYet'
  BY <1>0, <1>1, <1>2, <1>4 DEF NoneYet, Items
<1>7. ASSUME NEW d \in Desks PROVE DeskOK(d)'
  BY <1>1, <1>2 DEF PfInv, DeskOK, Working, Serves
<1>8. ASSUME ~lost', NEW j \in Items \ raced' PROVE NotesOK(j)' /\ ChargesOK(j)'
  <2>0. NotesOK(j) /\ ChargesOK(j)
    BY <1>1, <1>8 DEF PfInv
  <2>1. ChargesOK(j)'
    BY <1>1, <1>2, <2>0 DEF ChargesOK
  <2>2. CASE j # i
    BY <1>1, <1>2, <1>3, <2>0, <2>1, <2>2 DEF NotesOK
  <2>3. CASE j = i
    <3>1. notes[i] \in Nat /\ notes[i] <= 1 /\ notes'[i] = 0
      BY <1>0, <1>1, <1>3, <2>0, <2>3 DEF PfRows, NotesOK
    <3> QED
      BY <1>1, <1>2, <2>0, <2>1, <2>3, <3>1 DEF NotesOK
  <2> QED
    BY <2>2, <2>3
<1>9. ASSUME ~lost', raced' \cap Instalments = {} PROVE AgreementOK'
  BY <1>1, <1>2, <1>9 DEF PfInv, AgreementOK, NoneOpen, Working, Serves, Items
<1>10. ASSUME ~lost', NEW j \in Items \ (raced' \cup decided') PROVE BooksOK(j)'
  <2>0. BooksOK(j)
    BY <1>1, <1>10 DEF PfInv
  <2>1. \A c : Handled(c)' = Handled(c)
    BY <1>1 DEF Handled, Acting
  <2>2. \A c \in DOMAIN charges : charges[c].item = j => item'[j].status = Due(Handled(c)')
    BY <1>2, <2>0, <2>1 DEF BooksOK
  <2> QED
    BY <1>1, <1>2, <2>0, <2>2 DEF BooksOK, Serves, Due
<1> QED
  BY <1>5, <1>6, <1>7, <1>8, <1>9, <1>10 DEF PfInv

LEMMA ServiceChangesKeeps == ASSUME PfInv, ServiceChanges PROVE PfInv'
<1>0. PfRows /\ PostedOK /\ NoneYet /\ AloneOn
  BY DEF PfInv
<1>1. PICK c \in DOMAIN charges, change \in Changes :
        /\ charges[c].state = change[1]
        /\ charges' = [charges EXCEPT ![c].state = change[2]]
        /\ posted' = posted \cup {<<c, change[2]>>}
  BY DEF ServiceChanges
<1>2. UNCHANGED <<item, agreement, notes, received, desk, raced, decided, lost>>
  BY DEF ServiceChanges
<1>3. /\ change[2] \in {"paid", "refunded", "deleted"} /\ change[1] # change[2]
      /\ ToldOf(change[2]) = ToldOf(change[1]) \cup {change[2]}
  BY DEF Changes, ToldOf
<1>4. /\ charges' \in Seq(ChargeRow) /\ DOMAIN charges' = DOMAIN charges
      /\ \A x \in DOMAIN charges : charges'[x].item = charges[x].item /\ (x # c => charges'[x] = charges[x])
      /\ charges'[c].state = change[2]
  <2> DEFINE row == [charges[c] EXCEPT !.state = change[2]]
  <2>1. row \in ChargeRow /\ row.item = charges[c].item /\ row.state = change[2]
    BY <1>0, <1>3, ChargeOf DEF ChargeRow
  <2>2. charges' = [charges EXCEPT ![c] = row] /\ charges \in Seq(ChargeRow)
    BY <1>0, <1>1 DEF PfRows
  <2> HIDE DEF row
  <2> QED
    BY <2>1, <2>2
<1>5. PostedOK'
  <2>1. ASSUME NEW e \in (DOMAIN charges) \X {"paid", "refunded", "deleted"}
        PROVE  e \in posted' <=> e[2] \in ToldOf(charges'[e[1]].state)
    <3>1. CASE e[1] = c
      <4>1. e \in posted' <=> (e \in posted \/ e[2] = change[2])
        BY <1>1, <2>1, <3>1
      <4>2. e \in posted <=> e[2] \in ToldOf(charges[c].state)
        BY <1>0, <2>1, <3>1 DEF PostedOK
      <4> QED
        BY <1>1, <1>3, <1>4, <3>1, <4>1, <4>2
    <3>2. CASE e[1] # c
      BY <1>0, <1>1, <1>4, <2>1, <3>2 DEF PostedOK
    <3> QED
      BY <3>1, <3>2
  <2>2. posted' \subseteq (DOMAIN charges) \X {"paid", "refunded", "deleted"} /\ received' \subseteq posted'
    BY <1>0, <1>1, <1>2, <1>3 DEF PostedOK
  <2>3. posted' = {e \in (DOMAIN charges) \X {"paid", "refunded", "deleted"} : e[2] \in ToldOf(charges'[e[1]].state)}
    BY <2>1, <2>2
  <2> QED
    BY <1>4, <2>2, <2>3 DEF PostedOK
<1>6. PfRows' /\ NoneYet' /\ AloneOn'
  BY <1>0, <1>2, <1>4 DEF PfRows, NoneYet, AloneOn, Working, Touches
<1>7. ASSUME NEW d \in Desks PROVE DeskOK(d)'
  <2>1. received \subseteq posted /\ \A e \in posted : e[1] \in DOMAIN charges
    BY <1>0 DEF PostedOK
  <2> QED
    BY <1>2, <1>4, <2>1 DEF PfInv, DeskOK, Working, Serves
<1>8. ASSUME ~lost', NEW j \in Items \ raced' PROVE NotesOK(j)' /\ ChargesOK(j)'
  <2>0. NotesOK(j) /\ ChargesOK(j)
    BY <1>2, <1>8 DEF PfInv
  <2>1. NotesOK(j)'
    BY <1>2, <2>0 DEF NotesOK
  <2>2. ChargesOK(j)'
    BY <1>2, <1>4, <2>0 DEF ChargesOK
  <2> QED
    BY <2>1, <2>2
<1>9. ASSUME ~lost', raced' \cap Instalments = {} PROVE AgreementOK'
  BY <1>2, <1>9 DEF PfInv, AgreementOK, NoneOpen, Working, Serves
<1>10. ASSUME ~lost', NEW j \in Items \ (raced' \cup decided') PROVE BooksOK(j)'
  <2>0. BooksOK(j)
    BY <1>2, <1>10 DEF PfInv
  <2>1. \A x : Handled(x)' = Handled(x)
    BY <1>2 DEF Handled, Acting
  <2>2. \A x \in DOMAIN charges' : charges'[x].item = j => item[j].status = Due(Handled(x)')
    BY <1>4, <2>0, <2>1 DEF BooksOK
  <2> QED
    BY <1>2, <2>0, <2>2 DEF BooksOK, Serves, Due
<1> QED
  BY <1>5, <1>6, <1>7, <1>8, <1>9, <1>10 DEF PfInv

LEMMA MakeChargeKeeps == ASSUME PfInv, NEW d \in Desks, MakeCharge(d) PROVE PfInv'
<1>0. PICK i : i = desk[d].item
  OBVIOUS
<1> USE <1>0
<1>1. /\ desk[d].pc = "charge" /\ Working(d)
      /\ UNCHANGED <<item, agreement, notes, posted, received, work, raced, decided, lost>>
  BY DEF MakeCharge, Working
<1>2. /\ i \in Items /\ item[i].status # "none" /\ PfRows /\ DeskOK(d) /\ desk[d] \in DeskRow
      /\ PostedOK /\ NoneYet /\ AloneOn /\ ~Serves(d)
  BY <1>1, ItsItem DEF DeskOK, PfInv
<1>3. CASE Ends(d) /\ UNCHANGED charges
  <2>5. desk' \in [Desks -> DeskRow] /\ desk'[d].pc = "idle" /\ \A e \in Desks \ {d} : desk'[e] = desk[e]
    BY <1>2, <1>3, EndsMoves
  <2>8. Moves(d)
    BY <1>1, <1>2, <1>3, <2>5 DEF Moves, PfRows
  <2>9. DeskOK(d)'
    BY <2>5 DEF DeskOK, Working
  <2>10. ASSUME ~lost, i \notin raced PROVE NotesOK(i)' /\ ChargesOK(i)'
    BY <1>1, <2>5, <2>8, <2>10, AskedStays
  <2>11. ASSUME ~lost, i \notin raced \cup decided PROVE BooksOK(i)'
    BY <1>1, <2>5, <2>8, <2>11, BooksUntouched DEF Acting
  <2>12. ItemHolds(i)'
    BY <1>1, <2>10, <2>11 DEF ItemHolds
  <2>13. ~lost /\ raced \cap Instalments = {} => AgreementHolds(d, i)'
    BY <1>1, <2>5, <2>8, AgreementStays
  <2> QED
    BY <2>8, <2>9, <2>12, <2>13, MovesKeeps
<1>4. CASE /\ charges' = Append(charges, [item |-> desk[d].item, state |-> "pending"])
           /\ desk' = [desk EXCEPT ![d].pc = "charged", ![d].event = <<Len(charges) + 1, "none">>]
  <2>1. PICK n : n = Len(charges) + 1
    OBVIOUS
  <2>2. /\ charges' \in Seq(ChargeRow) /\ n \in Nat /\ n # 0 /\ n \notin DOMAIN charges /\ DOMAIN charges' = DOMAIN charges \cup {n}
        /\ \A c \in DOMAIN charges : charges'[c] = charges[c]
        /\ charges'[n].item = i /\ charges'[n].state = "pending"
    <3> DEFINE new == [item |-> desk[d].item, state |-> "pending"]
    <3>1. new \in ChargeRow /\ new.item = i /\ new.state = "pending"
      BY <1>2 DEF ChargeRow
    <3>2. charges \in Seq(ChargeRow) /\ charges' = Append(charges, new)
      BY <1>2, <1>4 DEF PfRows
    <3> HIDE DEF new
    <3>3. /\ Len(charges) \in Nat /\ DOMAIN charges = 1 .. Len(charges) /\ DOMAIN charges' = 1 .. Len(charges) + 1
          /\ charges' \in Seq(ChargeRow) /\ charges'[Len(charges) + 1] = new
          /\ \A c \in 1 .. Len(charges) : charges'[c] = charges[c]
      BY <3>1, <3>2, AppendProperties, LenProperties
    <3> QED
      BY <2>1, <3>1, <3>3
  <2>3. /\ desk' \in [Desks -> DeskRow] /\ \A e \in Desks \ {d} : desk'[e] = desk[e]
        /\ desk'[d].pc = "charged" /\ desk'[d].item = i /\ desk'[d].ag = desk[d].ag /\ desk'[d].event = <<n, "none">>
        /\ desk'[d].event[2] = "none" /\ desk'[d].event[1] = n
    <3> DEFINE next == [desk[d] EXCEPT !.pc = "charged", !.event = <<n, "none">>]
    <3>1. next \in DeskRow /\ next.pc = "charged" /\ next.item = i /\ next.ag = desk[d].ag /\ next.event = <<n, "none">>
      BY <1>2, <2>2 DEF DeskRow
    <3>2. desk' = [desk EXCEPT ![d] = next]
      BY <1>2, <1>4, <2>1 DEF PfRows
    <3> HIDE DEF next
    <3>3. desk' \in [Desks -> DeskRow] /\ desk'[d] = next /\ \A e \in Desks \ {d} : desk'[e] = desk[e]
      BY <1>2, <3>1, <3>2, DeskMoves
    <3> QED
      BY <3>1, <3>3
  <2>4. received \subseteq posted /\ \A e \in posted : e[1] \in DOMAIN charges /\ e = <<e[1], e[2]>>
    BY <1>2 DEF PostedOK
  <2>5. PostedOK'
    <3>1. \A e \in posted : e \in (DOMAIN charges) \X {"paid", "refunded", "deleted"}
      BY <1>2 DEF PostedOK
    <3>2. ASSUME NEW e \in (DOMAIN charges') \X {"paid", "refunded", "deleted"}
          PROVE  e \in posted <=> e[2] \in ToldOf(charges'[e[1]].state)
      <4>1. CASE e[1] = n
        BY <2>2, <2>4, <4>1 DEF ToldOf
      <4>2. CASE e[1] # n
        <5>1. e[1] \in DOMAIN charges /\ charges'[e[1]] = charges[e[1]] /\ e \in (DOMAIN charges) \X {"paid", "refunded", "deleted"}
          BY <2>2, <3>2, <4>2
        <5> QED
          BY <1>2, <5>1 DEF PostedOK
      <4> QED
        BY <4>1, <4>2
    <3>3. posted = {e \in (DOMAIN charges') \X {"paid", "refunded", "deleted"} : e[2] \in ToldOf(charges'[e[1]].state)}
      BY <2>2, <3>1, <3>2
    <3> QED
      BY <1>1, <2>4, <3>3 DEF PostedOK
  <2>6. PfRows' /\ AloneOn' /\ NoneYet'
    <3>1. AloneOn'
      BY <1>1, <1>2, <2>3 DEF AloneOn, Working, Touches
    <3>2. NoneYet'
      BY <1>1, <1>2, <2>2 DEF NoneYet
    <3> QED
      BY <1>1, <1>2, <2>2, <2>3, <3>1, <3>2 DEF PfRows
  <2>7. ASSUME NEW e \in Desks PROVE DeskOK(e)'
    <3>1. CASE e = d
      BY <1>1, <1>2, <2>2, <2>3, <3>1 DEF DeskOK, Working, Serves
    <3>2. CASE e # d
      <4>1. DeskOK(e) /\ desk'[e] = desk[e]
        BY <2>3, <3>2 DEF PfInv
      <4> QED
        BY <1>1, <2>2, <2>4, <4>1 DEF DeskOK, Working, Serves
    <3> QED
      BY <3>1, <3>2
  <2>8. ASSUME ~lost', NEW j \in Items \ raced' PROVE NotesOK(j)' /\ ChargesOK(j)'
    <3>0. NotesOK(j) /\ ChargesOK(j)
      BY <1>1, <2>8 DEF PfInv
    <3>1. NotesOK(j)'
      BY <1>1, <2>3, <3>0 DEF NotesOK
    <3>2. ASSUME NEW c \in DOMAIN charges, charges[c].item = j
          PROVE  item[j].asaas = c \/ \E e \in Desks : desk'[e].pc = "charged" /\ desk'[e].event[1] = c
      BY <1>1, <2>3, <3>0, <3>2 DEF ChargesOK
    <3>3. \A c \in DOMAIN charges' : charges'[c].item = j =>
            item[j].asaas = c \/ \E e \in Desks : desk'[e].pc = "charged" /\ desk'[e].event[1] = c
      BY <2>2, <2>3, <3>2
    <3>4. \A e \in Desks : desk'[e].item = j =>
            /\ desk'[e].pc = "charge" => item[j].asaas = 0 /\ item[j].status # "gone"
            /\ desk'[e].pc = "charged" => item[j].asaas = 0 /\ item[j].status # "gone"
      BY <1>1, <2>3, <3>0 DEF ChargesOK
    <3>5. ChargesOK(j)'
      BY <1>1, <3>3, <3>4 DEF ChargesOK
    <3> QED
      BY <3>1, <3>5
  <2>9. ASSUME ~lost', raced' \cap Instalments = {} PROVE AgreementOK'
    <3>0. AgreementOK /\ NoneOpen' = NoneOpen
      BY <1>1, <2>9 DEF PfInv, NoneOpen
    <3>1. \A e \in Desks : desk[e].pc = "reactivate" => desk'[e] = desk[e]
      BY <1>1, <2>3
    <3> QED
      BY <1>1, <1>2, <2>3, <3>0, <3>1 DEF AgreementOK, Working, Serves
  <2>10. ASSUME ~lost', NEW j \in Items \ (raced' \cup decided') PROVE BooksOK(j)'
    <3>0. BooksOK(j) /\ j \notin raced /\ ~lost
      BY <1>1, <2>10 DEF PfInv
    <3>1. ASSUME NEW c PROVE Handled(c)' = Handled(c)
      <4>1. \A e \in Desks : Acting(e)' = Acting(e) /\ (Acting(e) => desk'[e].event = desk[e].event)
        BY <1>1, <2>3 DEF Acting
      <4> QED
        BY <1>1, <4>1 DEF Handled
    <3>2. ASSUME NEW c \in DOMAIN charges', charges'[c].item = j PROVE item[j].status = Due(Handled(c)')
      <4>1. CASE c \in DOMAIN charges
        BY <2>2, <3>0, <3>1, <3>2, <4>1 DEF BooksOK
      <4>2. CASE c = n
        <5>1. Handled(c) = {}
          BY <2>2, <2>4, <4>2 DEF Handled
        <5>2. item[j].status = "open"
          BY <1>1, <2>2, <3>0, <3>2, <4>2 DEF BooksOK
        <5> QED
          BY <3>1, <5>1, <5>2 DEF Due
      <4> QED
        BY <2>2, <4>1, <4>2
    <3>3. ASSUME NEW e \in Desks, desk'[e].item = j
          PROVE  /\ desk'[e].pc \in {"charge", "charged"} => item[j].status = "open"
                 /\ desk'[e].pc \in {"pay", "reopen", "cancel", "delete"} => desk'[e].event[2] # "none"
                 /\ desk'[e].pc = "pay" => desk'[e].event[2] = "paid"
                 /\ desk'[e].pc = "reopen" => desk'[e].event[2] = "refunded"
                 /\ desk'[e].pc = "cancel" => desk'[e].event[2] = "deleted"
                 /\ desk'[e].pc \in {"event", "pay"} /\ desk'[e].event[2] = "paid" => <<desk'[e].event[1], "refunded">> \notin received
      <4>1. CASE e = d
        BY <1>1, <2>3, <3>0, <3>3, <4>1 DEF BooksOK
      <4>2. CASE e # d
        BY <2>3, <3>0, <3>3, <4>2 DEF BooksOK, Serves
      <4> QED
        BY <4>1, <4>2
    <3> QED
      BY <1>1, <3>2, <3>3 DEF BooksOK, Serves, Due
  <2> QED
    BY <2>5, <2>6, <2>7, <2>8, <2>9, <2>10 DEF PfInv
<1> QED
  BY <1>3, <1>4 DEF MakeCharge

-----------------------------------------------------------------------------
LEMMA PfInitHolds == PfInit => PfInv
<1> SUFFICES ASSUME PfInit PROVE PfInv
  OBVIOUS
<1>1. /\ \A d \in Desks : desk[d] = IdleDesk /\ desk[d].pc = "idle"
      /\ IdleDesk \in DeskRow /\ DOMAIN charges = {} /\ charges = <<>>
  BY DEF PfInit, IdleDesk, DeskRow
<1>2. PfRows
  <2>1. charges \in Seq(ChargeRow)
    BY <1>1
  <2>2. desk \in [Desks -> DeskRow]
    BY <1>1 DEF PfInit
  <2> QED
    BY <2>1, <2>2 DEF PfInit, PfRows, ItemRow, Statuses
<1>3. PostedOK /\ NoneYet /\ AloneOn /\ \A d \in Desks : DeskOK(d)
  BY <1>1 DEF PfInit, PostedOK, NoneYet, AloneOn, DeskOK, Working, Serves, IdleDesk, Items
<1>4. ASSUME NEW i \in Items PROVE NotesOK(i) /\ ChargesOK(i) /\ BooksOK(i)
  <2>1. NotesOK(i)
    BY <1>1, <1>4 DEF PfInit, NotesOK
  <2>2. ChargesOK(i)
    BY <1>1, <1>4 DEF PfInit, ChargesOK
  <2>3. BooksOK(i)
    BY <1>1, <1>4 DEF BooksOK
  <2> QED
    BY <2>1, <2>2, <2>3
<1>5. AgreementOK
  BY <1>1 DEF PfInit, AgreementOK, Working
<1> QED
  BY <1>2, <1>3, <1>4, <1>5 DEF PfInv

LEMMA PfStep == PfInv /\ [PfNext]_pfVars => PfInv'
<1> SUFFICES ASSUME PfInv, [PfNext]_pfVars PROVE PfInv'
  OBVIOUS
<1>1. CASE UNCHANGED pfVars
  <2>0. UNCHANGED <<item, agreement, charges, notes, posted, received, desk, raced, decided, lost>>
    BY <1>1 DEF pfVars
  <2>2. {} \in SUBSET Items /\ item' = [i \in Items |-> IF i \in {} THEN [item[i] EXCEPT !.status = "open"] ELSE item[i]]
        /\ agreement \in {"none", "active", "done", "canceled"}
    BY <2>0 DEF PfInv, PfRows
  <2> QED
    BY <2>0, <2>2, CreationKeeps
<1>2. CASE PfNext
  <2>1. CASE CreateAgreement \/ CancelAgreement \/ ServiceChanges
    BY <2>1, CreateAgreementKeeps, CancelAgreementKeeps, ServiceChangesKeeps
  <2>2. CASE \E i \in Items : CreateExpense(i) \/ NoteFails(i)
    BY <2>2, CreateExpenseKeeps, NoteFailsKeeps
  <2>3. CASE \E d \in Desks, i \in Items, a \in {"pay", "reopen", "cancel", "charge", "note", "delete"} : Ask(d, i, a)
    BY <2>3, AskKeeps
  <2>4. CASE \E d \in Desks, e \in posted : TakeEvent(d, e)
    BY <2>4, TakeEventKeeps
  <2>5. CASE \E d \in Desks : Pay(d) \/ CloseIfDone(d) \/ Close(d) \/ Reopen(d) \/ Reactivate(d) \/ CancelItem(d)
                        \/ MakeCharge(d) \/ SaveCharge(d) \/ AskNote(d) \/ SaveNote(d) \/ Delete(d)
                        \/ Settle(d) \/ Dies(d)
    BY <2>5, PayKeeps, CloseIfDoneKeeps, CloseKeeps, ReopenKeeps, ReactivateKeeps, CancelItemKeeps, MakeChargeKeeps,
       SaveChargeKeeps, AskNoteKeeps, SaveNoteKeeps, DeleteKeeps, SettleKeeps, DiesKeeps
  <2> QED
    BY <1>2, <2>1, <2>2, <2>3, <2>4, <2>5 DEF PfNext
<1> QED
  BY <1>1, <1>2

LEMMA PfInvIsEnough == PfInv => BooksHold
<1> SUFFICES ASSUME PfInv PROVE BooksHold
  OBVIOUS
<1>1. ASSUME posted \subseteq received, \A d \in Desks : desk[d].pc = "idle", ~lost,
             NEW c \in DOMAIN charges, charges[c].item \notin raced \cup decided
      PROVE  item[charges[c].item].status = "paid" <=> charges[c].state = "paid"
  <2>1. charges[c].item \in Items /\ charges[c].state \in {"pending", "paid", "refunded", "deleted"}
    BY ChargeOf DEF PfInv
  <2>2. item[charges[c].item].status = Due(Handled(c))
    BY <1>1, <2>1 DEF PfInv, BooksOK
  <2>3. \A s \in {"paid", "refunded", "deleted"} : s \in Handled(c) <=> s \in ToldOf(charges[c].state)
    <3>1. received \subseteq posted
      BY DEF PfInv, PostedOK
    <3>2. \A s \in {"paid", "refunded", "deleted"} : s \in Handled(c) <=> <<c, s>> \in posted
      BY <1>1, <3>1 DEF Handled, Acting
    <3> QED
      BY <3>2, WhatWasTold
  <2> QED
    BY <2>1, <2>2, <2>3 DEF Due, ToldOf
<1>2. DoneIsDone
  BY DEF PfInv, DoneIsDone, AgreementOK, NoneOpen
<1>3. AskedOnce
  BY DEF PfInv, AskedOnce, NotesOK, ChargesOK
<1>4. BooksFollowCharges
  BY <1>1 DEF BooksFollowCharges
<1> QED
  BY <1>2, <1>3, <1>4 DEF BooksHold

\* The books of the office follow its money, and nobody is asked twice.
THEOREM BooksAreKept == PfSpec => []BooksHold
<1>1. PfSpec => []PfInv
  BY PfInitHolds, PfStep, PTL DEF PfSpec
<1> QED
  BY <1>1, PfInvIsEnough, PTL

-----------------------------------------------------------------------------
(* Coupons. *)
PromoRow == [active : BOOLEAN, value : Nat, count : Nat, mirror : SUBSET Nat]
OfficeRow == [trial : BOOLEAN, days : Nat]
TillRow == [pc : {"idle", "redeemDays", "redeem", "count", "countDays", "give", "mirror", "settle", "edit"},
            coupon : Coupons \cup {NoCoupon}, office : Offices \cup {NoOffice}, row : PromoRow, org : OfficeRow]
CouponRows ==
    /\ promo \in [Coupons -> PromoRow] /\ redeemed \subseteq Coupons \X Offices /\ office \in [Offices -> OfficeRow]
    /\ sessions \subseteq Offices \X Coupons \X Nat /\ till \in [Tills -> TillRow] /\ deaths \in Nat
    /\ changed \subseteq Coupons /\ rewritten \in BOOLEAN

TillOK(k) ==
    /\ till[k].pc # "idle" => till[k].coupon \in Coupons
    /\ till[k].pc \notin {"idle", "edit"} => till[k].office \in Offices
    /\ till[k].pc \in {"redeemDays", "countDays", "give"} => till[k].coupon \in TrialCoupons

\* Who gives the days of a coupon made the row of it, after it read how many days the office had.
Got(o) == {c \in TrialCoupons : <<c, o>> \in redeemed}
DaysOf(k) ==
    /\ till[k].pc = "redeemDays" => till[k].org.days <= Cardinality(Got(till[k].office) \ {till[k].coupon})
    /\ till[k].pc \in {"countDays", "give"} => till[k].org.days + 1 <= Cardinality(Got(till[k].office))
    /\ till[k].pc = "settle" => till[k].org.days <= Cardinality(Got(till[k].office))
DaysOK == \A o \in Offices : office[o].days <= Cardinality(Got(o))

Reckoned(c) == promo[c].count + Cardinality(Uncounted(c))
CountOK(c) == Reckoned(c) <= Cardinality(UsesOf(c)) /\ Cardinality(UsesOf(c)) <= Reckoned(c) + deaths

\* A mirror of an older discount is one of a coupon that was changed.
MirrorOK ==
    /\ \A c \in Coupons \ changed : promo[c].mirror \subseteq {promo[c].value}
    /\ \A s \in sessions : promo[s[2]].mirror # {} /\ (s[2] \notin changed => promo[s[2]].value = s[3])
MirrorOf(k) ==
    till[k].pc = "mirror" /\ till[k].row.mirror # {} =>
        /\ promo[till[k].coupon].mirror # {}
        /\ till[k].coupon \notin changed => till[k].row.mirror \subseteq {promo[till[k].coupon].value}

CouponsInv ==
    /\ CouponRows /\ DaysOK
    /\ \A k \in Tills : TillOK(k) /\ DaysOf(k)
    /\ ~rewritten => MirrorOK /\ (\A k \in Tills : MirrorOf(k)) /\ \A c \in Coupons : CountOK(c)

-----------------------------------------------------------------------------
LEMMA TillMoves ==
    ASSUME CouponRows, NEW k \in Tills, NEW next \in TillRow, till' = [till EXCEPT ![k] = next]
    PROVE  till' \in [Tills -> TillRow] /\ till'[k] = next /\ \A j \in Tills \ {k} : till'[j] = till[j]
  BY DEF CouponRows

LEMMA LeavesMoves ==
    ASSUME CouponRows, NEW k \in Tills, Leaves(k)
    PROVE  till' \in [Tills -> TillRow] /\ till'[k].pc = "idle" /\ \A j \in Tills \ {k} : till'[j] = till[j]
<1>1. NoTill \in TillRow /\ NoTill.pc = "idle"
  BY DEF NoTill, TillRow, NewPromo, NewOffice, PromoRow, OfficeRow
<1> QED
  BY <1>1, TillMoves DEF Leaves

LEMMA StepsMoves ==
    ASSUME CouponRows, NEW k \in Tills, NEW to \in {"count", "countDays", "give", "redeem"}, Steps(k, to)
    PROVE  /\ till' \in [Tills -> TillRow] /\ \A j \in Tills \ {k} : till'[j] = till[j]
           /\ till'[k].pc = to /\ till'[k].coupon = till[k].coupon /\ till'[k].office = till[k].office
           /\ till'[k].row = till[k].row /\ till'[k].org = till[k].org
<1> DEFINE next == [till[k] EXCEPT !.pc = to]
<1>1. till[k] \in TillRow
  BY DEF CouponRows
<1>2. next \in TillRow /\ next.pc = to /\ next.coupon = till[k].coupon /\ next.office = till[k].office
      /\ next.row = till[k].row /\ next.org = till[k].org
  BY <1>1 DEF TillRow
<1>3. till' = [till EXCEPT ![k] = next]
  BY DEF Steps, CouponRows
<1> HIDE DEF next
<1> QED
  BY <1>2, <1>3, TillMoves

LEMMA StartsMoves ==
    ASSUME CouponRows, NEW k \in Tills, NEW to \in {"redeemDays", "mirror", "settle", "edit"}, NEW c \in Coupons,
           NEW o \in Offices \cup {NoOffice}, Starts(k, to, c, o)
    PROVE  /\ till' \in [Tills -> TillRow] /\ \A j \in Tills \ {k} : till'[j] = till[j]
           /\ till[k].pc = "idle"
           /\ till'[k].pc = to /\ till'[k].coupon = c /\ till'[k].office = o /\ till'[k].row = promo[c]
           /\ o \in Offices => till'[k].org = office[o]
<1> DEFINE owned == IF o = NoOffice THEN NewOffice ELSE office[o]
           next == [pc |-> to, coupon |-> c, office |-> o, row |-> promo[c], org |-> owned]
<1>1. promo[c] \in PromoRow /\ owned \in OfficeRow
  BY DEF CouponRows, NewOffice, OfficeRow
<1>2. o \in Offices => owned = office[o]
  BY CouponsAssumption
<1> HIDE DEF owned
<1>3. next \in TillRow /\ next.pc = to /\ next.coupon = c /\ next.office = o /\ next.row = promo[c] /\ next.org = owned
  BY <1>1 DEF TillRow
<1>4. till[k].pc = "idle" /\ till' = [till EXCEPT ![k] = next]
  BY DEF Starts, owned
<1> HIDE DEF next
<1> QED
  BY <1>2, <1>3, <1>4, TillMoves

\* How many coupons gave an office days, and how many offices used a coupon.
LEMMA Counted ==
    /\ \A o : IsFiniteSet(Got(o)) /\ Cardinality(Got(o)) \in Nat
    /\ \A c : IsFiniteSet(UsesOf(c)) /\ Cardinality(UsesOf(c)) \in Nat
    /\ \A c : IsFiniteSet(Uncounted(c)) /\ Cardinality(Uncounted(c)) \in Nat
<1>1. IsFiniteSet(TrialCoupons) /\ IsFiniteSet(Offices) /\ IsFiniteSet(Tills)
  BY CouponsAssumption, FS_Subset
<1>2. \A o : Got(o) \in SUBSET TrialCoupons
  BY DEF Got
<1>3. \A c : UsesOf(c) \in SUBSET Offices /\ Uncounted(c) \in SUBSET Tills
  BY DEF UsesOf, Uncounted
<1>4. \A o : IsFiniteSet(Got(o))
  BY <1>1, <1>2, FS_Subset
<1>5. \A c : IsFiniteSet(UsesOf(c)) /\ IsFiniteSet(Uncounted(c))
  BY <1>1, <1>3, FS_Subset
<1> QED
  BY <1>4, <1>5, FS_CardinalityType

\* Rows of uses only get more.
LEMMA GotGrows ==
    ASSUME NEW o, redeemed \subseteq redeemed', NEW x
    PROVE  /\ Cardinality(Got(o)) \in Nat /\ Cardinality(Got(o)') \in Nat /\ Cardinality(Got(o)) <= Cardinality(Got(o)')
           /\ Cardinality(Got(o) \ {x}) \in Nat /\ Cardinality(Got(o)' \ {x}) \in Nat
           /\ Cardinality(Got(o) \ {x}) <= Cardinality(Got(o)' \ {x})
           /\ x \notin Got(o) => Got(o) \ {x} = Got(o)
           /\ x \in Got(o)' => Cardinality(Got(o) \ {x}) + 1 <= Cardinality(Got(o)')
<1>1. IsFiniteSet(TrialCoupons)
  BY CouponsAssumption, FS_Subset
<1>2. Got(o)' \in SUBSET TrialCoupons /\ Got(o) \in SUBSET (Got(o)')
  BY DEF Got
<1>3. IsFiniteSet(Got(o)')
  BY <1>1, <1>2, FS_Subset
<1>4. IsFiniteSet(Got(o)) /\ Cardinality(Got(o)) <= Cardinality(Got(o)')
  BY <1>2, <1>3, FS_Subset
<1>5. IsFiniteSet(Got(o) \ {x}) /\ IsFiniteSet(Got(o)' \ {x})
  BY <1>3, <1>4, FS_RemoveElement
<1>6. Cardinality(Got(o)) \in Nat /\ Cardinality(Got(o)') \in Nat /\ Cardinality(Got(o) \ {x}) \in Nat
      /\ Cardinality(Got(o)' \ {x}) \in Nat
  BY <1>3, <1>4, <1>5, FS_CardinalityType
<1>7. Got(o) \ {x} \in SUBSET (Got(o)' \ {x})
  BY <1>2
<1>8. Cardinality(Got(o) \ {x}) <= Cardinality(Got(o)' \ {x})
  BY <1>5, <1>7, FS_Subset
<1>9. x \in Got(o)' => Cardinality(Got(o)' \ {x}) = Cardinality(Got(o)') - 1
  BY <1>3, FS_RemoveElement
<1> QED
  BY <1>4, <1>6, <1>8, <1>9

-----------------------------------------------------------------------------
LEMMA DaysStay ==
    ASSUME CouponRows, NEW j \in Tills, DaysOf(j), till'[j] = till[j], redeemed \subseteq redeemed' PROVE DaysOf(j)'
<1>1. PICK o, x : o = till[j].office /\ x = till[j].coupon
  OBVIOUS
<1>2. /\ Cardinality(Got(o)) \in Nat /\ Cardinality(Got(o)') \in Nat /\ Cardinality(Got(o)) <= Cardinality(Got(o)')
      /\ Cardinality(Got(o) \ {x}) \in Nat /\ Cardinality(Got(o)' \ {x}) \in Nat
      /\ Cardinality(Got(o) \ {x}) <= Cardinality(Got(o)' \ {x})
  BY GotGrows
<1>3. till[j].org.days \in Nat
  BY DEF CouponRows, TillRow, OfficeRow
<1>4. DaysOf(j)' <=>
        /\ till[j].pc = "redeemDays" => till[j].org.days <= Cardinality(Got(o)' \ {x})
        /\ till[j].pc \in {"countDays", "give"} => till[j].org.days + 1 <= Cardinality(Got(o)')
        /\ till[j].pc = "settle" => till[j].org.days <= Cardinality(Got(o)')
  BY <1>1 DEF DaysOf, Got
<1>5. /\ till[j].pc = "redeemDays" => till[j].org.days <= Cardinality(Got(o) \ {x})
      /\ till[j].pc \in {"countDays", "give"} => till[j].org.days + 1 <= Cardinality(Got(o))
      /\ till[j].pc = "settle" => till[j].org.days <= Cardinality(Got(o))
  BY <1>1 DEF DaysOf
<1> HIDE DEF Got
<1> QED
  BY <1>2, <1>3, <1>4, <1>5

LEMMA CountStays ==
    ASSUME CouponRows, NEW c \in Coupons, CountOK(c), redeemed' = redeemed, promo'[c].count = promo[c].count,
           deaths' \in Nat, deaths <= deaths', Uncounted(c)' = Uncounted(c)
    PROVE  CountOK(c)'
<1>1. UsesOf(c)' = UsesOf(c)
  BY DEF UsesOf
<1>2. Cardinality(UsesOf(c)) \in Nat /\ Cardinality(Uncounted(c)) \in Nat /\ promo[c].count \in Nat /\ deaths \in Nat
  BY Counted DEF CouponRows, PromoRow
<1>3. Reckoned(c)' = Reckoned(c) /\ Reckoned(c) \in Nat
  BY <1>2 DEF Reckoned
<1> QED
  BY <1>1, <1>2, <1>3 DEF CountOK

Counting(k) == till[k].pc \in {"count", "countDays"}

LEMMA UncountedStays ==
    ASSUME NEW k \in Tills, ~Counting(k), ~Counting(k)', \A j \in Tills \ {k} : till'[j] = till[j], NEW c
    PROVE  Uncounted(c)' = Uncounted(c)
  BY DEF Uncounted, Counting

LEMMA MirrorStays ==
    ASSUME MirrorOK, UNCHANGED <<promo, sessions, changed>>
    PROVE  MirrorOK' /\ \A j \in Tills : MirrorOf(j) /\ till'[j] = till[j] => MirrorOf(j)'
  BY DEF MirrorOK, MirrorOf

\* A step of one handler that changes no promotion, use, checkout or death.
LEMMA QuietStep ==
    ASSUME CouponsInv, NEW k \in Tills, till' \in [Tills -> TillRow], \A j \in Tills \ {k} : till'[j] = till[j],
           ~Counting(k), ~Counting(k)', TillOK(k)', DaysOf(k)', ~rewritten => MirrorOf(k)',
           office' \in [Offices -> OfficeRow], DaysOK',
           UNCHANGED <<promo, redeemed, sessions, deaths, changed, rewritten>>
    PROVE  CouponsInv'
<1>0. CouponRows /\ deaths \in Nat
  BY DEF CouponsInv, CouponRows
<1>1. CouponRows'
  BY <1>0 DEF CouponRows
<1>2. ASSUME NEW j \in Tills PROVE TillOK(j)' /\ DaysOf(j)'
  <2>1. CASE j = k
    BY <2>1
  <2>2. CASE j # k
    <3>1. TillOK(j) /\ DaysOf(j) /\ till'[j] = till[j]
      BY <2>2 DEF CouponsInv
    <3>2. TillOK(j)'
      BY <3>1 DEF TillOK
    <3> QED
      BY <1>0, <3>1, <3>2, DaysStay
  <2> QED
    BY <2>1, <2>2
<1>3. ASSUME ~rewritten' PROVE MirrorOK' /\ (\A j \in Tills : MirrorOf(j)') /\ \A c \in Coupons : CountOK(c)'
  <2>1. ~rewritten /\ MirrorOK /\ (\A j \in Tills : MirrorOf(j)) /\ \A c \in Coupons : CountOK(c)
    BY <1>3 DEF CouponsInv
  <2>2. MirrorOK' /\ \A j \in Tills : MirrorOf(j)'
    BY <2>1, MirrorStays
  <2>3. ASSUME NEW c \in Coupons PROVE CountOK(c)'
    <3>1. Uncounted(c)' = Uncounted(c)
      BY UncountedStays
    <3> QED
      BY <1>0, <2>1, <3>1, CountStays
  <2> QED
    BY <2>2, <2>3
<1> QED
  BY <1>1, <1>2, <1>3 DEF CouponsInv

LEMMA SameDays == ASSUME CouponsInv, UNCHANGED <<office, redeemed>> PROVE office' \in [Offices -> OfficeRow] /\ DaysOK'
  BY DEF CouponsInv, CouponRows, DaysOK, Got

LEMMA DaysAre ==
    ASSUME NEW k \in Tills, NEW o, NEW x, till'[k].office = o, till'[k].coupon = x
    PROVE  DaysOf(k)' <=>
        /\ till'[k].pc = "redeemDays" => till'[k].org.days <= Cardinality(Got(o)' \ {x})
        /\ till'[k].pc \in {"countDays", "give"} => till'[k].org.days + 1 <= Cardinality(Got(o)')
        /\ till'[k].pc = "settle" => till'[k].org.days <= Cardinality(Got(o)')
  BY DEF DaysOf, Got

LEMMA AskDaysKeeps == ASSUME CouponsInv, NEW k \in Tills, NEW c \in Coupons, NEW o \in Offices, AskDays(k, c, o) PROVE CouponsInv'
<1>0. CouponRows /\ DaysOK
  BY DEF CouponsInv
<1>1. c \in TrialCoupons /\ <<c, o>> \notin redeemed /\ Starts(k, "redeemDays", c, o)
      /\ UNCHANGED <<promo, redeemed, office, sessions, edits, deaths, changed, rewritten>>
  BY DEF AskDays, Valid
<1>2. /\ till' \in [Tills -> TillRow] /\ \A j \in Tills \ {k} : till'[j] = till[j]
      /\ till[k].pc = "idle"
      /\ till'[k].pc = "redeemDays" /\ till'[k].coupon = c /\ till'[k].office = o /\ till'[k].org = office[o]
  BY <1>0, <1>1, StartsMoves
<1>3. Got(o) \ {c} = Got(o) /\ Got(o)' = Got(o)
  BY <1>1 DEF Got
<1>4. DaysOf(k)'
  <2>1. office[o].days <= Cardinality(Got(o) \ {c})
    BY <1>0, <1>3 DEF DaysOK
  <2>2. till'[k].org.days <= Cardinality(Got(o)' \ {c})
    BY <1>2, <1>3, <2>1
  <2> HIDE DEF Got
  <2> QED
    BY <1>2, <2>2, DaysAre
<1>5. TillOK(k)' /\ MirrorOf(k)' /\ ~Counting(k) /\ ~Counting(k)'
  BY <1>1, <1>2 DEF TillOK, MirrorOf, Counting
<1> QED
  BY <1>1, <1>2, <1>4, <1>5, SameDays, QuietStep

LEMMA AskCheckoutKeeps ==
    ASSUME CouponsInv, NEW k \in Tills, NEW c \in Coupons, NEW o \in Offices, AskCheckout(k, c, o) PROVE CouponsInv'
<1>0. CouponRows
  BY DEF CouponsInv
<1>1. Starts(k, "mirror", c, o) /\ UNCHANGED <<promo, redeemed, office, sessions, edits, deaths, changed, rewritten>>
  BY DEF AskCheckout
<1>2. /\ till' \in [Tills -> TillRow] /\ \A j \in Tills \ {k} : till'[j] = till[j]
      /\ till[k].pc = "idle"
      /\ till'[k].pc = "mirror" /\ till'[k].coupon = c /\ till'[k].office = o /\ till'[k].row = promo[c]
  BY <1>0, <1>1, StartsMoves
<1>3. TillOK(k)' /\ DaysOf(k)' /\ ~Counting(k) /\ ~Counting(k)'
  BY <1>2 DEF TillOK, DaysOf, Counting
<1>4. ~rewritten => MirrorOf(k)'
  BY <1>1, <1>2 DEF CouponsInv, MirrorOK, MirrorOf
<1> QED
  BY <1>1, <1>2, <1>3, <1>4, SameDays, QuietStep

LEMMA AskEditKeeps == ASSUME CouponsInv, NEW k \in Tills, NEW c \in Coupons, AskEdit(k, c) PROVE CouponsInv'
<1>0. CouponRows
  BY DEF CouponsInv
<1>1. Starts(k, "edit", c, NoOffice) /\ UNCHANGED <<promo, redeemed, office, sessions, deaths, changed, rewritten>>
  BY DEF AskEdit
<1>2. /\ till' \in [Tills -> TillRow] /\ \A j \in Tills \ {k} : till'[j] = till[j]
      /\ till[k].pc = "idle" /\ till'[k].pc = "edit" /\ till'[k].coupon = c
  BY <1>0, <1>1, StartsMoves
<1>3. TillOK(k)' /\ DaysOf(k)' /\ MirrorOf(k)' /\ ~Counting(k) /\ ~Counting(k)'
  BY <1>2 DEF TillOK, DaysOf, MirrorOf, Counting
<1> QED
  BY <1>1, <1>2, <1>3, SameDays, QuietStep

LEMMA PaymentToldKeeps == ASSUME CouponsInv, NEW k \in Tills, NEW s \in sessions, PaymentTold(k, s) PROVE CouponsInv'
<1>0. CouponRows /\ DaysOK /\ s[1] \in Offices /\ s[2] \in Coupons
  BY DEF CouponsInv, CouponRows
<1>1. Starts(k, "settle", s[2], s[1]) /\ UNCHANGED <<promo, redeemed, office, sessions, edits, deaths, changed, rewritten>>
  BY DEF PaymentTold
<1>2. /\ till' \in [Tills -> TillRow] /\ \A j \in Tills \ {k} : till'[j] = till[j]
      /\ till[k].pc = "idle" /\ till'[k].pc = "settle" /\ till'[k].coupon = s[2] /\ till'[k].office = s[1]
      /\ till'[k].org = office[s[1]]
  BY <1>0, <1>1, StartsMoves
<1>3. TillOK(k)' /\ MirrorOf(k)' /\ ~Counting(k) /\ ~Counting(k)'
  BY <1>0, <1>2 DEF TillOK, MirrorOf, Counting
<1>4. DaysOf(k)'
  <2>1. office[s[1]].days <= Cardinality(Got(s[1]))
    BY <1>0 DEF DaysOK
  <2>2. Got(s[1])' = Got(s[1])
    BY <1>1 DEF Got
  <2>3. till'[k].org.days <= Cardinality(Got(s[1])')
    BY <1>2, <2>1, <2>2
  <2> QED
    BY <1>2, <2>3, DaysAre
<1> QED
  BY <1>1, <1>2, <1>3, <1>4, SameDays, QuietStep

LEMMA GiveDaysKeeps == ASSUME CouponsInv, NEW k \in Tills, GiveDays(k) PROVE CouponsInv'
<1>0. CouponRows /\ DaysOK /\ TillOK(k) /\ DaysOf(k) /\ till[k] \in TillRow
  BY DEF CouponsInv, CouponRows
<1>1. /\ till[k].pc = "give" /\ office' = [office EXCEPT ![till[k].office].days = till[k].org.days + 1] /\ Leaves(k)
      /\ UNCHANGED <<promo, redeemed, sessions, edits, deaths, changed, rewritten>>
  BY DEF GiveDays
<1>2. till' \in [Tills -> TillRow] /\ till'[k].pc = "idle" /\ \A j \in Tills \ {k} : till'[j] = till[j]
  BY <1>0, <1>1, LeavesMoves
<1>3. till[k].office \in Offices /\ till[k].org.days \in Nat /\ till[k].org.days + 1 <= Cardinality(Got(till[k].office))
  BY <1>0, <1>1 DEF TillOK, DaysOf, TillRow, OfficeRow
<1>4. /\ office' \in [Offices -> OfficeRow]
      /\ \A o \in Offices : office'[o].days = IF o = till[k].office THEN till[k].org.days + 1 ELSE office[o].days
  BY <1>0, <1>1, <1>3 DEF CouponRows, OfficeRow
<1>5. DaysOK'
  <2>1. \A o \in Offices : Got(o)' = Got(o)
    BY <1>1 DEF Got
  <2>2. \A o \in Offices : office'[o].days <= Cardinality(Got(o))
    BY <1>0, <1>3, <1>4 DEF DaysOK
  <2> QED
    BY <2>1, <2>2 DEF DaysOK
<1>6. TillOK(k)' /\ DaysOf(k)' /\ MirrorOf(k)' /\ ~Counting(k) /\ ~Counting(k)'
  BY <1>1, <1>2 DEF TillOK, DaysOf, MirrorOf, Counting
<1> QED
  BY <1>1, <1>2, <1>4, <1>5, <1>6, QuietStep

LEMMA SettleOfficeKeeps == ASSUME CouponsInv, NEW k \in Tills, SettleOffice(k) PROVE CouponsInv'
<1>0. CouponRows /\ DaysOK /\ TillOK(k) /\ DaysOf(k) /\ till[k] \in TillRow
  BY DEF CouponsInv, CouponRows
<1>1. /\ till[k].pc = "settle" /\ office' = [office EXCEPT ![till[k].office] = [till[k].org EXCEPT !.trial = FALSE]]
      /\ Steps(k, "redeem")
      /\ UNCHANGED <<promo, redeemed, sessions, edits, deaths, changed, rewritten>>
  BY DEF SettleOffice
<1>2. /\ till' \in [Tills -> TillRow] /\ \A j \in Tills \ {k} : till'[j] = till[j]
      /\ till'[k].pc = "redeem" /\ till'[k].coupon = till[k].coupon /\ till'[k].office = till[k].office
  BY <1>0, <1>1, StepsMoves
<1>3. till[k].office \in Offices /\ till[k].org \in OfficeRow /\ till[k].org.days <= Cardinality(Got(till[k].office))
  BY <1>0, <1>1 DEF TillOK, DaysOf, TillRow
<1>4. /\ office' \in [Offices -> OfficeRow]
      /\ \A o \in Offices : office'[o].days = IF o = till[k].office THEN till[k].org.days ELSE office[o].days
  BY <1>0, <1>1, <1>3 DEF CouponRows, OfficeRow
<1>5. DaysOK'
  <2>1. \A o \in Offices : Got(o)' = Got(o)
    BY <1>1 DEF Got
  <2>2. \A o \in Offices : office'[o].days <= Cardinality(Got(o))
    BY <1>0, <1>3, <1>4 DEF DaysOK
  <2> QED
    BY <2>1, <2>2 DEF DaysOK
<1>6. TillOK(k)' /\ DaysOf(k)' /\ MirrorOf(k)' /\ ~Counting(k) /\ ~Counting(k)'
  BY <1>0, <1>1, <1>2 DEF TillOK, DaysOf, MirrorOf, Counting
<1> QED
  BY <1>1, <1>2, <1>4, <1>5, <1>6, QuietStep

\* Any other step: what it must say of its own handler and of the rows.
LEMMA OneStep ==
    ASSUME CouponsInv, NEW k \in Tills, \A j \in Tills \ {k} : till'[j] = till[j], redeemed \subseteq redeemed',
           CouponRows', DaysOK', TillOK(k)', DaysOf(k)',
           ~rewritten' => MirrorOK' /\ (\A j \in Tills : MirrorOf(j)') /\ \A c \in Coupons : CountOK(c)'
    PROVE  CouponsInv'
<1>1. ASSUME NEW j \in Tills PROVE TillOK(j)' /\ DaysOf(j)'
  <2>1. CASE j = k
    BY <2>1
  <2>2. CASE j # k
    <3>1. CouponRows /\ TillOK(j) /\ DaysOf(j) /\ till'[j] = till[j]
      BY <2>2 DEF CouponsInv
    <3>2. TillOK(j)'
      BY <3>1 DEF TillOK
    <3> QED
      BY <3>1, <3>2, DaysStay
  <2> QED
    BY <2>1, <2>2
<1> QED
  BY <1>1 DEF CouponsInv

\* The count of a coupon, where the uses, the handlers that have to count one and the deaths change.
LEMMA CountMoves ==
    ASSUME CouponRows, NEW c \in Coupons, CountOK(c), NEW u \in Int, NEW n \in Int, NEW d \in Int,
           Cardinality(UsesOf(c)') = Cardinality(UsesOf(c)) + u,
           Reckoned(c)' = Reckoned(c) + n, deaths' = deaths + d, n <= u, u <= n + d
    PROVE  CountOK(c)'
<1>1. Cardinality(UsesOf(c)) \in Nat /\ Cardinality(Uncounted(c)) \in Nat /\ promo[c].count \in Nat /\ deaths \in Nat
  BY Counted DEF CouponRows, PromoRow
<1>2. Reckoned(c) \in Nat
  BY <1>1 DEF Reckoned
<1>3. CountOK(c)' <=> Reckoned(c)' <= Cardinality(UsesOf(c)') /\ Cardinality(UsesOf(c)') <= Reckoned(c)' + deaths'
  BY DEF CountOK
<1>4. Reckoned(c) <= Cardinality(UsesOf(c)) /\ Cardinality(UsesOf(c)) <= Reckoned(c) + deaths
  BY DEF CountOK
<1> QED
  BY <1>1, <1>2, <1>3, <1>4

LEMMA RedeemKeeps == ASSUME CouponsInv, NEW k \in Tills, Redeem(k) PROVE CouponsInv'
<1>0. CouponRows /\ DaysOK /\ TillOK(k) /\ DaysOf(k) /\ till[k] \in TillRow
  BY DEF CouponsInv, CouponRows
<1>1. PICK c, o : c = till[k].coupon /\ o = till[k].office
  OBVIOUS
<1>2. /\ till[k].pc \in {"redeemDays", "redeem"} /\ redeemed' = redeemed \cup {<<c, o>>}
      /\ UNCHANGED <<promo, office, sessions, edits, deaths, changed, rewritten>>
  BY <1>1 DEF Redeem
<1>3. c \in Coupons /\ o \in Offices /\ (till[k].pc = "redeemDays" => c \in TrialCoupons)
  BY <1>0, <1>1, <1>2 DEF TillOK
<1>4. CASE ~Counts(c, o)
  <2>1. Leaves(k) /\ redeemed' = redeemed
    BY <1>1, <1>2, <1>4 DEF Redeem, Counts
  <2>2. till' \in [Tills -> TillRow] /\ till'[k].pc = "idle" /\ \A j \in Tills \ {k} : till'[j] = till[j]
    BY <1>0, <2>1, LeavesMoves
  <2>3. TillOK(k)' /\ DaysOf(k)' /\ MirrorOf(k)' /\ ~Counting(k) /\ ~Counting(k)'
    BY <1>2, <2>2 DEF TillOK, DaysOf, MirrorOf, Counting
  <2> QED
    BY <1>2, <2>1, <2>2, <2>3, SameDays, QuietStep
<1>5. CASE Counts(c, o)
  <2>1. PICK to \in {"count", "countDays"} : Steps(k, to) /\ (to = "countDays" <=> till[k].pc = "redeemDays")
    BY <1>1, <1>2, <1>5 DEF Redeem
  <2>2. /\ till' \in [Tills -> TillRow] /\ \A j \in Tills \ {k} : till'[j] = till[j]
        /\ till'[k].pc = to /\ till'[k].coupon = c /\ till'[k].office = o /\ till'[k].org = till[k].org
    BY <1>0, <1>1, <2>1, StepsMoves
  <2>3. CouponRows'
    BY <1>0, <1>2, <1>3, <2>2 DEF CouponRows
  <2>4. redeemed \subseteq redeemed'
    BY <1>2
  <2>5. DaysOK'
    <3>1. ASSUME NEW x \in Offices PROVE office'[x].days <= Cardinality(Got(x)')
      <4>1. Cardinality(Got(x)) \in Nat /\ Cardinality(Got(x)') \in Nat /\ Cardinality(Got(x)) <= Cardinality(Got(x)')
        BY <2>4, GotGrows
      <4>2. office'[x].days = office[x].days /\ office[x].days \in Nat /\ office[x].days <= Cardinality(Got(x))
        BY <1>0, <1>2 DEF DaysOK, CouponRows, OfficeRow
      <4> HIDE DEF Got
      <4> QED
        BY <4>1, <4>2
    <3> QED
      BY <3>1 DEF DaysOK
  <2>6. TillOK(k)'
    BY <1>3, <2>1, <2>2 DEF TillOK
  <2>7. DaysOf(k)'
    <3>1. to = "countDays" => till'[k].org.days + 1 <= Cardinality(Got(o)')
      <4>1. SUFFICES ASSUME to = "countDays" PROVE till[k].org.days + 1 <= Cardinality(Got(o)')
        BY <2>2
      <4>2. till[k].org.days <= Cardinality(Got(o) \ {c}) /\ till[k].org.days \in Nat
        BY <1>0, <1>1, <2>1, <4>1 DEF DaysOf, TillRow, OfficeRow
      <4>3. c \in Got(o)'
        BY <1>2, <1>3, <2>1, <4>1 DEF Got
      <4>4. Cardinality(Got(o) \ {c}) \in Nat /\ Cardinality(Got(o)') \in Nat
            /\ Cardinality(Got(o) \ {c}) + 1 <= Cardinality(Got(o)')
        BY <2>4, <4>3, GotGrows
      <4> QED
        BY <4>2, <4>4
    <3>2. to = "count" \/ to = "countDays"
      BY <2>1
    <3>3. to = "count" => DaysOf(k)'
      BY <2>2 DEF DaysOf
    <3>4. to = "countDays" => DaysOf(k)'
      BY <2>2, <3>1, DaysAre
    <3> QED
      BY <3>2, <3>3, <3>4
  <2>8. ASSUME ~rewritten' PROVE MirrorOK' /\ (\A j \in Tills : MirrorOf(j)') /\ \A x \in Coupons : CountOK(x)'
    <3>1. MirrorOK /\ (\A j \in Tills : MirrorOf(j)) /\ \A x \in Coupons : CountOK(x)
      BY <1>2, <2>8 DEF CouponsInv
    <3>2. MirrorOf(k)'
      BY <2>1, <2>2 DEF MirrorOf
    <3>3. MirrorOK' /\ \A j \in Tills : MirrorOf(j)'
      BY <1>2, <2>2, <3>1, <3>2, MirrorStays
    <3>4. ASSUME NEW x \in Coupons, x # c PROVE CountOK(x)'
      <4>1. UsesOf(x)' = UsesOf(x)
        BY <1>2, <3>4 DEF UsesOf
      <4>2. Uncounted(x)' = Uncounted(x)
        BY <1>1, <2>2, <3>4 DEF Uncounted
      <4>3. Cardinality(UsesOf(x)) \in Nat /\ Cardinality(Uncounted(x)) \in Nat /\ promo[x].count \in Nat /\ deaths \in Nat
        BY <1>0, Counted DEF CouponRows, PromoRow
      <4>4. Reckoned(x)' = Reckoned(x) /\ Reckoned(x) \in Nat
        BY <1>2, <4>2, <4>3 DEF Reckoned
      <4> QED
        BY <1>2, <3>1, <4>1, <4>4 DEF CountOK
    <3>5. CountOK(c)'
      <4>1. UsesOf(c)' = UsesOf(c) \cup {o} /\ o \notin UsesOf(c)
        BY <1>2, <1>3, <1>5 DEF UsesOf, Counts
      <4>2. Uncounted(c)' = Uncounted(c) \cup {k} /\ k \notin Uncounted(c)
        BY <1>2, <2>1, <2>2 DEF Uncounted
      <4>3. IsFiniteSet(UsesOf(c)) /\ IsFiniteSet(Uncounted(c)) /\ Cardinality(Uncounted(c)) \in Nat
            /\ Cardinality(UsesOf(c)) \in Nat /\ promo[c].count \in Nat /\ deaths \in Nat
        BY <1>0, <1>3, Counted DEF CouponRows, PromoRow
      <4>4. Cardinality(UsesOf(c)') = Cardinality(UsesOf(c)) + 1
        BY <4>1, <4>3, FS_AddElement
      <4>5. Cardinality(Uncounted(c)') = Cardinality(Uncounted(c)) + 1
        BY <4>2, <4>3, FS_AddElement
      <4>6. Reckoned(c)' = Reckoned(c) + 1
        BY <1>2, <4>3, <4>5 DEF Reckoned
      <4>7. deaths' = deaths + 0
        BY <1>2, <4>3
      <4> QED
        BY <1>0, <1>3, <3>1, <4>4, <4>6, <4>7, CountMoves
    <3> QED
      BY <3>3, <3>4, <3>5
  <2> QED
    BY <2>2, <2>3, <2>4, <2>5, <2>6, <2>7, <2>8, OneStep
<1> QED
  BY <1>4, <1>5

LEMMA SameGot == ASSUME UNCHANGED <<office, redeemed>>, CouponsInv PROVE DaysOK' /\ redeemed \subseteq redeemed'
  BY DEF CouponsInv, DaysOK, Got

LEMMA CountUseKeeps == ASSUME CouponsInv, NEW k \in Tills, CountUse(k) PROVE CouponsInv'
<1>0. CouponRows /\ TillOK(k) /\ DaysOf(k) /\ till[k] \in TillRow
  BY DEF CouponsInv, CouponRows
<1>1. PICK c, o : c = till[k].coupon /\ o = till[k].office
  OBVIOUS
<1>2. /\ till[k].pc \in {"count", "countDays"} /\ promo' = [promo EXCEPT ![c].count = promo[c].count + 1]
      /\ UNCHANGED <<redeemed, office, sessions, edits, deaths, changed, rewritten>>
  BY <1>1 DEF CountUse
<1>3. c \in Coupons /\ o \in Offices
  BY <1>0, <1>1, <1>2 DEF TillOK
<1>4. /\ promo' \in [Coupons -> PromoRow] /\ promo'[c].count = promo[c].count + 1
      /\ \A x \in Coupons : promo'[x].value = promo[x].value /\ promo'[x].mirror = promo[x].mirror
      /\ \A x \in Coupons \ {c} : promo'[x].count = promo[x].count
  BY <1>0, <1>2, <1>3 DEF CouponRows, PromoRow
<1>5. /\ till' \in [Tills -> TillRow] /\ \A j \in Tills \ {k} : till'[j] = till[j]
      /\ till'[k].pc \in {"idle", "give"} /\ TillOK(k)' /\ DaysOf(k)'
  <2>1. CASE till[k].pc = "count"
    <3>1. Leaves(k)
      BY <2>1 DEF CountUse
    <3>2. till' \in [Tills -> TillRow] /\ till'[k].pc = "idle" /\ \A j \in Tills \ {k} : till'[j] = till[j]
      BY <1>0, <3>1, LeavesMoves
    <3> QED
      BY <3>2 DEF TillOK, DaysOf
  <2>2. CASE till[k].pc = "countDays"
    <3>1. Steps(k, "give")
      BY <2>2 DEF CountUse
    <3>2. /\ till' \in [Tills -> TillRow] /\ \A j \in Tills \ {k} : till'[j] = till[j]
          /\ till'[k].pc = "give" /\ till'[k].coupon = c /\ till'[k].office = o /\ till'[k].org = till[k].org
      BY <1>0, <1>1, <3>1, StepsMoves
    <3>3. till[k].org.days + 1 <= Cardinality(Got(o)) /\ c \in TrialCoupons
      BY <1>0, <1>1, <2>2 DEF DaysOf, TillOK
    <3>4. Got(o)' = Got(o)
      BY <1>2 DEF Got
    <3>5. till'[k].org.days + 1 <= Cardinality(Got(o)')
      BY <3>2, <3>3, <3>4
    <3>6. DaysOf(k)'
      BY <3>2, <3>5, DaysAre
    <3> QED
      BY <1>3, <3>2, <3>3, <3>6 DEF TillOK
  <2> QED
    BY <1>2, <2>1, <2>2
<1>6. CouponRows'
  BY <1>0, <1>2, <1>4, <1>5 DEF CouponRows
<1>7. ASSUME ~rewritten' PROVE MirrorOK' /\ (\A j \in Tills : MirrorOf(j)') /\ \A x \in Coupons : CountOK(x)'
  <2>1. MirrorOK /\ (\A j \in Tills : MirrorOf(j)) /\ \A x \in Coupons : CountOK(x)
    BY <1>2, <1>7 DEF CouponsInv
  <2>2. MirrorOK'
    BY <1>0, <1>2, <1>4, <2>1 DEF MirrorOK, CouponRows
  <2>3. ASSUME NEW j \in Tills PROVE MirrorOf(j)'
    <3>1. CASE j = k
      BY <1>5, <3>1 DEF MirrorOf
    <3>2. CASE j # k
      <4>1. TillOK(j) /\ MirrorOf(j) /\ till'[j] = till[j]
        BY <1>5, <2>1, <3>2 DEF CouponsInv
      <4> QED
        BY <1>2, <1>4, <4>1 DEF MirrorOf, TillOK
    <3> QED
      BY <3>1, <3>2
  <2>4. ASSUME NEW x \in Coupons PROVE CountOK(x)'
    <3>1. UsesOf(x)' = UsesOf(x)
      BY <1>2 DEF UsesOf
    <3>2. IsFiniteSet(Uncounted(x)) /\ Cardinality(UsesOf(x)) \in Nat /\ Cardinality(Uncounted(x)) \in Nat
          /\ promo[x].count \in Nat /\ deaths \in Nat
      BY <1>0, Counted DEF CouponRows, PromoRow
    <3>3. Reckoned(x)' = Reckoned(x)
      <4>1. CASE x = c
        <5>1. Uncounted(x)' = Uncounted(x) \ {k} /\ k \in Uncounted(x)
          BY <1>1, <1>2, <1>5, <4>1 DEF Uncounted
        <5>2. Cardinality(Uncounted(x)') = Cardinality(Uncounted(x)) - 1
          BY <3>2, <5>1, FS_RemoveElement
        <5> QED
          BY <1>4, <3>2, <4>1, <5>2 DEF Reckoned
      <4>2. CASE x # c
        <5>1. Uncounted(x)' = Uncounted(x)
          BY <1>1, <1>5, <4>2 DEF Uncounted
        <5> QED
          BY <1>4, <4>2, <5>1 DEF Reckoned
      <4> QED
        BY <4>1, <4>2
    <3>4. Reckoned(x) \in Nat
      BY <3>2 DEF Reckoned
    <3>5. Cardinality(UsesOf(x)') = Cardinality(UsesOf(x)) + 0 /\ Reckoned(x)' = Reckoned(x) + 0 /\ deaths' = deaths + 0
      BY <1>2, <3>1, <3>2, <3>3, <3>4
    <3> QED
      BY <1>0, <2>1, <3>5, CountMoves
  <2> QED
    BY <2>2, <2>3, <2>4
<1>8. DaysOK' /\ redeemed \subseteq redeemed'
  BY <1>2, SameGot
<1> QED
  BY <1>5, <1>6, <1>7, <1>8, OneStep

LEMMA MirrorCouponKeeps == ASSUME CouponsInv, NEW k \in Tills, MirrorCoupon(k) PROVE CouponsInv'
<1>0. CouponRows /\ TillOK(k) /\ till[k] \in TillRow
  BY DEF CouponsInv, CouponRows
<1>1. PICK c, v : c = till[k].coupon /\ v = till[k].row.value
  OBVIOUS
<1>2. /\ till[k].pc = "mirror" /\ promo' = [promo EXCEPT ![c].mirror = {v}]
      /\ till' = [till EXCEPT ![k].row.mirror = {v}]
      /\ changed' = IF promo[c].value \in {v} THEN changed ELSE changed \cup {c}
      /\ UNCHANGED <<redeemed, office, sessions, edits, deaths, rewritten>>
  BY <1>1 DEF MirrorCoupon
<1>3. c \in Coupons /\ v \in Nat
  BY <1>0, <1>1, <1>2 DEF TillOK, TillRow, PromoRow
<1>4. /\ promo' \in [Coupons -> PromoRow] /\ promo'[c].mirror = {v}
      /\ \A x \in Coupons : promo'[x].value = promo[x].value /\ promo'[x].count = promo[x].count
      /\ \A x \in Coupons \ {c} : promo'[x].mirror = promo[x].mirror
  BY <1>0, <1>2, <1>3 DEF CouponRows, PromoRow
<1>5. /\ till' \in [Tills -> TillRow] /\ \A j \in Tills \ {k} : till'[j] = till[j]
      /\ till'[k].pc = "mirror" /\ till'[k].coupon = c /\ till'[k].office = till[k].office /\ till'[k].row.mirror = {v}
  BY <1>0, <1>1, <1>2, <1>3 DEF CouponRows, TillRow, PromoRow
<1>6. TillOK(k)' /\ DaysOf(k)'
  BY <1>0, <1>1, <1>2, <1>3, <1>5 DEF TillOK, DaysOf
<1>7. /\ changed \subseteq changed' /\ changed' \subseteq Coupons /\ (c \notin changed' => promo[c].value = v)
      /\ \A x \in Coupons \ {c} : x \in changed' <=> x \in changed
  BY <1>0, <1>2, <1>3 DEF CouponRows
<1>8. CouponRows'
  BY <1>0, <1>2, <1>4, <1>5, <1>7 DEF CouponRows
<1>9. ASSUME ~rewritten' PROVE MirrorOK' /\ (\A j \in Tills : MirrorOf(j)') /\ \A x \in Coupons : CountOK(x)'
  <2>1. MirrorOK /\ (\A j \in Tills : MirrorOf(j)) /\ \A x \in Coupons : CountOK(x)
    BY <1>2, <1>9 DEF CouponsInv
  <2>2. MirrorOK'
    <3>1. \A x \in Coupons \ changed' : promo'[x].mirror \subseteq {promo'[x].value}
      BY <1>4, <1>7, <2>1 DEF MirrorOK
    <3>2. ASSUME NEW s \in sessions PROVE promo'[s[2]].mirror # {} /\ (s[2] \notin changed' => promo'[s[2]].value = s[3])
      BY <1>0, <1>4, <1>7, <2>1 DEF MirrorOK, CouponRows
    <3> QED
      BY <1>2, <3>1, <3>2 DEF MirrorOK
  <2>3. ASSUME NEW j \in Tills PROVE MirrorOf(j)'
    <3>1. CASE j = k
      BY <1>3, <1>4, <1>5, <1>7, <3>1 DEF MirrorOf
    <3>2. CASE j # k
      <4>1. TillOK(j) /\ MirrorOf(j) /\ till'[j] = till[j]
        BY <1>5, <2>1, <3>2 DEF CouponsInv
      <4> QED
        BY <1>4, <1>7, <4>1 DEF MirrorOf, TillOK
    <3> QED
      BY <3>1, <3>2
  <2>4. ASSUME NEW x \in Coupons PROVE CountOK(x)'
    <3>1. Uncounted(x)' = Uncounted(x)
      BY <1>2, <1>5 DEF Uncounted
    <3>2. promo'[x].count = promo[x].count /\ deaths \in Nat
      BY <1>0, <1>4 DEF CouponRows
    <3> QED
      BY <1>0, <1>2, <2>1, <3>1, <3>2, CountStays
  <2> QED
    BY <2>2, <2>3, <2>4
<1>10. DaysOK' /\ redeemed \subseteq redeemed'
  BY <1>2, SameGot
<1> QED
  BY <1>5, <1>6, <1>8, <1>9, <1>10, OneStep

LEMMA OpenSessionKeeps == ASSUME CouponsInv, NEW k \in Tills, OpenSession(k) PROVE CouponsInv'
<1>0. CouponRows /\ TillOK(k) /\ till[k] \in TillRow
  BY DEF CouponsInv, CouponRows
<1>1. PICK c, o : c = till[k].coupon /\ o = till[k].office
  OBVIOUS
<1>2. /\ till[k].pc = "mirror" /\ till[k].row.mirror # {} /\ Leaves(k)
      /\ sessions' = sessions \cup {<<o, c, v>> : v \in till[k].row.mirror}
      /\ UNCHANGED <<promo, redeemed, office, edits, deaths, changed, rewritten>>
  BY <1>1 DEF OpenSession
<1>3. c \in Coupons /\ o \in Offices /\ till[k].row.mirror \subseteq Nat
  BY <1>0, <1>1, <1>2 DEF TillOK, TillRow, PromoRow
<1>4. till' \in [Tills -> TillRow] /\ till'[k].pc = "idle" /\ \A j \in Tills \ {k} : till'[j] = till[j]
  BY <1>0, <1>2, LeavesMoves
<1>5. CouponRows'
  BY <1>0, <1>2, <1>3, <1>4 DEF CouponRows
<1>6. TillOK(k)' /\ DaysOf(k)' /\ MirrorOf(k)'
  BY <1>4 DEF TillOK, DaysOf, MirrorOf
<1>7. ASSUME ~rewritten' PROVE MirrorOK' /\ (\A j \in Tills : MirrorOf(j)') /\ \A x \in Coupons : CountOK(x)'
  <2>1. MirrorOK /\ (\A j \in Tills : MirrorOf(j)) /\ \A x \in Coupons : CountOK(x)
    BY <1>2, <1>7 DEF CouponsInv
  <2>2. promo[c].mirror # {} /\ (c \notin changed => till[k].row.mirror \subseteq {promo[c].value})
    BY <1>1, <1>2, <2>1 DEF MirrorOf
  <2>3. MirrorOK'
    <3>1. ASSUME NEW s \in sessions' PROVE promo[s[2]].mirror # {} /\ (s[2] \notin changed => promo[s[2]].value = s[3])
      <4>1. CASE s \in sessions
        BY <2>1, <4>1 DEF MirrorOK
      <4>2. CASE \E v \in till[k].row.mirror : s = <<o, c, v>>
        BY <2>2, <4>2
      <4> QED
        BY <1>2, <4>1, <4>2
    <3> QED
      BY <1>2, <2>1, <3>1 DEF MirrorOK
  <2>4. \A j \in Tills : MirrorOf(j)'
    BY <1>2, <1>4, <1>6, <2>1 DEF MirrorOf
  <2>5. ASSUME NEW x \in Coupons PROVE CountOK(x)'
    <3>1. Uncounted(x)' = Uncounted(x)
      BY <1>2, <1>4 DEF Uncounted
    <3>2. deaths \in Nat
      BY <1>0 DEF CouponRows
    <3> QED
      BY <1>0, <1>2, <2>1, <3>1, <3>2, CountStays
  <2> QED
    BY <2>3, <2>4, <2>5
<1>8. DaysOK' /\ redeemed \subseteq redeemed'
  BY <1>2, SameGot
<1> QED
  BY <1>4, <1>5, <1>6, <1>7, <1>8, OneStep

LEMMA SaveEditKeeps == ASSUME CouponsInv, NEW k \in Tills, SaveEdit(k) PROVE CouponsInv'
<1>0. CouponRows /\ TillOK(k) /\ till[k] \in TillRow
  BY DEF CouponsInv, CouponRows
<1>1. PICK c, row : c = till[k].coupon /\ row = till[k].row
  OBVIOUS
<1>2. /\ till[k].pc = "edit" /\ Leaves(k)
      /\ \/ promo' = [promo EXCEPT ![c] = [row EXCEPT !.active = FALSE]] /\ changed' = changed
         \/ /\ row.count = 0 /\ promo' = [promo EXCEPT ![c] = [row EXCEPT !.value = row.value + 1]]
            /\ changed' = IF promo[c].mirror # {} /\ promo[c].count = 0 THEN changed \cup {c} ELSE changed
      /\ rewritten' = (rewritten \/ promo[c] # row)
      /\ UNCHANGED <<redeemed, office, sessions, edits, deaths>>
  BY <1>1 DEF SaveEdit, MayChange
<1>3. c \in Coupons /\ row \in PromoRow
  BY <1>0, <1>1, <1>2 DEF TillOK, TillRow
<1>4. till' \in [Tills -> TillRow] /\ till'[k].pc = "idle" /\ \A j \in Tills \ {k} : till'[j] = till[j]
  BY <1>0, <1>2, LeavesMoves
<1>5. promo' \in [Coupons -> PromoRow] /\ changed' \subseteq Coupons /\ \A x \in Coupons \ {c} : promo'[x] = promo[x]
  <2>1. row.value + 1 \in Nat
    BY <1>3 DEF PromoRow
  <2>2. [row EXCEPT !.value = row.value + 1] \in PromoRow
    BY <1>3, <2>1 DEF PromoRow
  <2>3. [row EXCEPT !.active = FALSE] \in PromoRow
    BY <1>3 DEF PromoRow
  <2> QED
    BY <1>0, <1>2, <1>3, <2>2, <2>3 DEF CouponRows
<1>6. CouponRows'
  <2>1. rewritten' \in BOOLEAN
    BY <1>2
  <2> QED
    BY <1>0, <1>2, <1>4, <1>5, <2>1 DEF CouponRows
<1>7. TillOK(k)' /\ DaysOf(k)' /\ MirrorOf(k)'
  BY <1>4 DEF TillOK, DaysOf, MirrorOf
<1>8. ASSUME ~rewritten' PROVE MirrorOK' /\ (\A j \in Tills : MirrorOf(j)') /\ \A x \in Coupons : CountOK(x)'
  <2>1. ~rewritten /\ promo[c] = row
    BY <1>2, <1>8
  <2>2. MirrorOK /\ (\A j \in Tills : MirrorOf(j)) /\ \A x \in Coupons : CountOK(x)
    BY <2>1 DEF CouponsInv
  <2>3. /\ promo'[c].mirror = promo[c].mirror /\ promo'[c].count = promo[c].count /\ changed \subseteq changed'
        /\ \A x \in Coupons \ {c} : x \in changed' <=> x \in changed
        /\ promo[c].mirror # {} /\ c \notin changed' => promo'[c].value = promo[c].value
    <3>1. CASE promo' = [promo EXCEPT ![c] = [row EXCEPT !.active = FALSE]] /\ changed' = changed
      BY <1>0, <1>3, <2>1, <3>1 DEF CouponRows, PromoRow
    <3>2. CASE /\ row.count = 0 /\ promo' = [promo EXCEPT ![c] = [row EXCEPT !.value = row.value + 1]]
               /\ changed' = IF promo[c].mirror # {} /\ promo[c].count = 0 THEN changed \cup {c} ELSE changed
      BY <1>0, <1>3, <2>1, <3>2 DEF CouponRows, PromoRow
    <3> QED
      BY <1>2, <3>1, <3>2
  <2>4. MirrorOK'
    <3>1. ASSUME NEW x \in Coupons, x \notin changed' PROVE promo'[x].mirror \subseteq {promo'[x].value}
      <4>1. promo[x].mirror \subseteq {promo[x].value}
        BY <2>2, <2>3, <3>1 DEF MirrorOK
      <4>2. CASE x = c
        BY <2>3, <3>1, <4>1, <4>2
      <4>3. CASE x # c
        BY <1>5, <4>1, <4>3
      <4> QED
        BY <4>2, <4>3
    <3>2. ASSUME NEW s \in sessions PROVE promo'[s[2]].mirror # {} /\ (s[2] \notin changed' => promo'[s[2]].value = s[3])
      <4>1. s[2] \in Coupons /\ promo[s[2]].mirror # {} /\ (s[2] \notin changed => promo[s[2]].value = s[3])
        BY <1>0, <2>2 DEF MirrorOK, CouponRows
      <4>2. CASE s[2] = c
        BY <2>3, <4>1, <4>2
      <4>3. CASE s[2] # c
        BY <1>5, <2>3, <4>1, <4>3
      <4> QED
        BY <4>2, <4>3
    <3> QED
      BY <1>2, <3>1, <3>2 DEF MirrorOK
  <2>5. ASSUME NEW j \in Tills PROVE MirrorOf(j)'
    <3>1. CASE j = k
      BY <1>7, <3>1
    <3>2. CASE j # k
      <4>1. TillOK(j) /\ MirrorOf(j) /\ till'[j] = till[j]
        BY <1>4, <2>2, <3>2 DEF CouponsInv
      <4>2. CASE till[j].coupon = c
        BY <2>3, <4>1, <4>2 DEF MirrorOf
      <4>3. CASE till[j].coupon # c
        BY <1>5, <2>3, <4>1, <4>3 DEF MirrorOf, TillOK
      <4> QED
        BY <4>2, <4>3
    <3> QED
      BY <3>1, <3>2
  <2>6. ASSUME NEW x \in Coupons PROVE CountOK(x)'
    <3>1. Uncounted(x)' = Uncounted(x)
      BY <1>2, <1>4 DEF Uncounted
    <3>2. deaths \in Nat /\ promo'[x].count = promo[x].count
      BY <1>0, <1>5, <2>3 DEF CouponRows
    <3> QED
      BY <1>0, <1>2, <2>2, <3>1, <3>2, CountStays
  <2> QED
    BY <2>4, <2>5, <2>6
<1>9. DaysOK' /\ redeemed \subseteq redeemed'
  BY <1>2, SameGot
<1> QED
  BY <1>4, <1>6, <1>7, <1>8, <1>9, OneStep

LEMMA TillDiesKeeps == ASSUME CouponsInv, NEW k \in Tills, TillDies(k) PROVE CouponsInv'
<1>0. CouponRows /\ deaths \in Nat
  BY DEF CouponsInv, CouponRows
<1>1. deaths' = deaths + 1 /\ Leaves(k) /\ UNCHANGED <<promo, redeemed, office, sessions, edits, changed, rewritten>>
  BY DEF TillDies
<1>2. till' \in [Tills -> TillRow] /\ till'[k].pc = "idle" /\ \A j \in Tills \ {k} : till'[j] = till[j]
  BY <1>0, <1>1, LeavesMoves
<1>3. CouponRows'
  BY <1>0, <1>1, <1>2 DEF CouponRows
<1>4. TillOK(k)' /\ DaysOf(k)' /\ MirrorOf(k)'
  BY <1>2 DEF TillOK, DaysOf, MirrorOf
<1>5. ASSUME ~rewritten' PROVE MirrorOK' /\ (\A j \in Tills : MirrorOf(j)') /\ \A x \in Coupons : CountOK(x)'
  <2>1. MirrorOK /\ (\A j \in Tills : MirrorOf(j)) /\ \A x \in Coupons : CountOK(x)
    BY <1>1, <1>5 DEF CouponsInv
  <2>2. MirrorOK' /\ \A j \in Tills : MirrorOf(j)'
    BY <1>1, <1>2, <1>4, <2>1, MirrorStays
  <2>3. ASSUME NEW x \in Coupons PROVE CountOK(x)'
    <3>1. UsesOf(x)' = UsesOf(x)
      BY <1>1 DEF UsesOf
    <3>2. IsFiniteSet(Uncounted(x)) /\ Cardinality(UsesOf(x)) \in Nat /\ Cardinality(Uncounted(x)) \in Nat
          /\ promo[x].count \in Nat
      BY <1>0, Counted DEF CouponRows, PromoRow
    <3>3. Uncounted(x)' = Uncounted(x) \ {k}
      BY <1>2 DEF Uncounted
    <3>4. Cardinality(Uncounted(x)') = IF k \in Uncounted(x) THEN Cardinality(Uncounted(x)) - 1 ELSE Cardinality(Uncounted(x))
      BY <3>2, <3>3, FS_RemoveElement
    <3>5. PICK n \in {0, -1} : Reckoned(x)' = Reckoned(x) + n
      BY <1>1, <3>2, <3>4 DEF Reckoned
    <3>6. Cardinality(UsesOf(x)') = Cardinality(UsesOf(x)) + 0
      BY <3>1, <3>2
    <3> QED
      BY <1>0, <1>1, <2>1, <3>5, <3>6, CountMoves
  <2> QED
    BY <2>2, <2>3
<1>6. DaysOK' /\ redeemed \subseteq redeemed'
  BY <1>1, SameGot
<1> QED
  BY <1>2, <1>3, <1>4, <1>5, <1>6, OneStep

LEMMA CouponsInitHolds == CouponsInit => CouponsInv
<1> SUFFICES ASSUME CouponsInit PROVE CouponsInv
  OBVIOUS
<1>1. NewPromo \in PromoRow /\ NewOffice \in OfficeRow /\ NoTill \in TillRow /\ NoTill.pc = "idle"
  BY DEF NoTill, TillRow, NewPromo, NewOffice, PromoRow, OfficeRow
<1>2. CouponRows /\ redeemed = {} /\ sessions = {} /\ deaths = 0 /\ \A k \in Tills : till[k].pc = "idle"
  BY <1>1 DEF CouponsInit, CouponRows
<1>3. \A o : Got(o) = {}
  BY <1>2 DEF Got
<1>4. DaysOK
  BY <1>3, FS_EmptySet DEF CouponsInit, DaysOK, NewOffice
<1>5. \A k \in Tills : TillOK(k) /\ DaysOf(k) /\ MirrorOf(k)
  BY <1>2 DEF TillOK, DaysOf, MirrorOf
<1>6. MirrorOK
  BY <1>2 DEF CouponsInit, MirrorOK, NewPromo
<1>7. ASSUME NEW c \in Coupons PROVE CountOK(c)
  <2>1. UsesOf(c) = {} /\ Uncounted(c) = {} /\ promo[c].count = 0
    BY <1>2 DEF UsesOf, Uncounted, CouponsInit, NewPromo
  <2> QED
    BY <1>2, <2>1, FS_EmptySet DEF CountOK, Reckoned
<1> QED
  BY <1>2, <1>4, <1>5, <1>6, <1>7 DEF CouponsInv

LEMMA CouponsStep == CouponsInv /\ [CouponsNext]_couponVars => CouponsInv'
<1> SUFFICES ASSUME CouponsInv, [CouponsNext]_couponVars PROVE CouponsInv'
  OBVIOUS
<1>1. CASE UNCHANGED couponVars
  BY <1>1 DEF couponVars, CouponsInv, CouponRows, DaysOK, Got, TillOK, DaysOf, MirrorOK, MirrorOf, CountOK, Reckoned, UsesOf,
              Uncounted
<1>2. CASE CouponsNext
  BY <1>2, AskDaysKeeps, AskCheckoutKeeps, AskEditKeeps, RedeemKeeps, CountUseKeeps, GiveDaysKeeps, MirrorCouponKeeps,
     OpenSessionKeeps, PaymentToldKeeps, SettleOfficeKeeps, SaveEditKeeps, TillDiesKeeps DEF CouponsNext
<1> QED
  BY <1>1, <1>2

LEMMA CouponsInvIsEnough == CouponsInv => CouponsHold
<1> SUFFICES ASSUME CouponsInv PROVE CouponsHold
  OBVIOUS
<1>1. \A o \in Offices : office[o].days <= Cardinality({c \in TrialCoupons : <<c, o>> \in redeemed})
  BY DEF CouponsInv, DaysOK, Got
<1>2. ASSUME ~rewritten PROVE
        /\ \A c \in Coupons : Cardinality(UsesOf(c)) \in Reckoned(c) .. Reckoned(c) + deaths
        /\ \A s \in sessions : AmountIsRight(s) \/ s[2] \in changed
  <2>1. MirrorOK /\ \A c \in Coupons : CountOK(c)
    BY <1>2 DEF CouponsInv
  <2>2. ASSUME NEW c \in Coupons PROVE Cardinality(UsesOf(c)) \in Reckoned(c) .. Reckoned(c) + deaths
    <3>1. Cardinality(UsesOf(c)) \in Nat /\ Cardinality(Uncounted(c)) \in Nat /\ promo[c].count \in Nat /\ deaths \in Nat
      BY Counted DEF CouponsInv, CouponRows, PromoRow
    <3>2. Reckoned(c) \in Nat
      BY <3>1 DEF Reckoned
    <3> QED
      BY <2>1, <3>1, <3>2 DEF CountOK
  <2>3. \A s \in sessions : AmountIsRight(s) \/ s[2] \in changed
    BY <2>1 DEF MirrorOK, AmountIsRight
  <2> QED
    BY <2>2, <2>3
<1> QED
  BY <1>1, <1>2 DEF CouponsHold, Reckoned

\* However payments are told again, handlers overlap and processes die, a coupon is counted once for
\* each office that used it, gives its days once, and the payment of a checkout is ignored for its
\* amount only if the discount was edited meanwhile (src/billing/promotions.py:76, 95;
\* src/billing/admin_api.py:98).
THEOREM CouponsAreKept == CouponsSpec => []CouponsHold
<1>1. CouponsSpec => []CouponsInv
  BY CouponsInitHolds, CouponsStep, PTL DEF CouponsSpec
<1> QED
  BY <1>1, CouponsInvIsEnough, PTL

-----------------------------------------------------------------------------
(***************************************************************************)
(* The types of MCEvents: the bounds the invariants above leave out, and   *)
(* then the four components together.                                      *)
(***************************************************************************)
LEMMA BooksTyped == PfSpec => []PfTypeOK
<1>1. PfInv => PfTypeOK
  BY DEF PfInv, PfRows, PostedOK, ItemRow, ChargeRow, PfTypeOK
<1> QED
  BY <1>1, PfInitHolds, PfStep, PTL DEF PfSpec

FiscalBounds == losses \in 0 .. MaxLost /\ calls \in 0 .. MaxCalls /\ crossed \subseteq {"refreshes", "others"}

LEMMA BeginBounds ==
    ASSUME FiscalBounds, NEW c \in Clerks, NEW call, Begin(c, call), UNCHANGED losses
    PROVE  FiscalBounds'
<1>1. calls < MaxCalls /\ calls' = calls + 1
  BY DEF Begin
<1>2. crossed' \subseteq crossed \cup {"refreshes", "others"}
  BY DEF Begin
<1> QED
  BY <1>1, <1>2, FiscalAssumption DEF FiscalBounds

LEMMA NotesTyped == FiscalSpec => []FiscalTypeOK
<1>1. FiscalInit => FiscalBounds
  BY FiscalAssumption DEF FiscalInit, FiscalBounds
<1>2. FiscalBounds /\ [FiscalNext]_fiscalVars => FiscalBounds'
  <2> SUFFICES ASSUME FiscalBounds, [FiscalNext]_fiscalVars PROVE FiscalBounds'
    OBVIOUS
  <2>1. CASE UNCHANGED <<calls, crossed>> /\ (losses' = losses \/ (losses < MaxLost /\ losses' = losses + 1))
    BY <2>1, FiscalAssumption DEF FiscalBounds
  <2>2. ASSUME NEW c \in Clerks, AskEmit(c) \/ AskRefresh(c) \/ AskCancel(c) PROVE FiscalBounds'
    <3>1. UNCHANGED losses /\ \E call : Begin(c, call)
      BY <2>2 DEF AskEmit, AskRefresh, AskCancel
    <3> QED
      BY <3>1, BeginBounds
  <2>3. ASSUME NEW c \in Clerks, Post(c) PROVE FiscalBounds'
    <3>1. UNCHANGED <<calls, crossed>> /\ (losses' = losses \/ (losses < MaxLost /\ losses' = losses + 1))
      BY <2>3 DEF Post
    <3> QED
      BY <2>1, <3>1
  <2>4. ASSUME NEW c \in Clerks, CancelAtEmitter(c) PROVE FiscalBounds'
    <3>1. UNCHANGED <<calls, crossed>> /\ (losses' = losses \/ (losses < MaxLost /\ losses' = losses + 1))
      BY <2>4 DEF CancelAtEmitter
    <3> QED
      BY <2>1, <3>1
  <2>5. ASSUME NEW c \in Clerks,
               SaveEmission(c) \/ Get(c) \/ SaveRefresh(c) \/ SaveCancellation(c) \/ ClerkDies(c)
        PROVE  FiscalBounds'
    BY <2>1, <2>5 DEF SaveEmission, Get, SaveRefresh, SaveCancellation, ClerkDies
  <2>6. CASE RegisterByHand
    <3>1. calls < MaxCalls /\ calls' = calls + 1 /\ UNCHANGED <<losses, crossed>>
      BY <2>6 DEF RegisterByHand
    <3> QED
      BY <3>1, FiscalAssumption DEF FiscalBounds
  <2>7. CASE EmitterDecides \/ UNCHANGED fiscalVars
    BY <2>1, <2>7 DEF EmitterDecides, fiscalVars
  <2> QED
    BY <2>2, <2>3, <2>4, <2>5, <2>6, <2>7 DEF FiscalNext
<1>3. FiscalInv /\ FiscalBounds => FiscalTypeOK
  BY DEF FiscalInv, FiscalRows, FiscalBounds, PaymentRow, CallRow, FiscalTypeOK
<1> QED
  BY <1>1, <1>2, <1>3, FiscalInitHolds, FiscalStep, PTL DEF FiscalSpec

CouponBounds == edits \in 0 .. MaxEdits /\ deaths \in 0 .. MaxCouponTrouble

LEMMA CouponsTyped == CouponsSpec => []CouponsTypeOK
<1>1. CouponsInit => CouponBounds
  BY CouponsAssumption DEF CouponsInit, CouponBounds
<1>2. CouponBounds /\ [CouponsNext]_couponVars => CouponBounds'
  <2> SUFFICES ASSUME CouponBounds, [CouponsNext]_couponVars PROVE CouponBounds'
    OBVIOUS
  <2>1. CASE \/ UNCHANGED <<edits, deaths>>
             \/ edits < MaxEdits /\ edits' = edits + 1 /\ UNCHANGED deaths
             \/ deaths < MaxCouponTrouble /\ deaths' = deaths + 1 /\ UNCHANGED edits
    BY <2>1, CouponsAssumption DEF CouponBounds
  <2>2. ASSUME NEW k \in Tills, NEW c \in Coupons,
               (\E o \in Offices : AskDays(k, c, o) \/ AskCheckout(k, c, o)) \/ AskEdit(k, c)
        PROVE  CouponBounds'
    BY <2>1, <2>2 DEF AskDays, AskCheckout, AskEdit
  <2>3. ASSUME NEW k \in Tills,
               \/ Redeem(k) \/ CountUse(k) \/ GiveDays(k) \/ MirrorCoupon(k) \/ OpenSession(k)
               \/ \E s \in sessions : PaymentTold(k, s)
               \/ SettleOffice(k) \/ SaveEdit(k)
        PROVE  CouponBounds'
    BY <2>1, <2>3 DEF Redeem, CountUse, GiveDays, MirrorCoupon, OpenSession, PaymentTold, SettleOffice, SaveEdit
  <2>4. ASSUME NEW k \in Tills, TillDies(k) PROVE CouponBounds'
    BY <2>1, <2>4 DEF TillDies
  <2>5. CASE UNCHANGED couponVars
    BY <2>1, <2>5 DEF couponVars
  <2> QED
    BY <2>2, <2>3, <2>4, <2>5 DEF CouponsNext
<1>3. CouponsInv /\ CouponBounds => CouponsTypeOK
  BY DEF CouponsInv, CouponRows, CouponBounds, PromoRow, OfficeRow, CouponsTypeOK
<1> QED
  BY <1>1, <1>2, <1>3, CouponsInitHolds, CouponsStep, PTL DEF CouponsSpec

\* While one of the four moves the others rest, so each of them keeps its own specification.
LEMMA OneMovesAlone == EventsSpec => Spec /\ PfSpec /\ FiscalSpec /\ CouponsSpec
<1>1. EventsInit => Init /\ PfInit /\ FiscalInit /\ CouponsInit
  BY DEF EventsInit
<1>2. [EventsNext]_<<moves, vars, pfVars, fiscalVars, couponVars>> =>
          [Next]_vars /\ [PfNext]_pfVars /\ [FiscalNext]_fiscalVars /\ [CouponsNext]_couponVars
  BY DEF EventsNext
<1> QED
  BY <1>1, <1>2, PTL DEF EventsSpec, Spec, PfSpec, FiscalSpec, CouponsSpec

\* Every variable of Subscriptions, Portfolio, FiscalNotes and Coupons keeps to its range: what is received
\* was posted, what is saved of an office is a row it may have, a reference was made by somebody.
THEOREM EventsTypesOK == EventsSpec => []TypesOK
  BY OneMovesAlone, TypeCorrect, BooksTyped, NotesTyped, CouponsTyped, PTL DEF TypesOK
=============================================================================
