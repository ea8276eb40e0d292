------------------------------- MODULE Coupons -------------------------------
(***************************************************************************)
(* Promotions (src/billing/promotions.py): a coupon gives a discount on    *)
(* the first payments of a plan, or more days of trial.  It is checked     *)
(* when the office asks, mirrored as a Coupon of Stripe at the first       *)
(* checkout, and counted when the payment is told (stripe_sync.py) or the  *)
(* days are given.  Staff may edit it meanwhile.  Nothing holds a lock;    *)
(* the key (promotion, office) makes the second use a no-op.               *)
(***************************************************************************)
EXTENDS Naturals, FiniteSets

CONSTANTS
    Coupons, TrialCoupons, NoCoupon,
    Offices, NoOffice,
    Tills,          \* requests, webhooks and edits of the staff
    Limit,          \* max_redemptions
    MaxCouponTrouble, \* bound: processes that die
    MaxEdits        \* bound: edits of a coupon

ASSUME CouponsAssumption ==
    /\ TrialCoupons \subseteq Coupons /\ NoCoupon \notin Coupons /\ NoOffice \notin Offices
    /\ IsFiniteSet(Coupons) /\ IsFiniteSet(Offices) /\ IsFiniteSet(Tills)
    /\ Limit \in Nat \ {0} /\ MaxCouponTrouble \in Nat /\ MaxEdits \in Nat

VARIABLES
    promo,    \* Promotion rows: [active, value: the edition of its discount, count,
              \* mirror: the edition its Coupon of Stripe has, once there is one]
    redeemed, \* PromotionRedemption rows: <<coupon, office>>
    office,   \* Organization: [trial: it is on trial, days: grants in trial_ends_at]
    sessions, \* checkouts that may be paid: <<office, coupon, edition>>
    till,     \* a handler: [pc, coupon, office, row: the promotion it loaded, org: the office it loaded]
    edits, deaths,
    changed,  \* history: coupons whose discount was edited after a checkout took it
    rewritten \* history: rows written back over a newer one

couponVars == <<promo, redeemed, office, sessions, till, edits, deaths, changed, rewritten>>

NewPromo == [active |-> TRUE, value |-> 0, count |-> 0, mirror |-> {}]
NewOffice == [trial |-> TRUE, days |-> 0]
NoTill == [pc |-> "idle", coupon |-> NoCoupon, office |-> NoOffice, row |-> NewPromo, org |-> NewOffice]

CouponsInit ==
    /\ promo = [c \in Coupons |-> NewPromo] /\ redeemed = {}
    /\ office = [o \in Offices |-> NewOffice]
    /\ sessions = {} /\ till = [k \in Tills |-> NoTill] /\ edits = 0 /\ deaths = 0
    /\ changed = {} /\ rewritten = FALSE

\* validate_promotion, on the row it loads.
Valid(c, o) == promo[c].active /\ promo[c].count < Limit /\ <<c, o>> \notin redeemed

Starts(k, pc, c, o) ==
    /\ till[k].pc = "idle"
    /\ till' = [till EXCEPT ![k] =
         [pc |-> pc, coupon |-> c, office |-> o, row |-> promo[c], org |-> IF o = NoOffice THEN NewOffice ELSE office[o]]]
Steps(k, pc) == till[k].pc # pc /\ till' = [till EXCEPT ![k].pc = pc]
Leaves(k) == till' = [till EXCEPT ![k] = NoTill]

-----------------------------------------------------------------------------
\* PromotionRedeemView: days for an office on trial.
AskDays(k, c, o) ==
    /\ c \in TrialCoupons /\ Valid(c, o) /\ office[o].trial
    /\ Starts(k, "redeemDays", c, o)
    /\ UNCHANGED <<promo, redeemed, office, sessions, edits, deaths, changed, rewritten>>

\* record_redemption: get_or_create under uniq_promo_per_org; only who created the row counts it; mutant: whoever asked does.
CountsAlways(c, o) == <<c, o>> \in Coupons \X Offices
Counts(c, o) == <<c, o>> \notin redeemed

Redeem(k) ==
    LET c == till[k].coupon  o == till[k].office IN
    /\ till[k].pc \in {"redeemDays", "redeem"}
    /\ redeemed' = redeemed \cup {<<c, o>>}
    /\ IF Counts(c, o) THEN Steps(k, IF till[k].pc = "redeem" THEN "count" ELSE "countDays") ELSE Leaves(k)
    /\ UNCHANGED <<promo, office, sessions, edits, deaths, changed, rewritten>>

\* F('redemptions_count') + 1
CountUse(k) ==
    /\ till[k].pc \in {"count", "countDays"}
    /\ promo' = [promo EXCEPT ![till[k].coupon].count = promo[till[k].coupon].count + 1]
    /\ IF till[k].pc = "count" THEN Leaves(k) ELSE Steps(k, "give")
    /\ UNCHANGED <<redeemed, office, sessions, edits, deaths, changed, rewritten>>

\* trial_ends_at, from the copy of the office the request has.
GiveDays(k) ==
    /\ till[k].pc = "give"
    /\ office' = [office EXCEPT ![till[k].office].days = till[k].org.days + 1]
    /\ Leaves(k)
    /\ UNCHANGED <<promo, redeemed, sessions, edits, deaths, changed, rewritten>>

-----------------------------------------------------------------------------
\* Checkout of a plan, with the coupon of the request or the one reserved at the sign-up.
AskCheckout(k, c, o) ==
    /\ c \notin TrialCoupons /\ Valid(c, o)
    /\ Starts(k, "mirror", c, o)
    /\ UNCHANGED <<promo, redeemed, office, sessions, edits, deaths, changed, rewritten>>

\* ensure_stripe_coupon: the discount of the loaded row goes to Stripe, unless the row names a Coupon.
MirrorCoupon(k) ==
    LET c == till[k].coupon  made == {till[k].row.value} IN
    /\ till[k].pc = "mirror" /\ till[k].row.mirror = {}
    /\ promo' = [promo EXCEPT ![c].mirror = made]
    /\ till' = [till EXCEPT ![k].row.mirror = made]
    /\ changed' = IF promo[c].value \in made THEN changed ELSE changed \cup {c}
    /\ UNCHANGED <<redeemed, office, sessions, edits, deaths, rewritten>>

OpenSession(k) ==
    /\ till[k].pc = "mirror" /\ till[k].row.mirror # {}
    /\ sessions' = sessions \cup {<<till[k].office, till[k].coupon, v>> : v \in till[k].row.mirror}
    /\ Leaves(k)
    /\ UNCHANGED <<promo, redeemed, office, edits, deaths, changed, rewritten>>

\* The webhook: the amount paid must be the price with the discount of the row as it is now, or it is ignored ...
AmountIsRight(s) == promo[s[2]].value = s[3]

PaymentTold(k, s) ==
    /\ s \in sessions /\ AmountIsRight(s)
    /\ Starts(k, "settle", s[2], s[1])
    /\ UNCHANGED <<promo, redeemed, office, sessions, edits, deaths, changed, rewritten>>

\* ... the whole office is saved, with the plan active, and then the coupon is redeemed.
SettleOffice(k) ==
    /\ till[k].pc = "settle"
    /\ office' = [office EXCEPT ![till[k].office] = [till[k].org EXCEPT !.trial = FALSE]]
    /\ Steps(k, "redeem")
    /\ UNCHANGED <<promo, redeemed, sessions, edits, deaths, changed, rewritten>>

-----------------------------------------------------------------------------
\* PromotionViewSet.patch loads the row ...
AskEdit(k, c) ==
    /\ edits < MaxEdits /\ edits' = edits + 1
    /\ Starts(k, "edit", c, NoOffice)
    /\ UNCHANGED <<promo, redeemed, office, sessions, deaths, changed, rewritten>>

\* A discount that was used may not change.
MayChange(row) == row.count = 0

\* ... and writes all of it back: switched off, or with another discount.
SaveEdit(k) ==
    LET c == till[k].coupon  row == till[k].row IN
    /\ till[k].pc = "edit"
    /\ \/ promo' = [promo EXCEPT ![c] = [row EXCEPT !.active = FALSE]] /\ UNCHANGED changed
       \/ /\ MayChange(row) /\ c \notin TrialCoupons
          /\ promo' = [promo EXCEPT ![c] = [row EXCEPT !.value = row.value + 1]]
          /\ changed' = IF promo[c].mirror # {} /\ promo[c].count = 0 THEN changed \cup {c} ELSE changed
    /\ rewritten' = (rewritten \/ promo[c] # row)
    /\ Leaves(k)
    /\ UNCHANGED <<redeemed, office, sessions, edits, deaths>>

TillDies(k) ==
    /\ till[k].pc # "idle" /\ deaths < MaxCouponTrouble
    /\ deaths' = deaths + 1
    /\ Leaves(k)
    /\ UNCHANGED <<promo, redeemed, office, sessions, edits, changed, rewritten>>

CouponsNext ==
    \/ \E k \in Tills, c \in Coupons :
        \/ \E o \in Offices : AskDays(k, c, o) \/ AskCheckout(k, c, o)
        \/ AskEdit(k, c)
    \/ \E k \in Tills :
        \/ Redeem(k) \/ CountUse(k) \/ GiveDays(k) \/ MirrorCoupon(k) \/ OpenSession(k)
        \/ \E s \in sessions : PaymentTold(k, s)
        \/ SettleOffice(k) \/ SaveEdit(k) \/ TillDies(k)

CouponsSpec == CouponsInit /\ [][CouponsNext]_couponVars

-----------------------------------------------------------------------------
CouponsTypeOK ==
    /\ promo \in [Coupons -> [active : BOOLEAN, value : Nat, count : Nat, mirror : SUBSET Nat]]
    /\ redeemed \subseteq Coupons \X Offices
    /\ office \in [Offices -> [trial : BOOLEAN, days : Nat]]
    /\ sessions \subseteq Offices \X Coupons \X Nat /\ edits \in 0 .. MaxEdits /\ deaths \in 0 .. MaxCouponTrouble

UsesOf(c) == {o \in Offices : <<c, o>> \in redeemed}
Uncounted(c) == {k \in Tills : till[k].pc \in {"count", "countDays"} /\ till[k].coupon = c}

\* However payments are told again, handlers overlap and processes die, an office uses a coupon once:
\* the count of a coupon is the number of offices that used it, but for those being counted or cut off
\* by a death (src/billing/promotions.py:76), and an office is given the days of a coupon once (95).  The
\* payment of a checkout would be ignored for its amount only if the discount was edited after a checkout
\* took it and before anybody was counted (src/billing/admin_api.py:98).  Rows written back over newer
\* ones excepted.
CouponsHold ==
    /\ \A o \in Offices : office[o].days <= Cardinality({c \in TrialCoupons : <<c, o>> \in redeemed})
    /\ ~rewritten =>
        /\ \A c \in Coupons :
            LET n == promo[c].count + Cardinality(Uncounted(c)) IN Cardinality(UsesOf(c)) \in n .. n + deaths
        /\ \A s \in sessions : AmountIsRight(s) \/ s[2] \in changed
=============================================================================
