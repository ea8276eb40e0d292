----------------------------- MODULE Suggestions -----------------------------
(***************************************************************************)
(* One suggestion of a rule (src/brain/suggestions.py, discovery.py): a    *)
(* detector or the interview of the first access offers it, the office     *)
(* accepts it, which makes a rule that is off, or dismisses it for 60      *)
(* days.  Every handler loads the AutomationSuggestion row, decides on its *)
(* copy and saves the whole row.  A save of a row that was deleted         *)
(* meanwhile inserts it again, unless another has its key.                 *)
(***************************************************************************)
EXTENDS Naturals

CONSTANTS
    Deciders,  \* requests and jobs at work
    Snooze,    \* days for which a dismissed suggestion is not made again (60)
    LastNight, \* bound: days are 0 .. LastNight
    MaxTakes,  \* bound: times the row is taken up
    MaxShifts  \* bound: changes of the pattern in the data of the office

ASSUME SuggestionsAssumption == {Snooze, LastNight, MaxTakes, MaxShifts} \subseteq Nat

VARIABLES
    offeredBy, \* "detector" or "interview": the prefix of the key
    pattern,   \* the detector sees the pattern (and no rule that is on answers it)
    offer,     \* the row: [id, status, rule: of the rule it became or 0, day: of the decision]; id 0: no row
    lastId,    \* ids given so far
    madeRules, \* rules made by accepting
    night,     \* the day
    work,      \* a handler: [pc, copy: the row as loaded]
    takes, shifts,
    dismissed, \* history: the day of the last dismissal saved, as a set
    crossing   \* history: a handler took the row up while another was between loading and saving

sugVars == <<offeredBy, pattern, offer, lastId, madeRules, night, work, takes, shifts, dismissed, crossing>>

OfferRow == [id : Nat, status : {"open", "accepted", "dismissed"}, rule : Nat, day : 0 .. LastNight]
WorkPcs == {"idle", "look", "sweep", "write", "accept", "dismiss"}
NoOffer == [id |-> 0, status |-> "open", rule |-> 0, day |-> 0]
NoWork == [pc |-> "idle", copy |-> NoOffer]

SugInit ==
    /\ offeredBy \in {"detector", "interview"} /\ pattern \in BOOLEAN
    /\ offer = NoOffer /\ lastId = 0 /\ madeRules = 0 /\ night = 0 /\ work = [h \in Deciders |-> NoWork]
    /\ takes = 0 /\ shifts = 0 /\ dismissed = {} /\ crossing = FALSE

TakesUp(h, pc, copy) ==
    /\ work[h].pc = "idle" /\ takes < MaxTakes /\ takes' = takes + 1
    /\ work' = [work EXCEPT ![h] = [pc |-> pc, copy |-> copy]]
    /\ crossing' = (crossing \/ \E g \in Deciders \ {h} : work[g].pc # "idle")
Puts(h) == work' = [work EXCEPT ![h] = NoWork]

\* Model.save of a row that was loaded: an update, or an insert if nothing has its id; the key is unique.
Saved(row) == IF offer.id \in {0, row.id} THEN row ELSE offer
IsSaved(row) == offer.id \in {0, row.id}

-----------------------------------------------------------------------------
\* refresh, by the daily job, the page or the assistant: what the detectors find now.
RefreshDetects(h) ==
    /\ offeredBy = "detector" /\ TakesUp(h, IF pattern THEN "look" ELSE "sweep", NoOffer)
    /\ UNCHANGED <<offeredBy, pattern, offer, lastId, madeRules, night, shifts, dismissed>>

\* The open suggestions that were not found go; mutant: the decided ones too.
SweepsAll == TRUE
Sweeps == offer.status = "open"
RefreshSweeps(h) ==
    /\ work[h].pc = "sweep" /\ Puts(h)
    /\ offer' = IF Sweeps THEN NoOffer ELSE offer
    /\ UNCHANGED <<offeredBy, pattern, lastId, madeRules, night, takes, shifts, dismissed, crossing>>

\* Mutant: a dismissed suggestion is made again at once.
AgainAtOnce(row) == row.status = "dismissed"
Again(row) == row.status = "dismissed" /\ row.day + Snooze < night

\* What it found: a row to create, to bring up to date or to open again; one that was accepted stays.
RefreshLooks(h) ==
    /\ work[h].pc = "look"
    /\ IF offer.id = 0 \/ offer.status = "open" \/ Again(offer)
       THEN work' = [work EXCEPT ![h] = [pc |-> "write", copy |-> offer]]
       ELSE Puts(h)
    /\ UNCHANGED <<offeredBy, pattern, offer, lastId, madeRules, night, takes, shifts, dismissed, crossing>>

\* The interview takes no decided suggestion up, and none whose template has a rule already.
InterviewLooks(h) ==
    /\ offeredBy = "interview" /\ madeRules = 0 /\ offer.status = "open"
    /\ TakesUp(h, "write", offer)
    /\ UNCHANGED <<offeredBy, pattern, offer, lastId, madeRules, night, shifts, dismissed>>

WritesOpen(h) ==
    /\ work[h].pc = "write" /\ Puts(h)
    /\ IF work[h].copy.id = 0
       THEN IF offer.id = 0
            THEN offer' = [NoOffer EXCEPT !.id = lastId + 1] /\ lastId' = lastId + 1
            ELSE UNCHANGED <<offer, lastId>>
       ELSE /\ offer' = Saved(IF work[h].copy.status = "open" THEN work[h].copy ELSE [NoOffer EXCEPT !.id = work[h].copy.id])
            /\ UNCHANGED lastId
    /\ UNCHANGED <<offeredBy, pattern, madeRules, night, takes, shifts, dismissed, crossing>>

-----------------------------------------------------------------------------
\* accept and dismiss, by the page or the assistant: only of an open suggestion.
Decides(h, pc) ==
    /\ offer.id # 0 /\ offer.status = "open" /\ TakesUp(h, pc, offer)
    /\ UNCHANGED <<offeredBy, pattern, offer, lastId, madeRules, night, shifts, dismissed>>

\* The rule and the row are saved in one transaction.
RuleMade(h) == IF IsSaved(work[h].copy) THEN madeRules + 1 ELSE madeRules
Accepts(h) ==
    /\ work[h].pc = "accept" /\ Puts(h)
    /\ madeRules' = RuleMade(h)
    /\ offer' = Saved([work[h].copy EXCEPT !.status = "accepted", !.rule = madeRules + 1, !.day = night])
    /\ UNCHANGED <<offeredBy, pattern, lastId, night, takes, shifts, dismissed, crossing>>

Dismisses(h) ==
    /\ work[h].pc = "dismiss" /\ Puts(h)
    /\ offer' = Saved([work[h].copy EXCEPT !.status = "dismissed", !.day = night])
    /\ dismissed' = IF IsSaved(work[h].copy) THEN {night} ELSE dismissed
    /\ UNCHANGED <<offeredBy, pattern, lastId, madeRules, night, takes, shifts, crossing>>

-----------------------------------------------------------------------------
\* The data of the office change, or a rule that answers the pattern is switched on or off.
PatternShifts ==
    /\ shifts < MaxShifts /\ shifts' = shifts + 1 /\ pattern' = ~pattern
    /\ UNCHANGED <<offeredBy, offer, lastId, madeRules, night, work, takes, dismissed, crossing>>

NightFalls ==
    /\ night < LastNight /\ night' = night + 1
    /\ UNCHANGED <<offeredBy, pattern, offer, lastId, madeRules, work, takes, shifts, dismissed, crossing>>

SugNext ==
    \/ \E h \in Deciders :
        \/ RefreshDetects(h) \/ RefreshSweeps(h) \/ RefreshLooks(h) \/ InterviewLooks(h) \/ WritesOpen(h)
        \/ \E pc \in {"accept", "dismiss"} : Decides(h, pc)
        \/ Accepts(h) \/ Dismisses(h)
    \/ PatternShifts \/ NightFalls

SugSpec == SugInit /\ [][SugNext]_sugVars

-----------------------------------------------------------------------------
SugTypeOK ==
    /\ offeredBy \in {"detector", "interview"} /\ pattern \in BOOLEAN
    /\ offer \in OfferRow /\ lastId \in Nat /\ madeRules \in Nat /\ night \in 0 .. LastNight
    /\ work \in [Deciders -> [pc : WorkPcs, copy : OfferRow]] /\ crossing \in BOOLEAN
    /\ takes \in 0 .. MaxTakes /\ shifts \in 0 .. MaxShifts /\ dismissed \subseteq 0 .. LastNight

\* Whatever crosses: an accepted suggestion names a rule that was made for it, any other none.
NamesItsRule ==
    /\ offer.status = "accepted" <=> offer.rule # 0
    /\ offer.rule <= madeRules

\* Unless handlers cross (a refresh saves the open row it loaded over the decision, src/brain/suggestions.py:176, and
\* two acceptances make two rules, :214): one rule at most, of a row that stays accepted; a dismissed one is not made
\* again within Snooze days.
AnsweredOnce ==
    ~crossing => /\ madeRules <= 1 /\ (madeRules = 1 <=> offer.status = "accepted")
                 /\ \A d \in dismissed : night <= d + Snooze => offer.status = "dismissed"

SuggestionsKept == NamesItsRule /\ AnsweredOnce
=============================================================================
