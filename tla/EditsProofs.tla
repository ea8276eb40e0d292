------------------------------ MODULE EditsProofs ------------------------------
(***************************************************************************)
(* Proofs about what people decide: that the assistant and its connector   *)
(* do what their person confirmed and their switch and limit say, that a   *)
(* customization is carried out as its office approved it, and that an     *)
(* import of folders doubles and forgets nothing, for any number of        *)
(* requests, actions, tokens, handlers, proposals, workers and folders.    *)
(***************************************************************************)
EXTENDS MCEdits, RuleConfigProofs, AuditChainProofs, FiniteSetTheorems, TLAPS

\* The requests that carry out the tool of an action, and whether one has and has not saved it.
Took(a) == \E q \in Helpers : helper[q].pc = "done" /\ helper[q].action = a
AtHand(a) == {q \in Helpers : helper[q].pc \in {"run", "done", "failed"} /\ helper[q].action = a}

\* A request that is deciding has an action, one at the limit of the connector has a token.
HelperOK(row) ==
    /\ row \in HelperRow
    /\ row.pc = "rate" => row.token \in Tokens
    /\ row.pc \in {"run", "cancel", "done", "failed"} => row.action \in Actions

HelpersOK == helper = [q \in Helpers |-> helper[q]] /\ \A q \in Helpers : HelperOK(helper[q])

\* While nobody blurred it, one request at most decides an action, which is pending until that one saves.
ActionOK(a) ==
    /\ pending[a] = "none" => effects[a] = 0 /\ Deciding(a) = {}
    /\ effects[a] > 0 \/ AtHand(a) # {} => a \in consent
    /\ a \notin blurred =>
        /\ \A p, q \in Deciding(a) : p = q
        /\ Deciding(a) # {} => pending[a] = "pending"
        /\ Took(a) => effects[a] = 1
        /\ ~Took(a) => effects[a] = 0 \/ pending[a] \in {"done", "gone"}
        /\ pending[a] = "done" => effects[a] = 1
        /\ effects[a] <= 1

\* While none overlapped, one request at most changes the settings or makes a token.
SwitchOK ==
    ~crossed =>
        /\ \A p, q \in Changing : p = q
        /\ \A q \in Changing :
            /\ helper[q].pc = "save" => helper[q].value = wanted
            /\ helper[q].pc = "revokeAll" => ~mcpOn /\ ~wanted
            /\ helper[q].pc = "create" => mcpOn /\ wanted
        /\ Changing = {} => mcpOn = wanted
        /\ ~mcpOn /\ (\A q \in Changing : helper[q].pc # "revokeAll") => \A t \in Tokens : ~Live(t)

\* The calls that have read a counter below the limit, and will be served, count as if they were.
Admitted(t) == {q \in Helpers : helper[q].pc = "rate" /\ helper[q].token = t /\ ~Refused(q)}
RateOK(t) ==
    /\ minute[t] = served[t]
    /\ RatePerMin > 0 => served[t] + Cardinality(Admitted(t)) <= RatePerMin + Cardinality(Helpers) - 1

-----------------------------------------------------------------------------
\* The request takes its next place, and the others stay.
LEMMA HelperMoves ==
    ASSUME HelpersOK, NEW q \in Helpers, NEW row, HelperOK(row), helper' = [helper EXCEPT ![q] = row]
    PROVE  HelpersOK' /\ helper' \in [Helpers -> HelperRow]
<1> HIDE DEF HelperOK
<1>1. HelpersOK'
  BY DEF HelpersOK
<1>2. \A p \in Helpers : helper'[p] \in HelperRow
  BY <1>1 DEF HelpersOK, HelperOK
<1> QED
  BY <1>1, <1>2 DEF HelpersOK

\* What the steps make of the row of a request: another place, or a new row.
LEMMA PlaceTaken ==
    ASSUME NEW row, HelperOK(row), NEW point \in {"idle", "asking", "run", "cancel", "done", "failed", "save", "revokeAll", "create"},
           point \in {"run", "cancel", "done", "failed"} => row.pc = "run"
    PROVE  HelperOK([row EXCEPT !.pc = point])
<1>1. row \in HelperRow /\ [row EXCEPT !.pc = point] \in HelperRow
  BY DEF HelperOK, HelperRow
<1>2. [row EXCEPT !.pc = point].pc = point /\ [row EXCEPT !.pc = point].action = row.action
  BY SMTT(30), <1>1 DEF HelperRow
<1> QED
  BY <1>1, <1>2 DEF HelperOK

LEMMA RowsTaken ==
    /\ HelperOK(Resting)
    /\ \A point \in {"asking", "create"}, may \in BOOLEAN : HelperOK([Resting EXCEPT !.pc = point, !.may = may])
    /\ \A t \in Tokens, n \in Nat, may \in BOOLEAN :
         HelperOK([Resting EXCEPT !.pc = "rate", !.token = t, !.seen = n, !.may = may])
    /\ \A a \in Actions, point \in {"run", "cancel"} : HelperOK([Resting EXCEPT !.pc = point, !.action = a])
    /\ \A value \in BOOLEAN : HelperOK([Resting EXCEPT !.pc = "save", !.value = value])
<1>1. HelperOK(Resting)
  BY DEF HelperOK, HelperRow, Resting
<1>2. ASSUME NEW point \in {"asking", "create"}, NEW may \in BOOLEAN
      PROVE  HelperOK([Resting EXCEPT !.pc = point, !.may = may])
  BY DEF HelperOK, HelperRow, Resting
<1>3. ASSUME NEW t \in Tokens, NEW n \in Nat, NEW may \in BOOLEAN
      PROVE  HelperOK([Resting EXCEPT !.pc = "rate", !.token = t, !.seen = n, !.may = may])
  BY DEF HelperOK, HelperRow, Resting
<1>4. ASSUME NEW a \in Actions, NEW point \in {"run", "cancel"}
      PROVE  HelperOK([Resting EXCEPT !.pc = point, !.action = a])
  BY DEF HelperOK, HelperRow, Resting
<1>5. ASSUME NEW value \in BOOLEAN PROVE HelperOK([Resting EXCEPT !.pc = "save", !.value = value])
  BY DEF HelperOK, HelperRow, Resting
<1> QED
  BY <1>1, <1>2, <1>3, <1>4, <1>5

\* A step of the assistant keeps the types.
LEMMA AsTypeStep == AsTypeOK /\ HelpersOK /\ [AsNext]_asVars => AsTypeOK' /\ HelpersOK'
<1> SUFFICES ASSUME AsTypeOK, HelpersOK, [AsNext]_asVars PROVE AsTypeOK' /\ HelpersOK'
  OBVIOUS
<1> USE DEF AsTypeOK
<1>0. \A q \in Helpers : HelperOK(helper[q])
  BY DEF HelpersOK
<1>1. ASSUME helper' = helper PROVE HelpersOK'
  BY <1>1 DEF HelpersOK
<1>2. ASSUME NEW q \in Helpers, StartAsk(q) PROVE AsTypeOK' /\ HelpersOK'
  <2>1. PICK row : HelperOK(row) /\ helper' = [helper EXCEPT ![q] = row]
    BY <1>2, RowsTaken DEF StartAsk
  <2> QED
    BY <1>2, <2>1, HelperMoves DEF StartAsk
<1>3. ASSUME NEW q \in Helpers, NEW t \in Tokens, EnterConnector(q, t) PROVE AsTypeOK' /\ HelpersOK'
  <2>1. minute[t] \in Nat /\ (mayWrite /\ token[t] = "pedidos") \in BOOLEAN
    OBVIOUS
  <2>2. PICK row : HelperOK(row) /\ helper' = [helper EXCEPT ![q] = row]
    BY <1>3, <2>1, RowsTaken DEF EnterConnector
  <2> QED
    BY <1>3, <2>2, HelperMoves DEF EnterConnector
<1>4. ASSUME NEW q \in Helpers, CountCall(q) PROVE AsTypeOK' /\ HelpersOK'
  <2>1. PICK row : HelperOK(row) /\ helper' = [helper EXCEPT ![q] = row]
    BY <1>0, <1>4, RowsTaken, PlaceTaken DEF CountCall, Now, Rests
  <2>2. HelpersOK' /\ helper' \in [Helpers -> HelperRow]
    BY <2>1, HelperMoves
  <2>3. minute' \in [Tokens -> Nat] /\ served' \in [Tokens -> Nat]
    BY <1>4 DEF CountCall
  <2> QED
    BY SMTT(30), <1>4, <2>2, <2>3 DEF CountCall
<1>5. ASSUME NEW q \in Helpers, Answer(q) PROVE AsTypeOK' /\ HelpersOK'
  BY <1>5, RowsTaken, HelperMoves DEF Answer, Rests
<1>6. ASSUME NEW q \in Helpers, NEW a \in Actions, Propose(q, a) PROVE AsTypeOK' /\ HelpersOK'
  BY <1>1, <1>6 DEF Propose
<1>7. ASSUME NEW q \in Helpers, NEW a \in Actions, NEW accept \in BOOLEAN, Decide(q, a, accept)
      PROVE  AsTypeOK' /\ HelpersOK'
  <2>1. PICK row : HelperOK(row) /\ helper' = [helper EXCEPT ![q] = row]
    BY <1>7, RowsTaken DEF Decide
  <2>2. consent' \subseteq Actions /\ blurred' \subseteq Actions
    BY <1>7 DEF Decide
  <2>3. HelpersOK' /\ helper' \in [Helpers -> HelperRow]
    BY <2>1, HelperMoves
  <2> QED
    BY SMTT(30), <1>7, <2>2, <2>3 DEF Decide
<1>8. ASSUME NEW q \in Helpers, CancelAction(q) PROVE AsTypeOK' /\ HelpersOK'
  <2>1. HelpersOK' /\ helper' \in [Helpers -> HelperRow]
    BY <1>8, RowsTaken, HelperMoves DEF CancelAction, Rests
  <2> QED
    BY <1>8, <2>1 DEF CancelAction, Saved
<1>9. ASSUME NEW q \in Helpers, RunTool(q) PROVE AsTypeOK' /\ HelpersOK'
  <2>1. helper[q].pc = "run" /\ helper[q].action \in Actions
    BY <1>0, <1>9 DEF RunTool, HelperOK
  <2>2. PICK row : HelperOK(row) /\ helper' = [helper EXCEPT ![q] = row]
    BY <1>0, <1>9, <2>1, RowsTaken, PlaceTaken DEF RunTool, Now, Rests
  <2>3. effects' \in [Actions -> Nat] /\ blurred' \subseteq Actions
    BY <1>9, <2>1 DEF RunTool
  <2> QED
    BY <1>9, <2>2, <2>3, HelperMoves DEF RunTool
<1>10. ASSUME NEW q \in Helpers, SaveAction(q) PROVE AsTypeOK' /\ HelpersOK'
  <2>1. HelpersOK' /\ helper' \in [Helpers -> HelperRow]
    BY <1>10, RowsTaken, HelperMoves DEF SaveAction, Rests
  <2> QED
    BY <1>10, <2>1 DEF SaveAction, Saved
<1>11. ASSUME NEW q \in Helpers, LoadSettings(q) PROVE AsTypeOK' /\ HelpersOK'
  <2>1. PICK row : HelperOK(row) /\ helper' = [helper EXCEPT ![q] = row]
    BY <1>11, RowsTaken DEF LoadSettings
  <2>2. wanted' \in BOOLEAN /\ crossed' \in BOOLEAN /\ changes' \in Nat
    BY <1>11 DEF LoadSettings
  <2> QED
    BY <1>11, <2>1, <2>2, HelperMoves DEF LoadSettings
<1>12. ASSUME NEW q \in Helpers, SaveSettings(q) PROVE AsTypeOK' /\ HelpersOK'
  <2>1. HelperOK(helper[q]) /\ helper[q].value \in BOOLEAN
    BY <1>0 DEF HelperRow
  <2>2. PICK row : HelperOK(row) /\ helper' = [helper EXCEPT ![q] = row]
    BY <1>12, <2>1, RowsTaken, PlaceTaken DEF SaveSettings
  <2> QED
    BY <1>12, <2>1, <2>2, HelperMoves DEF SaveSettings
<1>13. ASSUME NEW q \in Helpers, RevokeAll(q) PROVE AsTypeOK' /\ HelpersOK'
  <2>1. HelpersOK' /\ helper' \in [Helpers -> HelperRow]
    BY <1>13, RowsTaken, HelperMoves DEF RevokeAll, Rests
  <2> QED
    BY SMTT(30), <1>13, <2>1 DEF RevokeAll
<1>14. ASSUME NEW q \in Helpers, CheckToken(q) PROVE AsTypeOK' /\ HelpersOK'
  <2>1. PICK row : HelperOK(row) /\ helper' = [helper EXCEPT ![q] = row]
    BY <1>14, RowsTaken DEF CheckToken
  <2>2. HelpersOK' /\ helper' \in [Helpers -> HelperRow]
    BY <2>1, HelperMoves
  <2>3. changes' \in Nat /\ crossed' \in BOOLEAN
    BY <1>14 DEF CheckToken
  <2> QED
    BY SMTT(30), <1>14, <2>2, <2>3 DEF CheckToken
<1>15. ASSUME NEW q \in Helpers, CreateToken(q) PROVE AsTypeOK' /\ HelpersOK'
  <2>1. HelpersOK' /\ helper' \in [Helpers -> HelperRow]
    BY <1>15, RowsTaken, HelperMoves DEF CreateToken, Rests
  <2>2. token' \in [Tokens -> {"none", "leitura", "pedidos", "revoked"}]
    BY <1>15 DEF CreateToken
  <2> QED
    BY SMTT(30), <1>15, <2>1, <2>2 DEF CreateToken
<1>16. CASE NextMinute
  <2>1. \A q \in Helpers : HelperOK(helper'[q])
    <3> SUFFICES ASSUME NEW q \in Helpers PROVE HelperOK(helper'[q])
      OBVIOUS
    <3>1. helper'[q] = helper[q] \/ helper'[q] = Resting \/ helper'[q] = [helper[q] EXCEPT !.pc = "asking"]
      BY SMTT(30), <1>16 DEF NextMinute
    <3>2. HelperOK(helper[q]) /\ HelperOK(Resting)
      BY <1>0, RowsTaken
    <3>3. HelperOK([helper[q] EXCEPT !.pc = "asking"])
      BY <3>2, PlaceTaken
    <3> QED
      BY <3>1, <3>2, <3>3
  <2>2. helper' \in [Helpers -> HelperRow] /\ HelpersOK'
    BY <1>16, <2>1 DEF NextMinute, HelpersOK, HelperOK
  <2> QED
    BY <1>16, <2>2 DEF NextMinute
<1>17. CASE DeleteConversation
  BY <1>1, <1>17 DEF DeleteConversation
<1>18. ASSUME ChangeRights \/ \E t \in Tokens : RevokeToken(t) PROVE AsTypeOK' /\ HelpersOK'
  <2>1. CASE ChangeRights
    BY <1>1, <2>1 DEF ChangeRights
  <2>2. ASSUME NEW t \in Tokens, RevokeToken(t) PROVE AsTypeOK' /\ HelpersOK'
    BY <1>1, <2>2 DEF RevokeToken
  <2> QED
    BY <1>18, <2>1, <2>2
<1>19. CASE UNCHANGED asVars
  BY <1>1, <1>19 DEF asVars
<1> QED
  BY <1>2, <1>3, <1>4, <1>5, <1>6, <1>7, <1>8, <1>9, <1>10, <1>11, <1>12, <1>13, <1>14, <1>15, <1>16, <1>17, <1>18, <1>19
  DEF AsNext

-----------------------------------------------------------------------------
Decides(row, a) == row.pc \in {"run", "cancel", "done", "failed"} /\ row.action = a

\* What neither touches the requests that decide an action nor the action keeps it right.
LEMMA ActionRest ==
    ASSUME NEW a \in Actions, ActionOK(a), pending'[a] = pending[a], effects'[a] = effects[a],
           consent \subseteq consent', blurred \subseteq blurred',
           \A q \in Helpers : helper'[q] = helper[q] \/ (~Decides(helper[q], a) /\ ~Decides(helper'[q], a))
    PROVE  ActionOK(a)'
<1>1. Deciding(a)' = Deciding(a) /\ AtHand(a)' = AtHand(a)
  BY DEF Deciding, AtHand, Decides
<1>2. Took(a)' <=> Took(a)
  BY DEF Took, Decides
<1> QED
  BY <1>1, <1>2 DEF ActionOK

\* A decision is taken up: by one request, or the action is blurred.
LEMMA ActionDecided ==
    ASSUME AsTypeOK, NEW q \in Helpers, NEW a \in Actions, NEW accept \in BOOLEAN, Decide(q, a, accept), ActionOK(a)
    PROVE  ActionOK(a)'
<1>1. /\ helper[q].pc = "idle" /\ pending[a] = "pending" /\ pending' = pending /\ effects' = effects
      /\ helper'[q].pc = (IF accept THEN "run" ELSE "cancel") /\ helper'[q].action = a
      /\ \A p \in Helpers \ {q} : helper'[p] = helper[p]
      /\ consent \subseteq consent' /\ (accept => a \in consent')
      /\ blurred \subseteq blurred' /\ (Deciding(a) # {} => a \in blurred')
  BY DEF Decide, AsTypeOK, Undecided, Resting
<1>2. Deciding(a)' = Deciding(a) \cup {q}
  BY <1>1 DEF Deciding
<1>3. (Took(a)' <=> Took(a)) /\ (accept \/ AtHand(a)' = AtHand(a))
  BY <1>1 DEF Took, AtHand
<1> QED
  BY <1>1, <1>2, <1>3 DEF ActionOK

\* The request that decides an action nobody blurred is the only one; its next step keeps it right.
LEMMA ActionWorked ==
    ASSUME AsTypeOK, NEW q \in Helpers, NEW a \in Actions, helper[q].action = a, ActionOK(a),
           CancelAction(q) \/ RunTool(q) \/ SaveAction(q)
    PROVE  ActionOK(a)'
<1>1. /\ \A p \in Helpers \ {q} : helper'[p] = helper[p]
      /\ consent' = consent /\ blurred \subseteq blurred' /\ q \in Deciding(a)
  BY DEF CancelAction, RunTool, SaveAction, AsTypeOK, Rests, Now, Deciding
<1>2. AtHand(a) # {} => a \in consent
  BY DEF ActionOK
<1>3. helper[q].pc # "cancel" => a \in consent
  BY <1>2 DEF AtHand, CancelAction, RunTool, SaveAction
<1>4. \A p \in Helpers \ {q} : p \notin Deciding(a) \/ a \in blurred
  BY <1>1 DEF ActionOK
<1>5. (a \notin blurred => pending[a] = "pending") /\ pending[a] # "none"
  BY <1>1 DEF ActionOK
<1>6. AtHand(a)' \subseteq AtHand(a) \cup {q}
  BY <1>1 DEF AtHand
<1>7. CASE CancelAction(q)
  <2>1. helper[q].pc = "cancel" /\ helper'[q].pc = "idle" /\ effects' = effects /\ blurred' = blurred
        /\ pending'[a] = (IF pending[a] = "gone" THEN "gone" ELSE "canceled")
    BY <1>7 DEF CancelAction, Saved, Rests, Resting, AsTypeOK
  <2>2. a \notin blurred => ~Took(a) /\ ~Took(a)' /\ Deciding(a)' = {}
    BY <1>1, <1>4, <2>1 DEF Took, Deciding
  <2>3. effects[a] > 0 \/ AtHand(a)' # {} => a \in consent
    BY <1>1, <2>1 DEF AtHand, ActionOK
  <2> QED
    BY <1>1, <1>5, <2>1, <2>2, <2>3 DEF ActionOK
<1>8. CASE RunTool(q)
  <2>0. /\ helper[q].pc = "run" /\ pending' = pending
        /\ \/ helper' = [helper EXCEPT ![q].pc = "failed"] /\ effects' = effects /\ blurred' = blurred
           \/ helper' = [helper EXCEPT ![q].pc = "done"] /\ effects' = [effects EXCEPT ![a] = effects[a] + 1] /\ blurred' = blurred
           \/ helper' = [helper EXCEPT ![q] = Resting] /\ effects' = effects /\ blurred' = blurred
           \/ helper' = [helper EXCEPT ![q] = Resting] /\ a \in blurred'
    BY <1>8 DEF RunTool, Now, Rests
  <2>1. /\ \/ helper'[q].pc = "failed" /\ effects' = effects /\ blurred' = blurred
           \/ helper'[q].pc = "done" /\ effects'[a] = effects[a] + 1 /\ blurred' = blurred
           \/ helper'[q].pc = "idle" /\ effects' = effects /\ blurred' = blurred
           \/ helper'[q].pc = "idle" /\ a \in blurred'
        /\ helper'[q].pc # "idle" => helper'[q].action = a
    <3> USE DEF AsTypeOK, HelperRow, Resting
    <3>1. CASE helper' = [helper EXCEPT ![q].pc = "failed"] /\ effects' = effects /\ blurred' = blurred
      BY <3>1
    <3>2. CASE /\ helper' = [helper EXCEPT ![q].pc = "done"]
               /\ effects' = [effects EXCEPT ![a] = effects[a] + 1] /\ blurred' = blurred
      BY <3>2
    <3>3. CASE helper' = [helper EXCEPT ![q] = Resting] /\ ((effects' = effects /\ blurred' = blurred) \/ a \in blurred')
      BY <3>3
    <3> QED
      BY <2>0, <3>1, <3>2, <3>3
  <2>3. a \notin blurred => ~Took(a) /\ (Took(a)' <=> helper'[q].pc = "done") /\ Deciding(a)' \subseteq {q}
    BY <1>1, <1>4, <2>0, <2>1 DEF Took, Deciding
  <2> QED
    BY <1>1, <1>3, <1>5, <2>0, <2>1, <2>3 DEF ActionOK, AsTypeOK
<1>9. CASE SaveAction(q)
  <2>1. helper[q].pc \in {"done", "failed"} /\ helper'[q].pc = "idle" /\ effects' = effects /\ blurred' = blurred
        /\ pending'[a] = (IF pending[a] = "gone" THEN "gone" ELSE helper[q].pc)
    BY <1>9 DEF SaveAction, Saved, Rests, Resting, AsTypeOK
  <2>2. a \notin blurred => (Took(a) <=> helper[q].pc = "done") /\ ~Took(a)' /\ Deciding(a)' = {}
    BY <1>1, <1>4, <2>1 DEF Took, Deciding
  <2> QED
    BY <1>1, <1>3, <1>5, <2>1, <2>2 DEF ActionOK
<1> QED
  BY <1>7, <1>8, <1>9

-----------------------------------------------------------------------------
ChangingPc == {"save", "revokeAll", "create"}

\* What neither touches who changes the switch nor revives a token keeps the switch right.
LEMMA SwitchRest ==
    ASSUME SwitchOK, UNCHANGED <<mcpOn, wanted, crossed>>, \A t \in Tokens : Live(t)' => Live(t),
           \A q \in Helpers : helper'[q] = helper[q] \/ {helper[q].pc, helper'[q].pc} \cap ChangingPc = {}
    PROVE  SwitchOK'
<1>1. Changing' = Changing /\ \A q \in Changing : helper'[q] = helper[q]
  BY DEF Changing, ChangingPc
<1> QED
  BY <1>1 DEF SwitchOK

\* A change of the settings, or the creation of a token, is taken up.
LEMMA SwitchTaken ==
    ASSUME SwitchOK, AsTypeOK, NEW q \in Helpers, LoadSettings(q) \/ CheckToken(q)
    PROVE  SwitchOK'
<1>1. /\ Changing' = Changing \cup {q} /\ helper'[q].pc \in {"save", "create"} /\ token' = token /\ mcpOn' = mcpOn
      /\ ~crossed' => ~crossed /\ Changing = {}
      /\ \/ helper'[q].pc = "save" /\ helper'[q].value \in BOOLEAN /\ (wanted' = helper'[q].value)
         \/ helper'[q].pc = "save" /\ helper'[q].value = mcpOn /\ wanted' = wanted
         \/ helper'[q].pc = "create" /\ mcpOn /\ wanted' = wanted
  <2>1. /\ \A p \in Helpers \ {q} : helper'[p] = helper[p]
        /\ \/ helper'[q].pc = "save" /\ helper'[q].value \in BOOLEAN /\ wanted' = helper'[q].value
           \/ helper'[q].pc = "save" /\ helper'[q].value = mcpOn /\ wanted' = wanted
           \/ helper'[q].pc = "create" /\ mcpOn /\ wanted' = wanted
    BY DEF LoadSettings, CheckToken, AsTypeOK, Resting
  <2>2. Changing' = Changing \cup {q}
    BY <2>1 DEF Changing
  <2>3. token' = token /\ mcpOn' = mcpOn /\ (~crossed' => ~crossed /\ Changing = {})
    BY DEF LoadSettings, CheckToken
  <2> QED
    BY <2>1, <2>2, <2>3
<1>2. ASSUME ~crossed' PROVE ~crossed /\ Changing = {} /\ mcpOn = wanted /\ Changing' = {q} /\ (~mcpOn => \A t \in Tokens : ~Live(t))
  BY <1>1, <1>2 DEF SwitchOK
<1> QED
  BY <1>1, <1>2 DEF SwitchOK, Live, AsTypeOK

\* The request that has taken it up is the only one; its steps leave the switch right.
LEMMA SwitchWorked ==
    ASSUME SwitchOK, AsTypeOK, NEW q \in Helpers, SaveSettings(q) \/ RevokeAll(q) \/ CreateToken(q)
    PROVE  SwitchOK'
<1> SUFFICES ASSUME ~crossed PROVE SwitchOK'
  BY DEF SwitchOK, SaveSettings, RevokeAll, CreateToken
<1>1. /\ \A p \in Helpers \ {q} : helper'[p] = helper[p]
      /\ q \in Changing /\ wanted' = wanted
  BY DEF SaveSettings, RevokeAll, CreateToken, Rests, AsTypeOK, Changing
<1>2. \A p \in Helpers \ {q} : p \notin Changing'
  BY <1>1 DEF SwitchOK, Changing
<1>3. CASE SaveSettings(q)
  <2>1. /\ helper[q].pc = "save" /\ mcpOn' = helper[q].value /\ helper[q].value = wanted /\ token' = token
        /\ wanted \in BOOLEAN
    BY <1>1, <1>3 DEF SaveSettings, SwitchOK, AsTypeOK
  <2>2. helper'[q].pc = IF helper[q].value THEN "idle" ELSE "revokeAll"
    <3>1. helper[q] \in HelperRow /\ helper' = [helper EXCEPT ![q] = IF helper[q].value THEN Resting ELSE [helper[q] EXCEPT !.pc = "revokeAll"]]
      BY <1>3 DEF SaveSettings, AsTypeOK
    <3>2. [helper[q] EXCEPT !.pc = "revokeAll"].pc = "revokeAll" /\ Resting.pc = "idle"
      BY <3>1 DEF HelperRow, Resting
    <3> QED
      BY <3>1, <3>2 DEF AsTypeOK
  <2>3. CASE wanted
    <3>1. Changing' = {}
      BY <1>2, <2>1, <2>2, <2>3 DEF Changing
    <3> QED
      BY <1>1, <2>1, <2>3, <3>1 DEF SwitchOK
  <2>4. CASE ~wanted
    <3>1. Changing' = {q}
      BY <1>2, <2>1, <2>2, <2>4 DEF Changing
    <3> QED
      BY <1>1, <2>1, <2>2, <2>4, <3>1 DEF SwitchOK
  <2> QED
    BY <2>3, <2>4
<1>4. CASE RevokeAll(q)
  <2>1. Changing' = {} /\ mcpOn' = mcpOn /\ ~mcpOn /\ ~wanted /\ wanted \in BOOLEAN
    BY <1>1, <1>2, <1>4 DEF RevokeAll, SwitchOK, Changing, Rests, Resting, AsTypeOK
  <2>2. \A t \in Tokens : ~Live(t)'
    BY <1>4 DEF RevokeAll, Live
  <2> QED
    BY <1>1, <2>1, <2>2 DEF SwitchOK, AsTypeOK
<1>5. CASE CreateToken(q)
  <2>1. Changing' = {} /\ mcpOn' = mcpOn /\ mcpOn /\ wanted
    BY <1>1, <1>2, <1>5 DEF CreateToken, SwitchOK, Changing, Rests, Resting, AsTypeOK
  <2> QED
    BY <1>1, <2>1 DEF SwitchOK, AsTypeOK
<1> QED
  BY <1>3, <1>4, <1>5

-----------------------------------------------------------------------------
\* What touches neither the counter nor a call before it keeps the limit.
LEMMA RateRest ==
    ASSUME NEW t \in Tokens, RateOK(t), minute'[t] = minute[t], served'[t] = served[t],
           \A q \in Helpers : helper'[q] = helper[q] \/ "rate" \notin {helper[q].pc, helper'[q].pc}
    PROVE  RateOK(t)'
<1>1. Admitted(t)' = Admitted(t)
  BY DEF Admitted, Refused
<1> QED
  BY <1>1 DEF RateOK

LEMMA AdmittedFinite ==
    /\ \A t : IsFiniteSet(Admitted(t)) /\ Cardinality(Admitted(t)) \in Nat /\ Cardinality(Admitted(t)) <= Cardinality(Helpers)
    /\ Cardinality(Helpers) \in Nat
<1>1. IsFiniteSet(Helpers) /\ Cardinality(Helpers) \in Nat
  BY AsAssumption, FS_CardinalityType
<1> SUFFICES ASSUME NEW t
             PROVE  IsFiniteSet(Admitted(t)) /\ Cardinality(Admitted(t)) \in Nat /\ Cardinality(Admitted(t)) <= Cardinality(Helpers)
  BY <1>1
<1>2. Admitted(t) \subseteq Helpers
  BY DEF Admitted
<1> QED
  BY <1>1, <1>2, FS_Subset, FS_CardinalityType

\* A call enters: while the counter it read is below the limit, every request may have read it so.
LEMMA RateEntered ==
    ASSUME AsTypeOK, NEW q \in Helpers, NEW t \in Tokens, EnterConnector(q, t), NEW u \in Tokens, RateOK(u)
    PROVE  RateOK(u)'
<1>1. /\ minute' = minute /\ served' = served /\ helper[q].pc = "idle" /\ helper'[q].pc = "rate" /\ helper'[q].token = t
      /\ helper'[q].seen = minute[t] /\ \A p \in Helpers \ {q} : helper'[p] = helper[p]
  BY DEF EnterConnector, AsTypeOK, Resting
<1>2. CASE minute[t] >= RatePerMin \/ u # t
  <2>1. Admitted(u)' = Admitted(u)
    BY <1>1, <1>2 DEF Admitted, Refused
  <2> QED
    BY <1>1, <2>1 DEF RateOK
<1>3. CASE u = t /\ ~(minute[t] >= RatePerMin)
  <2>1. minute[u] \in Nat /\ RatePerMin \in Nat /\ minute[u] <= RatePerMin - 1
    BY <1>3, AsAssumption DEF AsTypeOK
  <2>2. Cardinality(Admitted(u))' \in Nat /\ Cardinality(Admitted(u))' <= Cardinality(Helpers)
    <3>1. Admitted(u)' \subseteq Helpers
      BY DEF Admitted
    <3>2. Cardinality(Admitted(u)') \in Nat /\ Cardinality(Admitted(u)') <= Cardinality(Helpers)
      BY <3>1, AsAssumption, FS_Subset, FS_CardinalityType
    <3> QED
      BY <3>2
  <2> QED
    BY <1>1, <2>1, <2>2, AdmittedFinite DEF RateOK
<1> QED
  BY <1>2, <1>3

\* A call is counted, or refused.
LEMMA RateCounted ==
    ASSUME AsTypeOK, HelpersOK, NEW q \in Helpers, CountCall(q), NEW u \in Tokens, RateOK(u)
    PROVE  RateOK(u)'
<1> DEFINE t == helper[q].token
<1>1. t \in Tokens /\ helper[q].pc = "rate" /\ helper[q] \in HelperRow
  BY DEF CountCall, HelpersOK, HelperOK
<1>2. CASE Refused(q)
  <2>1. /\ helper'[q].pc = "idle" /\ minute' = minute /\ served' = served
        /\ \A p \in Helpers \ {q} : helper'[p] = helper[p]
    BY <1>1, <1>2 DEF CountCall, Rests, AsTypeOK, Resting
  <2>2. Admitted(u)' = Admitted(u)
    BY <1>2, <2>1 DEF Admitted, Refused
  <2> QED
    BY <2>1, <2>2 DEF RateOK
<1>3. CASE ~Refused(q)
  <2>1. /\ helper' = [helper EXCEPT ![q] = [helper[q] EXCEPT !.pc = "asking"]]
        /\ minute' = [minute EXCEPT ![t] = minute[t] + 1] /\ served' = [served EXCEPT ![t] = served[t] + 1]
    BY <1>3 DEF CountCall, Now
  <2>2. helper'[q].pc = "asking" /\ \A p \in Helpers \ {q} : helper'[p] = helper[p]
    BY <1>1, <2>1 DEF AsTypeOK, HelperRow
  <2> HIDE DEF t
  <2>3. CASE u = t
    <3>1. q \in Admitted(u) /\ Admitted(u)' = Admitted(u) \ {q}
      BY <1>1, <1>3, <2>2, <2>3 DEF Admitted, Refused, t
    <3>2. Cardinality(Admitted(u) \ {q}) = Cardinality(Admitted(u)) - 1
      BY <3>1, AdmittedFinite, FS_RemoveElement
    <3>3. Cardinality(Admitted(u))' = Cardinality(Admitted(u)) - 1
      BY <3>1, <3>2
    <3>4. minute'[u] = minute[u] + 1 /\ served'[u] = served[u] + 1 /\ served[u] \in Nat /\ RatePerMin \in Nat
      BY <1>1, <2>1, <2>3, AsAssumption DEF AsTypeOK
    <3> QED
      BY <3>3, <3>4, AdmittedFinite DEF RateOK
  <2>4. CASE u # t
    <3>1. Admitted(u)' = Admitted(u)
      BY <1>1, <2>2, <2>4 DEF Admitted, Refused, t
    <3>2. minute'[u] = minute[u] /\ served'[u] = served[u]
      BY <1>1, <2>1, <2>4 DEF AsTypeOK
    <3> QED
      BY <3>1, <3>2 DEF RateOK
  <2> QED
    BY <2>3, <2>4
<1> QED
  BY <1>2, <1>3

\* A new minute: nothing is counted, and no call is before the new counter.
LEMMA RateReset ==
    ASSUME AsTypeOK, NextMinute, NEW t \in Tokens
    PROVE  RateOK(t)'
<1>1. minute'[t] = 0 /\ served'[t] = 0
  BY DEF NextMinute
<1>2. \A q \in Helpers : helper'[q].pc # "rate"
  BY DEF NextMinute, Resting, AsTypeOK, HelperRow
<1>3. Admitted(t)' = {}
  BY <1>2 DEF Admitted
<1>4. Cardinality(Admitted(t)') = 0
  BY <1>3, FS_EmptySet
<1> QED
  BY <1>1, <1>4, AdmittedFinite, AsAssumption DEF RateOK

-----------------------------------------------------------------------------
\* A request goes from one place to another, and the others stay.
Goes(q, from, to) ==
    /\ helper[q].pc \in from /\ helper'[q].pc \in to
    /\ \A p \in Helpers \ {q} : helper'[p] = helper[p]

LEMMA RowTaken ==
    ASSUME AsTypeOK, NEW q \in Helpers, NEW row, helper' = [helper EXCEPT ![q] = row]
    PROVE  helper'[q] = row /\ \A p \in Helpers \ {q} : helper'[p] = helper[p]
BY DEF AsTypeOK

LEMMA Places ==
    ASSUME AsTypeOK, NEW q \in Helpers
    PROVE  /\ StartAsk(q) => Goes(q, {"idle"}, {"asking"})
           /\ CountCall(q) => Goes(q, {"rate"}, {"idle", "asking"})
           /\ Answer(q) => Goes(q, {"asking"}, {"idle"})
           /\ CancelAction(q) => Goes(q, {"cancel"}, {"idle"})
           /\ RunTool(q) => Goes(q, {"run"}, {"idle", "done", "failed"})
           /\ SaveAction(q) => Goes(q, {"done", "failed"}, {"idle"})
           /\ LoadSettings(q) => Goes(q, {"idle"}, {"save"})
           /\ SaveSettings(q) => Goes(q, {"save"}, {"idle", "revokeAll"})
           /\ RevokeAll(q) => Goes(q, {"revokeAll"}, {"idle"})
           /\ CheckToken(q) => Goes(q, {"idle"}, {"create"})
           /\ CreateToken(q) => Goes(q, {"create"}, {"idle"})
           /\ \A t \in Tokens : EnterConnector(q, t) => Goes(q, {"idle"}, {"rate"})
           /\ \A a \in Actions, accept \in BOOLEAN : Decide(q, a, accept) => Goes(q, {"idle"}, {"run", "cancel"})
<1>0. helper[q] \in HelperRow /\ Resting.pc = "idle"
  BY DEF AsTypeOK, Resting
<1>1. \A point : [helper[q] EXCEPT !.pc = point].pc = point
  BY <1>0 DEF HelperRow
<1>2. ASSUME StartAsk(q) PROVE Goes(q, {"idle"}, {"asking"})
  <2>1. helper[q].pc = "idle" /\ helper' = [helper EXCEPT ![q] = [Resting EXCEPT !.pc = "asking", !.may = mayWrite]]
    BY <1>2 DEF StartAsk
  <2>2. [Resting EXCEPT !.pc = "asking", !.may = mayWrite].pc \in {"asking"}
    BY DEF Resting
  <2> QED
    BY <2>1, <2>2, RowTaken DEF Goes
<1>3. ASSUME CountCall(q) PROVE Goes(q, {"rate"}, {"idle", "asking"})
  <2>1. CASE helper' = [helper EXCEPT ![q] = Resting]
    BY <1>0, <1>3, <2>1, RowTaken DEF CountCall, Goes
  <2>2. CASE helper' = [helper EXCEPT ![q] = [helper[q] EXCEPT !.pc = "asking"]]
    BY <1>1, <1>3, <2>2, RowTaken DEF CountCall, Goes
  <2> QED
    BY <1>3, <2>1, <2>2 DEF CountCall, Rests, Now
<1>4. ASSUME Answer(q) PROVE Goes(q, {"asking"}, {"idle"})
  BY <1>0, <1>4, RowTaken DEF Answer, Goes, Rests, Resting
<1>5. ASSUME CancelAction(q) PROVE Goes(q, {"cancel"}, {"idle"})
  BY <1>0, <1>5, RowTaken DEF CancelAction, Goes, Rests, Resting
<1>6. ASSUME RunTool(q) PROVE Goes(q, {"run"}, {"idle", "done", "failed"})
  <2>1. CASE helper' = [helper EXCEPT ![q] = Resting]
    BY <1>0, <1>6, <2>1, RowTaken DEF RunTool, Goes
  <2>2. CASE helper' = [helper EXCEPT ![q] = [helper[q] EXCEPT !.pc = "done"]]
    BY ZenonT(60), <1>1, <1>6, <2>2, RowTaken DEF RunTool, Goes
  <2>3. CASE helper' = [helper EXCEPT ![q] = [helper[q] EXCEPT !.pc = "failed"]]
    BY ZenonT(60), <1>1, <1>6, <2>3, RowTaken DEF RunTool, Goes
  <2> QED
    BY <1>6, <2>1, <2>2, <2>3 DEF RunTool, Rests, Now
<1>7. ASSUME SaveAction(q) PROVE Goes(q, {"done", "failed"}, {"idle"})
  BY <1>0, <1>7, RowTaken DEF SaveAction, Goes, Rests, Resting
<1>8. ASSUME LoadSettings(q) PROVE Goes(q, {"idle"}, {"save"})
  BY ZenonT(60), <1>0, <1>8, RowTaken DEF LoadSettings, Goes, Rests, Resting
<1>9. ASSUME SaveSettings(q) PROVE Goes(q, {"save"}, {"idle", "revokeAll"})
  <2>1. CASE helper' = [helper EXCEPT ![q] = Resting]
    BY <1>0, <1>9, <2>1, RowTaken DEF SaveSettings, Goes
  <2>2. CASE helper' = [helper EXCEPT ![q] = [helper[q] EXCEPT !.pc = "revokeAll"]]
    BY ZenonT(60), <1>1, <1>9, <2>2, RowTaken DEF SaveSettings, Goes
  <2> QED
    BY <1>9, <2>1, <2>2 DEF SaveSettings
<1>10. ASSUME RevokeAll(q) PROVE Goes(q, {"revokeAll"}, {"idle"})
  BY <1>0, <1>10, RowTaken DEF RevokeAll, Goes, Rests, Resting
<1>11. ASSUME CheckToken(q) PROVE Goes(q, {"idle"}, {"create"})
  <2>1. helper[q].pc = "idle" /\ helper' = [helper EXCEPT ![q] = [Resting EXCEPT !.pc = "create", !.may = mayWrite]]
    BY <1>11 DEF CheckToken
  <2>2. [Resting EXCEPT !.pc = "create", !.may = mayWrite].pc \in {"create"}
    BY DEF Resting
  <2> QED
    BY <2>1, <2>2, RowTaken DEF Goes
<1>12. ASSUME CreateToken(q) PROVE Goes(q, {"create"}, {"idle"})
  BY ZenonT(60), <1>0, <1>12, RowTaken DEF CreateToken, Goes, Rests, Resting
<1>13. ASSUME NEW t \in Tokens, EnterConnector(q, t) PROVE Goes(q, {"idle"}, {"rate"})
  <2>1. helper[q].pc = "idle" /\ helper' = [helper EXCEPT ![q] = [Resting EXCEPT !.pc = "rate", !.token = t, !.seen = minute[t], !.may = mayWrite /\ token[t] = "pedidos"]]
    BY <1>13 DEF EnterConnector
  <2>2. [Resting EXCEPT !.pc = "rate", !.token = t, !.seen = minute[t], !.may = mayWrite /\ token[t] = "pedidos"].pc \in {"rate"}
    BY DEF Resting
  <2> QED
    BY <2>1, <2>2, RowTaken DEF Goes
<1>14. ASSUME NEW a \in Actions, NEW accept \in BOOLEAN, Decide(q, a, accept) PROVE Goes(q, {"idle"}, {"run", "cancel"})
  <2>1. helper[q].pc = "idle" /\ helper' = [helper EXCEPT ![q] = [Resting EXCEPT !.pc = IF accept THEN "run" ELSE "cancel", !.action = a]]
    BY <1>14 DEF Decide
  <2>2. [Resting EXCEPT !.pc = IF accept THEN "run" ELSE "cancel", !.action = a].pc \in {"run", "cancel"}
    BY DEF Resting
  <2> QED
    BY <2>1, <2>2, RowTaken DEF Goes
<1> QED
  BY <1>2, <1>3, <1>4, <1>5, <1>6, <1>7, <1>8, <1>9, <1>10, <1>11, <1>12, <1>13, <1>14

ActionsOK == \A a \in Actions : ActionOK(a)
RatesOK == \A t \in Tokens : RateOK(t)

\* Everything but the decisions and the deletion of their conversation leaves the actions alone.
LEMMA ActionStep == AsTypeOK /\ HelpersOK /\ ActionsOK /\ [AsNext]_asVars => ActionsOK'
<1> SUFFICES ASSUME AsTypeOK, HelpersOK, ActionsOK, [AsNext]_asVars, NEW a \in Actions PROVE ActionOK(a)'
  BY DEF ActionsOK
<1>0. ActionOK(a)
  BY DEF ActionsOK
<1>1. ASSUME NEW q \in Helpers, NEW from, NEW to, Goes(q, from, to),
             (from \cup to) \cap {"run", "cancel", "done", "failed"} = {}, UNCHANGED <<pending, effects, consent, blurred>>
      PROVE  ActionOK(a)'
  <2>1. \A p \in Helpers : helper'[p] = helper[p] \/ (~Decides(helper[p], a) /\ ~Decides(helper'[p], a))
    BY <1>1 DEF Goes, Decides
  <2> QED
    BY <1>0, <1>1, <2>1, ActionRest
<1>2. ASSUME NEW q \in Helpers, \/ StartAsk(q) \/ CountCall(q) \/ Answer(q) \/ LoadSettings(q) \/ SaveSettings(q)
                                \/ RevokeAll(q) \/ CheckToken(q) \/ CreateToken(q) \/ \E t \in Tokens : EnterConnector(q, t)
      PROVE  ActionOK(a)'
  <2>1. UNCHANGED <<pending, effects, consent, blurred>>
    BY <1>2 DEF StartAsk, CountCall, Answer, LoadSettings, SaveSettings, RevokeAll, CheckToken, CreateToken, EnterConnector
  <2>2. \/ Goes(q, {"idle"}, {"asking"}) \/ Goes(q, {"rate"}, {"idle", "asking"}) \/ Goes(q, {"asking"}, {"idle"})
        \/ Goes(q, {"idle"}, {"save"}) \/ Goes(q, {"save"}, {"idle", "revokeAll"}) \/ Goes(q, {"revokeAll"}, {"idle"})
        \/ Goes(q, {"idle"}, {"create"}) \/ Goes(q, {"create"}, {"idle"}) \/ Goes(q, {"idle"}, {"rate"})
    BY <1>2, Places
  <2> QED
    BY <1>1, <2>1, <2>2
<1>5. ASSUME NEW q \in Helpers, NEW b \in Actions, Propose(q, b) PROVE ActionOK(a)'
  <2>1. CASE a # b
    BY <1>0, <1>5, <2>1, ActionRest DEF Propose
  <2>2. CASE a = b
    <3>1. pending[a] = "none" /\ pending'[a] = "pending" /\ UNCHANGED <<helper, effects, consent, blurred>>
      BY <1>5, <2>2 DEF Propose, AsTypeOK
    <3>2. Deciding(a)' = Deciding(a) /\ AtHand(a)' = AtHand(a) /\ (Took(a)' <=> Took(a))
      BY <3>1 DEF Deciding, AtHand, Took
    <3> QED
      BY <1>0, <3>1, <3>2 DEF ActionOK
  <2> QED
    BY <2>1, <2>2
<1>6. ASSUME NEW q \in Helpers, NEW b \in Actions, NEW accept \in BOOLEAN, Decide(q, b, accept) PROVE ActionOK(a)'
  <2>1. CASE a # b
    <3>1. /\ pending' = pending /\ effects' = effects /\ consent \subseteq consent' /\ blurred \subseteq blurred'
          /\ \A p \in Helpers : helper'[p] = helper[p] \/ (~Decides(helper[p], a) /\ ~Decides(helper'[p], a))
      BY <1>6, <2>1 DEF Decide, AsTypeOK, Decides, Resting
    <3> QED
      BY <1>0, <3>1, ActionRest
  <2>2. CASE a = b
    BY <1>0, <1>6, <2>2, ActionDecided
  <2> QED
    BY <2>1, <2>2
<1>7. ASSUME NEW q \in Helpers, CancelAction(q) \/ RunTool(q) \/ SaveAction(q) PROVE ActionOK(a)'
  <2>1. CASE helper[q].action # a
    <3>1. pending'[a] = pending[a] /\ effects'[a] = effects[a] /\ consent' = consent /\ blurred \subseteq blurred'
      BY <1>7, <2>1 DEF CancelAction, RunTool, SaveAction, Saved, AsTypeOK
    <3>2. helper'[q].pc = "idle" \/ helper'[q].action = helper[q].action
      <4>1. helper[q] \in HelperRow /\ \A point : [helper[q] EXCEPT !.pc = point].action = helper[q].action
        BY DEF AsTypeOK, HelperRow
      <4>2. CASE helper' = [helper EXCEPT ![q] = Resting]
        BY <4>2, RowTaken DEF Resting
      <4>3. CASE helper' = [helper EXCEPT ![q] = [helper[q] EXCEPT !.pc = "done"]]
        BY <4>1, <4>3, RowTaken
      <4>4. CASE helper' = [helper EXCEPT ![q] = [helper[q] EXCEPT !.pc = "failed"]]
        BY <4>1, <4>4, RowTaken
      <4> QED
        BY <1>7, <4>2, <4>3, <4>4 DEF CancelAction, RunTool, SaveAction, Rests, Now
    <3>3. \A p \in Helpers : helper'[p] = helper[p] \/ (~Decides(helper[p], a) /\ ~Decides(helper'[p], a))
      <4>1. \A p \in Helpers \ {q} : helper'[p] = helper[p]
        BY <1>7 DEF CancelAction, RunTool, SaveAction, Rests, Now, AsTypeOK
      <4> QED
        BY <2>1, <3>2, <4>1 DEF Decides
    <3> QED
      BY <1>0, <3>1, <3>3, ActionRest
  <2>2. CASE helper[q].action = a
    BY <1>0, <1>7, <2>2, ActionWorked
  <2> QED
    BY <2>1, <2>2
<1>8. CASE NextMinute
  <2>1. \A p \in Helpers : helper'[p] = helper[p] \/ (~Decides(helper[p], a) /\ ~Decides(helper'[p], a))
    BY <1>8 DEF NextMinute, Decides, Resting, AsTypeOK, HelperRow
  <2> QED
    BY <1>0, <1>8, <2>1, ActionRest DEF NextMinute
<1>9. CASE DeleteConversation
  <2>1. /\ helper' = helper /\ effects' = effects /\ consent' = consent
        /\ pending'[a] = (IF pending[a] = "none" THEN "none" ELSE "gone")
        /\ blurred \subseteq blurred' /\ (Deciding(a) # {} => a \in blurred')
    BY <1>9 DEF DeleteConversation
  <2>2. Deciding(a)' = Deciding(a) /\ AtHand(a)' = AtHand(a) /\ (Took(a)' <=> Took(a))
    BY <2>1 DEF Deciding, AtHand, Took
  <2>3. Took(a) => Deciding(a) # {}
    BY DEF Took, Deciding
  <2> QED
    BY <1>0, <2>1, <2>2, <2>3 DEF ActionOK
<1>10. CASE ChangeRights \/ (\E t \in Tokens : RevokeToken(t)) \/ UNCHANGED asVars
  BY <1>0, <1>10, ActionRest DEF ChangeRights, RevokeToken, asVars
<1> QED
  BY <1>2, <1>5, <1>6, <1>7, <1>8, <1>9, <1>10 DEF AsNext

\* Only the changes of the settings and the new tokens touch what the switch promises.
LEMMA SwitchStep == AsTypeOK /\ SwitchOK /\ [AsNext]_asVars => SwitchOK'
<1> SUFFICES ASSUME AsTypeOK, SwitchOK, [AsNext]_asVars PROVE SwitchOK'
  OBVIOUS
<1>1. ASSUME NEW q \in Helpers, NEW from, NEW to, Goes(q, from, to),
             (from \cup to) \cap ChangingPc = {}, UNCHANGED <<mcpOn, wanted, crossed, token>>
      PROVE  SwitchOK'
  <2>1. \A p \in Helpers : helper'[p] = helper[p] \/ {helper[p].pc, helper'[p].pc} \cap ChangingPc = {}
    BY <1>1 DEF Goes
  <2> QED
    BY <1>1, <2>1, SwitchRest DEF Live
<1>2. ASSUME NEW q \in Helpers, \/ StartAsk(q) \/ CountCall(q) \/ Answer(q) \/ CancelAction(q) \/ RunTool(q) \/ SaveAction(q)
                                \/ \E t \in Tokens : EnterConnector(q, t)
                                \/ \E a \in Actions, accept \in BOOLEAN : Decide(q, a, accept)
      PROVE  SwitchOK'
  <2>1. UNCHANGED <<mcpOn, wanted, crossed, token>>
    BY <1>2 DEF StartAsk, CountCall, Answer, CancelAction, RunTool, SaveAction, EnterConnector, Decide
  <2>2. \/ Goes(q, {"idle"}, {"asking"}) \/ Goes(q, {"rate"}, {"idle", "asking"}) \/ Goes(q, {"asking"}, {"idle"})
        \/ Goes(q, {"cancel"}, {"idle"}) \/ Goes(q, {"run"}, {"idle", "done", "failed"}) \/ Goes(q, {"done", "failed"}, {"idle"})
        \/ Goes(q, {"idle"}, {"rate"}) \/ Goes(q, {"idle"}, {"run", "cancel"})
    BY <1>2, Places
  <2> QED
    BY SMTT(30), <1>1, <2>1, <2>2 DEF ChangingPc
<1>6. CASE NextMinute
  <2>1. \A q \in Helpers : helper'[q] = helper[q] \/ {helper[q].pc, helper'[q].pc} \cap ChangingPc = {}
    BY <1>6 DEF NextMinute, Resting, AsTypeOK, HelperRow, ChangingPc
  <2> QED
    BY <1>6, <2>1, SwitchRest DEF NextMinute, Live
<1>7. ASSUME NEW t \in Tokens, RevokeToken(t) PROVE SwitchOK'
  BY <1>7, SwitchRest DEF RevokeToken, Live, AsTypeOK
<1>8. CASE \/ DeleteConversation \/ ChangeRights \/ UNCHANGED asVars
           \/ \E q \in Helpers, a \in Actions : Propose(q, a)
  BY <1>8, SwitchRest DEF DeleteConversation, ChangeRights, asVars, Propose, Live
<1>9. ASSUME NEW q \in Helpers, \/ LoadSettings(q) \/ CheckToken(q)
                                \/ SaveSettings(q) \/ RevokeAll(q) \/ CreateToken(q)
      PROVE  SwitchOK'
  BY <1>9, SwitchTaken, SwitchWorked
<1> QED
  BY <1>2, <1>6, <1>7, <1>8, <1>9 DEF AsNext

\* Only the calls of the connector touch its counter.
LEMMA RateStep == AsTypeOK /\ HelpersOK /\ RatesOK /\ [AsNext]_asVars => RatesOK'
<1> SUFFICES ASSUME AsTypeOK, HelpersOK, RatesOK, [AsNext]_asVars, NEW t \in Tokens PROVE RateOK(t)'
  BY DEF RatesOK
<1>0. RateOK(t)
  BY DEF RatesOK
<1>1. ASSUME NEW q \in Helpers, NEW from, NEW to, Goes(q, from, to), "rate" \notin from \cup to, UNCHANGED <<minute, served>>
      PROVE  RateOK(t)'
  BY <1>0, <1>1, RateRest DEF Goes
<1>2. ASSUME NEW q \in Helpers, \/ StartAsk(q) \/ Answer(q) \/ CancelAction(q) \/ RunTool(q) \/ SaveAction(q)
                                \/ LoadSettings(q) \/ SaveSettings(q) \/ RevokeAll(q) \/ CheckToken(q) \/ CreateToken(q)
                                \/ \E a \in Actions, accept \in BOOLEAN : Decide(q, a, accept)
      PROVE  RateOK(t)'
  <2>1. UNCHANGED <<minute, served>>
    BY <1>2 DEF StartAsk, Answer, CancelAction, RunTool, SaveAction, LoadSettings, SaveSettings, RevokeAll, CheckToken,
       CreateToken, Decide
  <2>2. \/ Goes(q, {"idle"}, {"asking"}) \/ Goes(q, {"asking"}, {"idle"}) \/ Goes(q, {"cancel"}, {"idle"})
        \/ Goes(q, {"run"}, {"idle", "done", "failed"}) \/ Goes(q, {"done", "failed"}, {"idle"}) \/ Goes(q, {"idle"}, {"save"})
        \/ Goes(q, {"save"}, {"idle", "revokeAll"}) \/ Goes(q, {"revokeAll"}, {"idle"}) \/ Goes(q, {"idle"}, {"create"})
        \/ Goes(q, {"create"}, {"idle"}) \/ Goes(q, {"idle"}, {"run", "cancel"})
    BY <1>2, Places
  <2> QED
    BY <1>1, <2>1, <2>2
<1>7. CASE \/ DeleteConversation \/ ChangeRights \/ UNCHANGED asVars
           \/ (\E u \in Tokens : RevokeToken(u)) \/ \E q \in Helpers, a \in Actions : Propose(q, a)
  <2>1. UNCHANGED <<helper, minute, served>>
    BY <1>7 DEF DeleteConversation, ChangeRights, asVars, RevokeToken, Propose
  <2> QED
    BY <1>0, <2>1, RateRest
<1> QED
  BY <1>0, <1>2, <1>7, RateEntered, RateCounted, RateReset DEF AsNext

-----------------------------------------------------------------------------
LEMMA AsInvHolds == AsSpec => [](AsTypeOK /\ HelpersOK /\ ActionsOK /\ SwitchOK /\ RatesOK)
<1>1. ASSUME AsInit PROVE AsTypeOK /\ HelpersOK /\ ActionsOK /\ SwitchOK /\ RatesOK
  <2> USE <1>1 DEF AsInit
  <2>1. AsTypeOK /\ HelpersOK
    <3>1. Resting \in HelperRow
      BY DEF Resting, HelperRow
    <3> QED
      BY <3>1, RowsTaken DEF AsTypeOK, HelpersOK
  <2>2. ActionsOK
    BY DEF ActionsOK, ActionOK, Deciding, AtHand, Took, Resting
  <2>3. SwitchOK
    BY DEF SwitchOK, Changing, Resting, Live
  <2>4. ASSUME NEW t \in Tokens PROVE RateOK(t)
    <3>1. Admitted(t) = {}
      BY DEF Admitted, Resting
    <3>2. Cardinality(Admitted(t)) = 0
      BY <3>1, FS_EmptySet
    <3> QED
      BY <3>2, AdmittedFinite, AsAssumption DEF RateOK
  <2> QED
    BY SMTT(30), <2>1, <2>2, <2>3, <2>4 DEF RatesOK
<1>2. AsTypeOK /\ HelpersOK /\ ActionsOK /\ SwitchOK /\ RatesOK /\ [AsNext]_asVars
      => (AsTypeOK /\ HelpersOK /\ ActionsOK /\ SwitchOK /\ RatesOK)'
  BY AsTypeStep, ActionStep, SwitchStep, RateStep
<1> QED
  BY <1>1, <1>2, PTL DEF AsSpec

\* Whatever requests, confirmations, changes of the settings and deletions overlap: what was prepared
\* takes effect once, after its person confirmed it; the connector that is off has no token left; and
\* it serves no more than its limit and the calls that had read it before.
THEOREM AssistantObeys == AsSpec => []AssistantKept
<1>1. AsTypeOK /\ ActionsOK => ConfirmedOnce
  <2> SUFFICES ASSUME AsTypeOK, ActionsOK, NEW a \in Actions
               PROVE  /\ effects[a] > 0 => a \in consent
                      /\ a \notin blurred =>
                           /\ effects[a] <= 1
                           /\ pending[a] \in {"canceled", "failed"} => effects[a] = 0
                           /\ pending[a] = "done" => effects[a] = 1
    BY DEF ConfirmedOnce
  <2>1. ActionOK(a) /\ (Took(a) => Deciding(a) # {})
    BY DEF ActionsOK, Took, Deciding
  <2> QED
    BY <2>1 DEF ActionOK
<1>2. AsTypeOK /\ SwitchOK => OffMeansOff
  BY DEF SwitchOK, OffMeansOff
<1>3. AsTypeOK /\ RatesOK => RateKept
  <2> SUFFICES ASSUME AsTypeOK, RatesOK, RatePerMin > 0, NEW t \in Tokens
               PROVE  served[t] <= RatePerMin + Cardinality(Helpers) - 1
    BY DEF RateKept
  <2>1. RateOK(t) /\ served[t] \in Nat
    BY DEF RatesOK, AsTypeOK
  <2> QED
    BY <2>1, AdmittedFinite, AsAssumption DEF RateOK
<1>4. AsTypeOK /\ HelpersOK /\ ActionsOK /\ SwitchOK /\ RatesOK => AssistantKept
  BY <1>1, <1>2, <1>3 DEF AssistantKept, ConnectorKept
<1> QED
  BY <1>4, AsInvHolds, PTL

-----------------------------------------------------------------------------
(* Customizations. *)

\* What a row with a proposal has, in the table and as a handler loaded it.
RowOK(row) ==
    /\ row.stage \in {"proposal", "approved", "in_progress", "delivered"} => row.offer # 0
    /\ row.stage \in {"approved", "in_progress", "delivered"} => row.approved = row.offer

\* What became of a proposal: its note is in the ticket or about to be, or will never be.
Accounted(o) ==
    \/ o \in told \cup inPlace \cup untold
    \/ \E p \in People : hand[p].pc = "note" /\ hand[p].to = "proposal" /\ hand[p].row.offer = o

SavingPc == {"update", "approve", "approving", "cancel"}
HandOK(p) ==
    /\ hand[p].row.offer <= offers
    /\ hand[p].pc \in SavingPc => RowOK(hand[p].row)
    /\ hand[p].pc = "update" => hand[p].to = hand[p].row.stage \/ hand[p].to \in StaffMoves[hand[p].row.stage]
    /\ hand[p].pc \in {"approve", "approving"} => hand[p].row.stage = "proposal"
    /\ hand[p].pc = "cancel" => hand[p].row.stage \in Cancelable
    /\ hand[p].pc = "note" /\ hand[p].to = "proposal" => hand[p].row.offer # 0

RequestOK ==
    /\ RowOK(req) /\ req.offer <= offers
    /\ \A o \in 1 .. offers : Accounted(o)
    /\ \A p \in People : HandOK(p)

\* While no handlers crossed, the one at work saves over the row it loaded, and answers what it saw.
WordPc == {"after_note", "after_reply", "approving", "answered"}
Answers ==
    /\ ticket = "waiting_client" => lastWord # "office" \/ req.approved # 0
    /\ ticket = "open" => lastWord # "staff"
CalmHand(p) ==
    /\ hand[p].pc \in SavingPc => hand[p].row = req
    /\ hand[p].pc \in {"update", "note", "reply", "after_note", "after_reply"} => hand[p].seen = ticket
    /\ hand[p].pc \in {"after_note", "after_reply"} => lastWord = "staff"
    /\ hand[p].pc \in {"approving", "answered"} => lastWord = "office"
CalmOK ==
    ~upset =>
        /\ \A p \in People : CalmHand(p) /\ \A q \in People \ {p} : hand[p].pc = "idle" \/ hand[q].pc = "idle"
        /\ final # "none" => req.stage = final
        /\ (\A p \in People : hand[p].pc \notin WordPc) => Answers

-----------------------------------------------------------------------------
\* How the row of a handler changes.
LEMMA Went ==
    ASSUME CustTypeOK, NEW p \in People, GoesTo(p, "after_note") \/ GoesTo(p, "after_reply") \/ GoesTo(p, "approving") \/ GoesTo(p, "answered")
    PROVE  /\ hand' \in [People -> HandRow] /\ \A q \in People \ {p} : hand'[q] = hand[q]
           /\ hand'[p].row = hand[p].row /\ hand'[p].seen = hand[p].seen /\ hand'[p].to = hand[p].to
           /\ \A point \in WordPc : GoesTo(p, point) => hand'[p].pc = point
<1>1. PICK point \in WordPc : hand' = [hand EXCEPT ![p] = [hand[p] EXCEPT !.pc = point]]
  BY DEF GoesTo, WordPc
<1>2. hand[p] \in HandRow
  BY DEF CustTypeOK
<1>3. \A x \in WordPc : /\ [hand[p] EXCEPT !.pc = x] \in HandRow /\ [hand[p] EXCEPT !.pc = x].pc = x
                        /\ [hand[p] EXCEPT !.pc = x].row = hand[p].row /\ [hand[p] EXCEPT !.pc = x].seen = hand[p].seen
                        /\ [hand[p] EXCEPT !.pc = x].to = hand[p].to
  <2> HIDE DEF RequestRow
  <2> QED
    BY <1>2 DEF HandRow, WordPc
<1>4. hand'[p] = [hand[p] EXCEPT !.pc = point] /\ \A q \in People \ {p} : hand'[q] = hand[q]
  BY <1>1 DEF CustTypeOK
<1>5. hand' \in [People -> HandRow]
  <2> HIDE DEF HandRow
  <2> QED
    BY <1>1, <1>3 DEF CustTypeOK
<1>6. ASSUME NEW x \in WordPc, GoesTo(p, x) PROVE hand'[p].pc = x
  <2>1. hand'[p] = [hand[p] EXCEPT !.pc = x]
    BY <1>6 DEF GoesTo, CustTypeOK
  <2> QED
    BY <1>3, <2>1
<1> QED
  BY <1>3, <1>4, <1>5, <1>6

LEMMA LetGo ==
    ASSUME CustTypeOK, CustomizationAssumption, NEW p \in People, LetsGo(p)
    PROVE  /\ hand' \in [People -> HandRow] /\ \A q \in People \ {p} : hand'[q] = hand[q]
           /\ hand'[p].pc = "idle" /\ hand'[p].row.offer = 0
<1>1. Free \in HandRow /\ Free.pc = "idle" /\ Free.row.offer = 0
  BY CustomizationAssumption DEF Free, HandRow, RequestRow, Stages, TicketStatus
<1> QED
  BY <1>1 DEF LetsGo, CustTypeOK

LEMMA Loaded ==
    ASSUME CustTypeOK, NEW p \in People, NEW to \in Stages,
           NEW point \in {"update", "reply", "approve", "cancel", "answer"}, Loads(p, point, to)
    PROVE  /\ hand' \in [People -> HandRow] /\ \A q \in People \ {p} : hand'[q] = hand[q]
           /\ hand[p].pc = "idle"
           /\ hand'[p].pc = point /\ hand'[p].row = req /\ hand'[p].seen = ticket /\ hand'[p].to = to
<1>1. [pc |-> point, row |-> req, seen |-> ticket, to |-> to] \in HandRow
  BY DEF CustTypeOK, HandRow
<1> QED
  BY <1>1 DEF Loads, CustTypeOK

LEMMA SavedHand ==
    ASSUME CustTypeOK, NEW p \in People, StaffSaves(p), offers' \in 0 .. MaxOffers
    PROVE  /\ hand' \in [People -> HandRow] /\ \A q \in People \ {p} : hand'[q] = hand[q]
           /\ hand'[p].pc = IF hand[p].to \in {"proposal", "declined", "delivered"} /\ hand[p].to # hand[p].row.stage
                            THEN "note" ELSE "idle"
           /\ hand'[p].seen = hand[p].seen /\ hand'[p].to = hand[p].to
           /\ hand'[p].row.offer = IF hand[p].to = "proposal" THEN offers + 1 ELSE hand[p].row.offer
<1> DEFINE point == IF hand[p].to \in {"proposal", "declined", "delivered"} /\ hand[p].to # hand[p].row.stage THEN "note" ELSE "idle"
           o == IF hand[p].to = "proposal" THEN offers + 1 ELSE hand[p].row.offer
<1>1. hand' = [hand EXCEPT ![p].pc = point, ![p].row.offer = o]
  BY DEF StaffSaves
<1>2. point \in {"note", "idle"} /\ o \in 0 .. MaxOffers
  <2>1. hand[p] \in HandRow /\ hand[p].row \in RequestRow
    BY DEF CustTypeOK, HandRow
  <2>2. hand[p].row.offer \in 0 .. MaxOffers
    BY <2>1 DEF RequestRow
  <2>3. hand[p].to = "proposal" => offers' = offers + 1
    BY DEF StaffSaves
  <2> QED
    BY <2>2, <2>3
<1> HIDE DEF point, o
<1>3. hand'[p] = [hand[p] EXCEPT !.pc = point, !.row.offer = o] /\ \A q \in People \ {p} : hand'[q] = hand[q]
  BY <1>1 DEF CustTypeOK
<1>4. hand[p] \in HandRow
  BY DEF CustTypeOK
<1>5. hand'[p] \in HandRow /\ hand'[p].pc = point /\ hand'[p].seen = hand[p].seen /\ hand'[p].to = hand[p].to /\ hand'[p].row.offer = o
  <2>1. [hand[p].row EXCEPT !.offer = o] \in RequestRow /\ [hand[p].row EXCEPT !.offer = o].offer = o
    BY <1>2, <1>4 DEF HandRow, RequestRow
  <2>2. hand'[p] = [hand[p] EXCEPT !.pc = point, !.row = [hand[p].row EXCEPT !.offer = o]]
    BY <1>3, <1>4 DEF HandRow
  <2> HIDE DEF RequestRow
  <2> QED
    BY <1>2, <1>4, <2>1, <2>2 DEF HandRow
<1>6. hand' \in [People -> HandRow]
  <2> HIDE DEF HandRow
  <2> QED
    BY <1>1, <1>3, <1>5 DEF CustTypeOK
<1> QED
  BY <1>3, <1>5, <1>6 DEF point, o

\* What the handlers save.
LEMMA StaffSaved ==
    ASSUME CustTypeOK, CustomizationAssumption, NEW p \in People, StaffSaves(p)
    PROVE  /\ req' \in RequestRow /\ req'.stage = hand[p].to /\ req'.approved = hand[p].row.approved
           /\ offers' \in 0 .. MaxOffers /\ inPlace' \subseteq 1 .. MaxOffers
           /\ \/ /\ hand[p].to = "proposal" /\ req'.offer = offers + 1 /\ offers' = offers + 1
                 /\ inPlace' = IF hand[p].row.stage = "proposal" THEN inPlace \cup {offers + 1} ELSE inPlace
              \/ /\ hand[p].to # "proposal" /\ req'.offer = hand[p].row.offer
                 /\ offers' = offers /\ inPlace' = inPlace
<1>1. hand[p].row \in RequestRow /\ hand[p].to \in Stages /\ hand[p].row.offer \in 0 .. MaxOffers
  BY DEF CustTypeOK, HandRow, RequestRow
<1>2. CASE hand[p].to = "proposal"
  <2>1. offers' = offers + 1 /\ offers' \in 1 .. MaxOffers
    BY <1>2, CustomizationAssumption DEF StaffSaves, CustTypeOK
  <2>2. inPlace' = IF hand[p].row.stage = "proposal" THEN inPlace \cup {offers + 1} ELSE inPlace
    BY <1>2 DEF StaffSaves
  <2>3. req' = [hand[p].row EXCEPT !.stage = hand[p].to, !.offer = offers + 1]
    BY <1>2 DEF StaffSaves, StaffRow
  <2>4. offers + 1 \in 0 .. MaxOffers
    BY <2>1
  <2>5. req' \in RequestRow /\ req'.stage = hand[p].to /\ req'.offer = offers + 1 /\ req'.approved = hand[p].row.approved
    BY <1>1, <2>3, <2>4 DEF RequestRow
  <2> QED
    BY <1>2, <2>1, <2>2, <2>5 DEF CustTypeOK
<1>3. CASE hand[p].to # "proposal"
  <2>1. req' = [hand[p].row EXCEPT !.stage = hand[p].to, !.offer = hand[p].row.offer] /\ UNCHANGED <<offers, inPlace>>
    BY <1>3 DEF StaffSaves, StaffRow
  <2>2. /\ req' \in RequestRow /\ req'.stage = hand[p].to /\ req'.offer = hand[p].row.offer
        /\ req'.approved = hand[p].row.approved
    BY <1>1, <2>1 DEF RequestRow
  <2> QED
    BY <1>3, <2>1, <2>2 DEF CustTypeOK
<1> QED
  BY <1>2, <1>3

LEMMA ClientSaved ==
    ASSUME CustTypeOK, CustomizationAssumption, NEW p \in People
    PROVE  /\ ClientSaves(p) => /\ req' \in RequestRow /\ req'.stage = "approved" /\ req'.offer = hand[p].row.offer
                                /\ req'.approved = hand[p].row.offer
           /\ ClientCanceled(p) => /\ req' \in RequestRow /\ req'.stage = "canceled" /\ req'.offer = hand[p].row.offer
                                   /\ req'.approved = hand[p].row.approved
<1>1. hand[p].row \in RequestRow /\ hand[p].row.offer \in 0 .. MaxOffers /\ {"approved", "canceled"} \subseteq Stages
  BY DEF CustTypeOK, HandRow, RequestRow, Stages
<1>2. ASSUME ClientSaves(p)
      PROVE  req' \in RequestRow /\ req'.stage = "approved" /\ req'.offer = hand[p].row.offer /\ req'.approved = hand[p].row.offer
  <2>1. req' = [hand[p].row EXCEPT !.stage = "approved", !.approved = hand[p].row.offer]
    BY <1>2 DEF ClientSaves
  <2> QED
    BY <1>1, <2>1 DEF RequestRow
<1>3. ASSUME ClientCanceled(p)
      PROVE  req' \in RequestRow /\ req'.stage = "canceled" /\ req'.offer = hand[p].row.offer /\ req'.approved = hand[p].row.approved
  <2>1. req' = [hand[p].row EXCEPT !.stage = "canceled"]
    BY <1>3 DEF ClientCanceled
  <2> QED
    BY <1>1, <2>1 DEF RequestRow
<1> QED
  BY <1>2, <1>3

LEMMA CustTypeStep == CustTypeOK /\ RequestOK /\ [CustNext]_custVars => CustTypeOK'
<1> SUFFICES ASSUME CustTypeOK, RequestOK, [CustNext]_custVars PROVE CustTypeOK'
  OBVIOUS
<1>0. CustTypeOK /\ CustomizationAssumption /\ (\A p \in People : hand[p] \in HandRow /\ HandOK(p))
  BY CustomizationAssumption DEF CustTypeOK, RequestOK
<1>1. ASSUME NEW p \in People, hand[p] \in HandRow
      PROVE  hand[p].row.offer \in 0 .. MaxOffers /\ hand[p].seen \in TicketStatus /\ hand[p].to \in Stages
  BY <1>1 DEF HandRow, RequestRow
<1>2. ASSUME NEW p \in People, NEW to \in Stages, NEW point \in {"update", "reply", "approve", "cancel", "answer"}, Loads(p, point, to)
      PROVE  CustTypeOK'
  <2>1. hand' \in [People -> HandRow]
    BY <1>2, Loaded
  <2>2. turns' \in 0 .. MaxTurns /\ upset' \in BOOLEAN /\ UNCHANGED <<req, ticket, offers, told, lastWord, inPlace, untold, final>>
    BY <1>2, CustomizationAssumption DEF Loads, CustTypeOK
  <2> QED
    BY <2>1, <2>2 DEF CustTypeOK
<1>3. ASSUME NEW p \in People, NEW to \in Stages, StaffTakes(p, to) PROVE CustTypeOK'
  BY <1>2, <1>3 DEF StaffTakes
<1>4. ASSUME NEW p \in People, StaffReplies(p) \/ ClientApproves(p) \/ ClientCancels(p) \/ ClientReplies(p) PROVE CustTypeOK'
  <2>1. {"received", "approved", "canceled"} \subseteq Stages
    BY DEF Stages
  <2> QED
    BY <1>2, <1>4, <2>1 DEF StaffReplies, ClientApproves, ClientCancels, ClientReplies
<1>5. ASSUME NEW p \in People, StaffSaves(p) PROVE CustTypeOK'
  <2>1. req' \in RequestRow /\ offers' \in 0 .. MaxOffers /\ inPlace' \subseteq 1 .. MaxOffers
    BY <1>0, <1>5, StaffSaved
  <2>2. hand' \in [People -> HandRow]
    BY <1>5, <2>1, SavedHand
  <2>3. final' \in {"none", "delivered", "declined", "canceled"} /\ UNCHANGED <<ticket, turns, told, lastWord, untold, upset>>
    BY <1>5 DEF StaffSaves, Finishes, CustTypeOK
  <2> QED
    BY <2>1, <2>2, <2>3 DEF CustTypeOK
<1>6. ASSUME NEW p \in People, StaffNotes(p) PROVE CustTypeOK'
  <2>1. hand' \in [People -> HandRow]
    BY <1>0, <1>6, Went, LetGo DEF StaffNotes
  <2>2. /\ UNCHANGED <<req, ticket, offers, turns, inPlace, final, upset>> /\ lastWord' \in {"office", "staff", "by_hand"}
    BY <1>6 DEF StaffNotes, CustTypeOK
  <2>3. told' \subseteq 1 .. MaxOffers /\ untold' \subseteq 0 .. MaxOffers
    <3>1. hand[p].row.offer \in 0 .. MaxOffers /\ (hand[p].to = "proposal" => hand[p].row.offer # 0)
      BY <1>0, <1>1, <1>6 DEF StaffNotes, HandOK
    <3>2. hand[p].to = "proposal" => hand[p].row.offer \in 1 .. MaxOffers
      BY <3>1, CustomizationAssumption
    <3> QED
      BY <1>6, <3>1, <3>2 DEF StaffNotes, CustTypeOK
  <2> QED
    BY <2>1, <2>2, <2>3 DEF CustTypeOK
<1>7. ASSUME NEW p \in People, StaffWaits(p) \/ StaffReplied(p) \/ ClientAnswered(p) PROVE CustTypeOK'
  <2>1. hand' \in [People -> HandRow]
    BY <1>0, <1>7, LetGo DEF StaffWaits, StaffReplied, ClientAnswered
  <2>2. ticket' \in TicketStatus /\ UNCHANGED <<req, offers, turns, told, lastWord, inPlace, untold, final, upset>>
    BY <1>0, <1>1, <1>7 DEF StaffWaits, StaffReplied, ClientAnswered, Answered, CustTypeOK, TicketStatus
  <2> QED
    BY <2>1, <2>2 DEF CustTypeOK
<1>8. ASSUME NEW p \in People, StaffSpeaks(p) \/ ClientSaysYes(p) \/ ClientSpeaks(p) PROVE CustTypeOK'
  <2>1. hand' \in [People -> HandRow]
    BY <1>0, <1>8, Went DEF StaffSpeaks, ClientSaysYes, ClientSpeaks
  <2> QED
    BY <1>8, <2>1 DEF StaffSpeaks, ClientSaysYes, ClientSpeaks, CustTypeOK
<1>9. ASSUME NEW p \in People, ClientSaves(p) \/ ClientCanceled(p) PROVE CustTypeOK'
  <2>1. hand' \in [People -> HandRow]
    BY <1>0, <1>9, LetGo DEF ClientSaves, ClientCanceled
  <2>2. req' \in RequestRow
    BY <1>0, <1>9, ClientSaved
  <2>3. final' \in {"none", "delivered", "declined", "canceled"} /\ UNCHANGED <<ticket, offers, turns, told, lastWord, inPlace, untold, upset>>
    BY <1>9 DEF ClientSaves, ClientCanceled, Finishes, CustTypeOK
  <2> QED
    BY <2>1, <2>2, <2>3 DEF CustTypeOK
<1>10. ASSUME NEW p \in People, HandlerDies(p) PROVE CustTypeOK'
  <2>1. hand' \in [People -> HandRow]
    BY <1>0, <1>10, LetGo DEF HandlerDies
  <2>2. untold' \subseteq 0 .. MaxOffers
    BY <1>0, <1>1, <1>10 DEF HandlerDies, CustTypeOK
  <2> QED
    BY <1>10, <2>1, <2>2 DEF HandlerDies, CustTypeOK
<1>11. ASSUME NEW status \in TicketStatus, SetsStatus(status) PROVE CustTypeOK'
  <2>1. turns' \in 0 .. MaxTurns
    BY <1>11, CustomizationAssumption DEF SetsStatus, CustTypeOK
  <2> QED
    BY <1>11, <2>1 DEF SetsStatus, CustTypeOK
<1>12. CASE UNCHANGED custVars
  BY <1>12 DEF custVars, CustTypeOK
<1> QED
  BY <1>3, <1>4, <1>5, <1>6, <1>7, <1>8, <1>9, <1>10, <1>11, <1>12 DEF CustNext

-----------------------------------------------------------------------------
\* A step of one handler keeps the request right when its own row and its own note are.
LEMMA RequestNext ==
    ASSUME CustTypeOK, CustTypeOK', RequestOK, NEW p \in People, \A q \in People \ {p} : hand'[q] = hand[q],
           HandOK(p)', RowOK(req)', req'.offer <= offers', offers <= offers',
           told \subseteq told', inPlace \subseteq inPlace', untold \subseteq untold',
           hand[p].pc = "note" /\ hand[p].to = "proposal" => hand[p].row.offer \in told' \cup inPlace' \cup untold',
           \A o \in 1 .. offers' : o <= offers \/ Accounted(o)'
    PROVE  RequestOK'
<1>1. ASSUME NEW q \in People PROVE HandOK(q)'
  <2>1. CASE q # p
    <3>1. HandOK(q) /\ hand'[q] = hand[q]
      BY <2>1 DEF RequestOK
    <3>2. hand[q].row.offer \in Int /\ offers \in Int /\ offers' \in Int
      BY DEF CustTypeOK, HandRow, RequestRow
    <3> QED
      BY <3>1, <3>2 DEF HandOK
  <2> QED
    BY <2>1
<1>2. ASSUME NEW o \in 1 .. offers' PROVE Accounted(o)'
  <2>1. CASE o <= offers
    <3>1. Accounted(o)
      BY <2>1 DEF RequestOK, CustTypeOK
    <3> QED
      BY <3>1 DEF Accounted
  <2> QED
    BY <2>1
<1> QED
  BY <1>1, <1>2 DEF RequestOK

LEMMA RequestMoves == CustTypeOK /\ CustTypeOK' /\ RequestOK /\ [CustNext]_custVars => RequestOK'
<1> SUFFICES ASSUME CustTypeOK, CustTypeOK', RequestOK, [CustNext]_custVars PROVE RequestOK'
  OBVIOUS
<1>0. /\ CustTypeOK /\ CustomizationAssumption /\ RowOK(req) /\ req.offer <= offers /\ offers \in Nat /\ offers' \in Nat
      /\ req.offer \in Nat /\ req'.offer \in Nat
      /\ \A p \in People : hand[p] \in HandRow /\ HandOK(p)
  BY CustomizationAssumption DEF CustTypeOK, RequestOK, RequestRow
<1>1. ASSUME NEW p \in People
      PROVE  hand[p].row.offer \in Nat /\ hand[p].row \in RequestRow /\ hand[p].to \in Stages /\ hand[p].row.stage \in Stages
  BY <1>0 DEF HandRow, RequestRow
<1>2. ASSUME NEW p \in People, NEW to \in Stages, NEW point \in {"update", "reply", "approve", "cancel", "answer"}, Loads(p, point, to),
             point = "update" => to = req.stage \/ to \in StaffMoves[req.stage],
             point = "approve" => req.stage = "proposal", point = "cancel" => req.stage \in Cancelable
      PROVE  RequestOK'
  <2>1. UNCHANGED <<req, offers, told, inPlace, untold>>
    BY <1>2 DEF Loads
  <2>2. /\ \A q \in People \ {p} : hand'[q] = hand[q]
        /\ hand[p].pc = "idle" /\ hand'[p].pc = point /\ hand'[p].row = req /\ hand'[p].to = to
    BY <1>2, Loaded
  <2>3. HandOK(p)'
    BY <1>0, <1>2, <2>1, <2>2 DEF HandOK
  <2> QED
    BY <1>0, <2>1, <2>2, <2>3, RequestNext
<1>3. ASSUME NEW p \in People, NEW to \in Stages, StaffTakes(p, to) PROVE RequestOK'
  BY <1>2, <1>3 DEF StaffTakes
<1>4. ASSUME NEW p \in People, StaffReplies(p) \/ ClientApproves(p) \/ ClientCancels(p) \/ ClientReplies(p) PROVE RequestOK'
  <2>1. {"received", "approved", "canceled"} \subseteq Stages
    BY DEF Stages
  <2> QED
    BY <1>2, <1>4, <2>1 DEF StaffReplies, ClientApproves, ClientCancels, ClientReplies
<1>5. ASSUME NEW p \in People, hand[p].pc \in {"note", "after_note", "after_reply", "answered", "approving", "cancel"}, LetsGo(p),
             offers' = offers, told \subseteq told', inPlace' = inPlace, untold \subseteq untold',
             hand[p].pc = "note" /\ hand[p].to = "proposal" => hand[p].row.offer \in told' \cup inPlace' \cup untold',
             RowOK(req)', req'.offer <= offers
      PROVE  RequestOK'
  <2>1. (\A q \in People \ {p} : hand'[q] = hand[q]) /\ hand'[p].pc = "idle" /\ hand'[p].row.offer = 0
    BY <1>0, <1>5, LetGo
  <2>2. HandOK(p)'
    BY <1>0, <1>5, <2>1 DEF HandOK, SavingPc
  <2> QED
    BY <1>0, <1>5, <2>1, <2>2, RequestNext
<1>6. ASSUME NEW p \in People, StaffSaves(p) PROVE RequestOK'
  <2>1. hand[p].pc = "update" /\ HandOK(p) /\ UNCHANGED <<told, untold>>
    BY <1>0, <1>6 DEF StaffSaves
  <2>2. /\ req'.stage = hand[p].to /\ req'.approved = hand[p].row.approved /\ offers' \in 0 .. MaxOffers
        /\ \/ /\ hand[p].to = "proposal" /\ req'.offer = offers + 1 /\ offers' = offers + 1
              /\ inPlace' = IF hand[p].row.stage = "proposal" THEN inPlace \cup {offers + 1} ELSE inPlace
           \/ /\ hand[p].to # "proposal" /\ req'.offer = hand[p].row.offer
              /\ offers' = offers /\ inPlace' = inPlace
    BY <1>0, <1>6, StaffSaved
  <2>3. /\ \A q \in People \ {p} : hand'[q] = hand[q]
        /\ hand'[p].pc = IF hand[p].to \in {"proposal", "declined", "delivered"} /\ hand[p].to # hand[p].row.stage
                         THEN "note" ELSE "idle"
        /\ hand'[p].to = hand[p].to
        /\ hand'[p].row.offer = IF hand[p].to = "proposal" THEN offers + 1 ELSE hand[p].row.offer
    BY <1>6, <2>2, SavedHand
  <2>4. RowOK(hand[p].row) /\ (hand[p].to = hand[p].row.stage \/ hand[p].to \in StaffMoves[hand[p].row.stage])
        /\ hand[p].row.offer <= offers
    BY <2>1 DEF HandOK, SavingPc
  <2>5. /\ hand[p].to \in {"approved", "in_progress", "delivered"} => hand[p].row.stage \in {"approved", "in_progress", "delivered"}
    BY <1>1, <2>4 DEF StaffMoves, Stages
  <2>6. RowOK(req)'
    BY <1>0, <2>2, <2>4, <2>5 DEF RowOK
  <2>7. HandOK(p)'
    BY <1>0, <1>1, <2>2, <2>3, <2>4 DEF HandOK, SavingPc
  <2>8. ASSUME NEW o \in 1 .. offers', ~(o <= offers) PROVE Accounted(o)'
    <3>1. hand[p].to = "proposal" /\ o = offers + 1
      BY <1>0, <2>2, <2>8
    <3>2. \/ o \in inPlace'
          \/ hand'[p].pc = "note" /\ hand'[p].to = "proposal" /\ hand'[p].row.offer = o
      BY <2>2, <2>3, <3>1
    <3> QED
      BY <3>2 DEF Accounted
  <2> QED
    BY <1>0, <1>1, <2>1, <2>2, <2>3, <2>4, <2>6, <2>7, <2>8, RequestNext
<1>7. ASSUME NEW p \in People, NEW point \in WordPc, GoesTo(p, point), UNCHANGED <<req, offers, inPlace, untold>>, told \subseteq told',
             point = "approving" => hand[p].pc = "approve",
             hand[p].pc = "note" /\ hand[p].to = "proposal" => hand[p].row.offer \in told'
      PROVE  RequestOK'
  <2>1. /\ \A q \in People \ {p} : hand'[q] = hand[q]
        /\ hand'[p].row = hand[p].row /\ hand'[p].to = hand[p].to /\ hand'[p].pc = point
    BY <1>7, Went DEF WordPc
  <2>2. HandOK(p)'
    BY <1>0, <1>7, <2>1 DEF HandOK, SavingPc, WordPc
  <2> QED
    BY <1>0, <1>7, <2>1, <2>2, RequestNext
<1>8. ASSUME NEW p \in People, StaffNotes(p) PROVE RequestOK'
  <2>1. CASE hand[p].seen = "closed"
    BY <1>0, <1>5, <1>8, <2>1 DEF StaffNotes
  <2>2. CASE hand[p].seen # "closed"
    BY <1>7, <1>8, <2>2 DEF StaffNotes, WordPc
  <2> QED
    BY <2>1, <2>2
<1>9. ASSUME NEW p \in People, StaffSpeaks(p) \/ ClientSaysYes(p) \/ ClientSpeaks(p) PROVE RequestOK'
  BY <1>7, <1>9 DEF StaffSpeaks, ClientSaysYes, ClientSpeaks, WordPc
<1>10. ASSUME NEW p \in People, StaffWaits(p) \/ StaffReplied(p) \/ ClientAnswered(p) PROVE RequestOK'
  BY <1>0, <1>5, <1>10 DEF StaffWaits, StaffReplied, ClientAnswered
<1>11. ASSUME NEW p \in People, ClientSaves(p) \/ ClientCanceled(p) PROVE RequestOK'
  <2>1. HandOK(p) /\ hand[p].pc \in {"approving", "cancel"} /\ UNCHANGED <<offers, told, inPlace, untold>> /\ LetsGo(p)
    BY <1>0, <1>11 DEF ClientSaves, ClientCanceled
  <2>2. \/ req'.stage = "approved" /\ req'.offer = hand[p].row.offer /\ req'.approved = hand[p].row.offer /\ hand[p].pc = "approving"
        \/ req'.stage = "canceled" /\ req'.offer = hand[p].row.offer
    <3>1. ClientSaves(p) => hand[p].pc = "approving"
      BY DEF ClientSaves
    <3> QED
      BY <1>0, <1>11, <3>1, ClientSaved
  <2>3. RowOK(req)' /\ req'.offer <= offers
    BY <2>1, <2>2 DEF HandOK, RowOK, SavingPc
  <2> QED
    BY <1>5, <2>1, <2>3
<1>12. ASSUME NEW p \in People, HandlerDies(p) PROVE RequestOK'
  BY <1>0, <1>5, <1>12 DEF HandlerDies
<1>13. CASE UNCHANGED <<req, hand, offers, told, inPlace, untold>>
  BY <1>13 DEF RequestOK, HandOK, Accounted
<1>14. CASE \E status \in TicketStatus : SetsStatus(status)
  BY <1>13, <1>14 DEF SetsStatus
<1>15. CASE UNCHANGED custVars
  BY <1>13, <1>15 DEF custVars
<1> QED
  BY <1>3, <1>4, <1>6, <1>8, <1>9, <1>10, <1>11, <1>12, <1>14, <1>15 DEF CustNext

-----------------------------------------------------------------------------
\* A step of the only handler at work.
LEMMA CalmNext ==
    ASSUME NEW p \in People, \A q \in People \ {p} : hand'[q] = hand[q] /\ hand[q].pc = "idle",
           CalmHand(p)', final' # "none" => req'.stage = final', hand'[p].pc \notin WordPc => Answers'
    PROVE  CalmOK'
<1>1. \A q \in People \ {p} : CalmHand(q)'
  BY DEF CalmHand, SavingPc
<1> QED
  BY <1>1 DEF CalmOK, WordPc

LEMMA CalmStep == CustTypeOK /\ CustTypeOK' /\ RequestOK /\ CalmOK /\ [CustNext]_custVars => CalmOK'
<1> SUFFICES ASSUME CustTypeOK, CustTypeOK', RequestOK, CalmOK, [CustNext]_custVars, ~upset' PROVE CalmOK'
  BY DEF CalmOK
<1>0. /\ CustomizationAssumption /\ ~upset
      /\ \A p \in People : hand[p] \in HandRow /\ HandOK(p)
  <2>1. ~upset
    BY DEF CustNext, custVars, StaffTakes, Loads, StaffSaves, StaffNotes, StaffWaits, StaffReplies, StaffSpeaks, StaffReplied,
       ClientApproves, ClientSaysYes, ClientSaves, ClientCancels, ClientCanceled, ClientReplies, ClientSpeaks, ClientAnswered,
       HandlerDies, SetsStatus
  <2> QED
    BY SMTT(30), <2>1, CustomizationAssumption DEF CustTypeOK, RequestOK
<1>1. ASSUME NEW p \in People, hand[p].pc # "idle"
      PROVE  /\ \A q \in People \ {p} : hand[q].pc = "idle"
             /\ CalmHand(p) /\ (final # "none" => req.stage = final)
             /\ hand[p].pc \notin WordPc => Answers
  BY <1>0, <1>1 DEF CalmOK, WordPc
<1>2. ASSUME NEW p \in People, NEW to \in Stages, NEW point \in {"update", "reply", "approve", "cancel", "answer"}, Loads(p, point, to)
      PROVE  CalmOK'
  <2>1. UNCHANGED <<req, ticket, lastWord, final>> /\ \A q \in People \ {p} : hand[q].pc = "idle"
    BY <1>2 DEF Loads
  <2>2. /\ \A q \in People \ {p} : hand'[q] = hand[q]
        /\ hand[p].pc = "idle" /\ hand'[p].pc = point /\ hand'[p].row = req /\ hand'[p].seen = ticket
    BY <1>2, Loaded
  <2>3. CalmHand(p)'
    BY <2>1, <2>2 DEF CalmHand
  <2>4. Answers /\ (final # "none" => req.stage = final)
    BY <1>0, <2>1, <2>2 DEF CalmOK, WordPc
  <2>5. Answers'
    BY <2>1, <2>4 DEF Answers
  <2> QED
    BY <2>1, <2>2, <2>3, <2>4, <2>5, CalmNext
<1>3. ASSUME NEW p \in People, NEW to \in Stages, StaffTakes(p, to) PROVE CalmOK'
  BY <1>2, <1>3 DEF StaffTakes
<1>4. ASSUME NEW p \in People, StaffReplies(p) \/ ClientApproves(p) \/ ClientCancels(p) \/ ClientReplies(p) PROVE CalmOK'
  <2>1. {"received", "approved", "canceled"} \subseteq Stages
    BY DEF Stages
  <2> QED
    BY <1>2, <1>4, <2>1 DEF StaffReplies, ClientApproves, ClientCancels, ClientReplies
<1>5. ASSUME NEW p \in People, LetsGo(p), hand[p].pc # "idle", final' # "none" => req'.stage = final', Answers' PROVE CalmOK'
  <2>1. (\A q \in People \ {p} : hand'[q] = hand[q]) /\ hand'[p].pc = "idle"
    BY <1>0, <1>5, LetGo
  <2>2. CalmHand(p)'
    BY <2>1 DEF CalmHand, SavingPc
  <2> QED
    BY <1>1, <1>5, <2>1, <2>2, CalmNext
<1>6. ASSUME NEW p \in People, StaffSaves(p) PROVE CalmOK'
  <2>1. hand[p].pc = "update" /\ UNCHANGED <<ticket, lastWord>> /\ HandOK(p)
    BY <1>0, <1>6 DEF StaffSaves
  <2>2. req'.stage = hand[p].to /\ req'.approved = hand[p].row.approved /\ offers' \in 0 .. MaxOffers
    BY <1>0, <1>6, StaffSaved
  <2>3. /\ \A q \in People \ {p} : hand'[q] = hand[q]
        /\ hand'[p].pc \in {"note", "idle"} /\ hand'[p].seen = hand[p].seen
    BY <1>6, <2>2, SavedHand
  <2>4. hand[p].row = req /\ (hand[p].to = req.stage \/ hand[p].to \in StaffMoves[req.stage]) /\ Answers
        /\ (final # "none" => req.stage = final) /\ \A q \in People \ {p} : hand[q].pc = "idle"
    BY <1>1, <2>1 DEF HandOK, CalmHand, SavingPc, WordPc
  <2>5. req.stage \in {"delivered", "declined", "canceled"} => StaffMoves[req.stage] = {}
    BY DEF StaffMoves, Stages
  <2>6. final' # "none" => req'.stage = final'
    <3>1. final' = IF final = "none" /\ hand[p].to \in {"delivered", "declined", "canceled"} THEN hand[p].to ELSE final
      BY <1>6 DEF StaffSaves, Finishes
    <3>2. final \in {"none", "delivered", "declined", "canceled"}
      BY DEF CustTypeOK
    <3> QED
      BY <2>2, <2>4, <2>5, <3>1, <3>2
  <2>7. Answers'
    BY <2>1, <2>2, <2>4 DEF Answers
  <2>8. CalmHand(p)'
    <3>1. hand[p].seen = ticket
      BY <1>1, <2>1 DEF CalmHand
    <3> QED
      BY <2>1, <2>3, <3>1 DEF CalmHand, SavingPc
  <2>9. \A q \in People \ {p} : hand'[q] = hand[q] /\ hand[q].pc = "idle"
    BY <2>3, <2>4
  <2> QED
    BY <2>6, <2>7, <2>8, <2>9, CalmNext
<1>7. ASSUME NEW p \in People, NEW point \in WordPc, GoesTo(p, point), UNCHANGED <<req, ticket, final>>, hand[p].pc # "idle",
             point \in {"after_note", "after_reply"} => hand[p].pc \in {"note", "reply"} /\ lastWord' = "staff",
             point = "approving" => hand[p].pc = "approve",
             point \in {"approving", "answered"} => lastWord' = "office"
      PROVE  CalmOK'
  <2>1. /\ \A q \in People \ {p} : hand'[q] = hand[q]
        /\ hand'[p].row = hand[p].row /\ hand'[p].seen = hand[p].seen /\ hand'[p].pc = point
    BY <1>7, Went DEF WordPc
  <2>2. CalmHand(p)'
    BY <1>1, <1>7, <2>1 DEF CalmHand, SavingPc, WordPc
  <2> QED
    BY <1>1, <1>7, <2>1, <2>2, CalmNext
<1>8. ASSUME NEW p \in People, StaffNotes(p) PROVE CalmOK'
  <2>1. hand[p].pc = "note" /\ UNCHANGED <<req, ticket, final>>
    BY <1>8 DEF StaffNotes
  <2>2. Answers /\ (final # "none" => req.stage = final)
    BY <1>1, <2>1 DEF WordPc
  <2>3. CASE hand[p].seen = "closed"
    <3>1. LetsGo(p) /\ lastWord' = lastWord
      BY <1>8, <2>3 DEF StaffNotes
    <3>2. Answers'
      BY <2>1, <2>2, <3>1 DEF Answers
    <3> QED
      BY <1>5, <2>1, <2>2, <3>1, <3>2
  <2>4. CASE hand[p].seen # "closed"
    <3>1. GoesTo(p, "after_note") /\ lastWord' = "staff"
      BY <1>8, <2>4 DEF StaffNotes
    <3> QED
      BY <1>7, <2>1, <3>1 DEF WordPc
  <2> QED
    BY <2>3, <2>4
<1>9. ASSUME NEW p \in People, StaffSpeaks(p) PROVE CalmOK'
  BY <1>7, <1>9 DEF StaffSpeaks, WordPc
<1>10. ASSUME NEW p \in People, ClientSaysYes(p) \/ ClientSpeaks(p) PROVE CalmOK'
  BY <1>7, <1>10 DEF ClientSaysYes, ClientSpeaks, WordPc
<1>11. ASSUME NEW p \in People, StaffWaits(p) \/ StaffReplied(p) PROVE CalmOK'
  <2>1. /\ hand[p].pc \in {"after_note", "after_reply"} /\ LetsGo(p) /\ UNCHANGED <<req, lastWord, final>>
        /\ ticket' = "waiting_client" \/ (ticket' = ticket /\ hand[p].seen # "open")
    BY <1>11 DEF StaffWaits, StaffReplied
  <2>2. hand[p].seen = ticket /\ lastWord = "staff" /\ (final # "none" => req.stage = final)
    BY <1>1, <2>1 DEF CalmHand
  <2>3. Answers'
    BY <2>1, <2>2 DEF Answers
  <2> QED
    BY <1>5, <2>1, <2>2, <2>3
<1>12. ASSUME NEW p \in People, ClientAnswered(p) PROVE CalmOK'
  <2>1. /\ hand[p].pc = "answered" /\ LetsGo(p) /\ UNCHANGED <<req, lastWord, final>>
        /\ ticket' # "waiting_client"
    BY <1>12 DEF ClientAnswered, Answered
  <2>2. lastWord = "office" /\ (final # "none" => req.stage = final)
    BY <1>1, <2>1 DEF CalmHand
  <2>3. Answers'
    BY <2>1, <2>2 DEF Answers
  <2> QED
    BY <1>5, <2>1, <2>2, <2>3
<1>13. ASSUME NEW p \in People, ClientSaves(p) \/ ClientCanceled(p) PROVE CalmOK'
  <2>1. /\ hand[p].pc \in {"approving", "cancel"} /\ LetsGo(p) /\ UNCHANGED <<ticket, lastWord>>
        /\ HandOK(p) /\ CalmHand(p) /\ (final # "none" => req.stage = final)
    BY <1>0, <1>1, <1>13 DEF ClientSaves, ClientCanceled
  <2>2. hand[p].row = req /\ RowOK(req) /\ req.stage \notin {"delivered", "declined", "canceled"}
    BY <2>1 DEF HandOK, CalmHand, SavingPc, Cancelable, Stages
  <2>3. final = "none"
    BY <2>1, <2>2 DEF CustTypeOK
  <2>4. CASE ClientSaves(p)
    <3>1. req'.approved = req.offer /\ final' = "none" /\ hand[p].pc = "approving"
      BY <1>0, <2>2, <2>3, <2>4, ClientSaved DEF ClientSaves
    <3>2. req.offer # 0 /\ lastWord = "office"
      BY <2>1, <2>2, <3>1 DEF HandOK, RowOK, CalmHand
    <3>3. Answers'
      BY <2>1, <3>1, <3>2 DEF Answers
    <3> QED
      BY <1>5, <2>1, <3>1, <3>3
  <2>5. CASE ClientCanceled(p)
    <3>1. req'.stage = "canceled" /\ req'.approved = req.approved /\ final' = "canceled" /\ hand[p].pc = "cancel"
      BY <1>0, <2>2, <2>3, <2>5, ClientSaved DEF ClientCanceled, Finishes
    <3>2. Answers
      BY <1>1, <3>1 DEF WordPc
    <3>3. Answers'
      BY <2>1, <3>1, <3>2 DEF Answers
    <3> QED
      BY <1>5, <2>1, <3>1, <3>3
  <2> QED
    BY <1>13, <2>4, <2>5
<1>14. ASSUME NEW p \in People, HandlerDies(p) PROVE CalmOK'
  BY <1>14 DEF HandlerDies
<1>15. ASSUME NEW status \in TicketStatus, SetsStatus(status) PROVE CalmOK'
  <2>1. /\ lastWord' = "by_hand" /\ UNCHANGED <<req, hand, final>> /\ \A q \in People : hand[q].pc = "idle"
    BY <1>15 DEF SetsStatus
  <2>2. final # "none" => req.stage = final
    BY <1>0 DEF CalmOK
  <2>3. Answers'
    BY <2>1 DEF Answers
  <2>4. \A q \in People : CalmHand(q)'
    BY <2>1 DEF CalmHand, SavingPc
  <2> QED
    BY <2>1, <2>2, <2>3, <2>4 DEF CalmOK
<1>16. CASE UNCHANGED custVars
  BY <1>16 DEF custVars, CalmOK, CalmHand, Answers
<1> QED
  BY <1>3, <1>4, <1>6, <1>8, <1>9, <1>10, <1>11, <1>12, <1>13, <1>14, <1>15, <1>16 DEF CustNext

LEMMA CustInvHolds == CustSpec => [](CustTypeOK /\ RequestOK /\ CalmOK)
<1>1. CustInit => CustTypeOK /\ RequestOK /\ CalmOK
  <2> SUFFICES ASSUME CustInit PROVE CustTypeOK /\ RequestOK /\ CalmOK
    OBVIOUS
  <2>1. /\ req = Free.row /\ ticket = "open" /\ hand = [p \in People |-> Free] /\ offers = 0 /\ turns = 0
        /\ told = {} /\ lastWord = "office" /\ inPlace = {} /\ untold = {} /\ final = "none" /\ upset = FALSE
    BY DEF CustInit
  <2>2. /\ Free \in HandRow /\ Free.row \in RequestRow /\ Free.pc = "idle"
        /\ Free.row.stage = "received" /\ Free.row.offer = 0
    BY CustomizationAssumption DEF Free, HandRow, RequestRow, Stages, TicketStatus
  <2>3. CustTypeOK
    <3>1. 0 \in 0 .. MaxOffers /\ 0 \in 0 .. MaxTurns
      BY CustomizationAssumption
    <3>2. req \in RequestRow /\ hand \in [People -> HandRow]
      BY <2>1, <2>2
    <3> HIDE DEF RequestRow, HandRow
    <3> QED
      BY <2>1, <3>1, <3>2 DEF CustTypeOK, TicketStatus
  <2>4. RequestOK
    BY <2>1, <2>2 DEF RequestOK, RowOK, HandOK, SavingPc, Accounted
  <2>5. CalmOK
    BY <2>1, <2>2 DEF CalmOK, CalmHand, SavingPc, Answers
  <2> QED
    BY <2>3, <2>4, <2>5
<1> QED
  BY <1>1, CustTypeStep, RequestMoves, CalmStep, PTL DEF CustSpec

\* The office's request: what is carried out is the very offer the office approved, whatever the handlers cross;
\* every offer in it was sent to the office in the ticket, was written over another or had its note refused; and,
\* unless handlers crossed or died, what ended stays ended and nobody waits for an answer already given
\* (staff_update, client_decide, staff_reply, client_reply of src/support).
THEOREM RequestObeys == CustSpec => []RequestKept
<1>1. CustTypeOK /\ RequestOK /\ CalmOK => RequestKept
  <2> SUFFICES ASSUME CustTypeOK, RequestOK, CalmOK PROVE RequestKept
    OBVIOUS
  <2>1. DoneAsApproved
    BY DEF RequestOK, RowOK, DoneAsApproved
  <2>2. OfferWasTold
    <3>1. req.offer \in Nat /\ offers \in Nat /\ req.offer <= offers
      BY CustomizationAssumption DEF CustTypeOK, RequestRow, RequestOK
    <3>2. req.offer # 0 => Accounted(req.offer)
      BY <3>1 DEF RequestOK
    <3> QED
      BY <3>2 DEF OfferWasTold, Accounted
  <2>3. EndIsTheEnd
    BY DEF EndIsTheEnd, CalmOK
  <2>4. NobodyWaitsInVain
    BY DEF NobodyWaitsInVain, CalmOK, Answers, WordPc
  <2> QED
    BY <2>1, <2>2, <2>3, <2>4 DEF RequestKept
<1> QED
  BY <1>1, CustInvHolds, PTL

-----------------------------------------------------------------------------
(***************************************************************************)
(* FolderImport.                                                           *)
(***************************************************************************)
\* What each variable may hold.
CurRow == [pos : Nat, n : Nat, contact : Nat]
ImportRow == [status : {"listed", "running", "done", "failed", "canceled"}, done : 0 .. Len(Plan), cur : CurRow, kept : BOOLEAN]
StepRow == [pc : {"idle", "fetcher", "folder", "file", "link", "next", "failed", "saveDone", "saveFailed"},
            job : Jobs \cup {NoJob}, attempt : Nat, done : 0 .. Len(Plan), cur : CurRow,
            known : SUBSET Nat, already : SUBSET Files]
AskRow == [pc : {"idle", "start", "enqueue", "discard"}, job : Jobs \cup {NoJob}]
AtWork(w) == step[w].pc # "idle"
ImRows ==
    /\ import \in [Jobs -> ImportRow] /\ step \in [Importers -> StepRow] /\ request \in [Askers -> AskRow]
    /\ contacts \in Seq([name : Names, cpf : Cpfs])
    /\ docs \in [(1 .. MaxContacts) \X Files -> Nat] /\ links \in [(1 .. MaxContacts) \X Files -> Nat]
    /\ messages \in [Jobs \X (1 .. MaxTries) -> Nat]
    /\ \A w \in Importers : AtWork(w) => step[w].job \in Jobs /\ step[w].attempt \in 1 .. MaxTries
    /\ \A r \in Askers : request[r].pc # "idle" => request[r].job \in Jobs

\* A worker that made the contact of a name knows one of that name: no more contacts than names and workers.
OwnersOK ==
    \E own \in [DOMAIN contacts -> Importers] :
        /\ \A c, d \in DOMAIN contacts : contacts[c].name = contacts[d].name /\ own[c] = own[d] => c = d
        /\ \A w \in Importers : AtWork(w) =>
            /\ step[w].known \subseteq DOMAIN contacts
            /\ \A c \in DOMAIN contacts : own[c] = w => \E d \in step[w].known : contacts[d].name = contacts[c].name

\* What was done of an import, in its row or in the hands of a worker: the folders before, and in the one at
\* hand the files before, were stored or could not be fetched.
FileOf(i, n) == Plan[i].files[n]
KeptFile(j, i, n) ==
    <<j, FileOf(i, n)>> \in missed \/ \E c \in DOMAIN contacts : IsOf(c, Plan[i]) /\ docs[<<c, FileOf(i, n)>>] > 0
FolderKept(j, i) == \A n \in DOMAIN Plan[i].files : KeptFile(j, i, n)
Done(j, done, cur) ==
    /\ \A i \in 1 .. done : FolderKept(j, i)
    /\ cur.pos # 0 =>
        /\ cur.pos = done + 1 /\ cur.pos \in DOMAIN Plan /\ cur.contact \in DOMAIN contacts /\ IsOf(cur.contact, Plan[cur.pos])
        /\ cur.n <= Len(Plan[cur.pos].files) /\ \A n \in 1 .. cur.n : KeptFile(j, cur.pos, n)
ImportsOK == \A j \in Jobs :
    /\ Done(j, import[j].done, import[j].cur)
    /\ import[j].status = "done" => \A i \in DOMAIN Plan : FolderKept(j, i)
Hand(w) == FileOf(step[w].cur.pos, step[w].cur.n + 1)
StepOK(w) ==
    /\ AtWork(w) => Done(step[w].job, step[w].done, step[w].cur)
    /\ step[w].pc \in {"file", "link", "next"} => step[w].cur.pos # 0
    /\ step[w].pc \in {"file", "link"} => step[w].already \subseteq Stored(step[w].cur.contact)
    /\ step[w].pc = "link" => step[w].cur.n < Len(Plan[step[w].cur.pos].files) /\ docs[<<step[w].cur.contact, Hand(w)>>] > 0
    /\ step[w].pc = "saveDone" => step[w].done = Len(Plan)
StepsOK == \A w \in Importers : StepOK(w)

\* A document without its link is in the hands of who stored it, unless a step ended there.
Linking(cf) == {w \in Importers : step[w].pc = "link" /\ step[w].cur.contact = cf[1] /\ Hand(w) = cf[2]}
LinksOK == \A cf \in DOMAIN docs :
    /\ links[cf] + Cardinality(Linking(cf)) <= docs[cf]
    /\ ~torn => docs[cf] = links[cf] + Cardinality(Linking(cf))

\* Unless two imports ran at once, one worker is at it and knows every contact and what the client at hand has.
OneOK ==
    ~together =>
        /\ \A v, w \in Importers : AtWork(v) /\ AtWork(w) => v = w
        /\ \A c, d \in DOMAIN contacts : IsOf(c, contacts[d]) => c = d
        /\ \A cf \in DOMAIN docs : docs[cf] <= 1
        /\ \A w \in Importers :
            /\ AtWork(w) => step[w].known = DOMAIN contacts
            /\ step[w].pc = "file" => step[w].already = Stored(step[w].cur.contact)
            /\ step[w].pc = "link" => Stored(step[w].cur.contact) \subseteq step[w].already \cup {Hand(w)}

LEMMA PlanFacts ==
    /\ Len(Plan) \in Nat /\ DOMAIN Plan = 1 .. Len(Plan)
    /\ \A i \in DOMAIN Plan : /\ Plan[i].name \in Names /\ Plan[i].cpf \in Cpfs /\ Plan[i].files \in Seq(Files)
                              /\ Len(Plan[i].files) \in Nat /\ DOMAIN Plan[i].files = 1 .. Len(Plan[i].files)
                              /\ \A n \in 1 .. Len(Plan[i].files) : FileOf(i, n) \in Files
    /\ MaxTries \in Nat \ {0} /\ NoJob \notin Jobs
    /\ IsFiniteSet(Importers) /\ Cardinality(Importers) \in Nat /\ MaxContacts \in Nat
<1>1. Plan \in Seq([name : Names, cpf : Cpfs, files : Seq(Files)])
  BY ImportAssumption DEF ImportAssumption
<1>2. Len(Plan) \in Nat /\ DOMAIN Plan = 1 .. Len(Plan)
  BY <1>1
<1>3. \A i \in DOMAIN Plan : Plan[i] \in [name : Names, cpf : Cpfs, files : Seq(Files)]
  <2>1. PICK R : R = [name : Names, cpf : Cpfs, files : Seq(Files)]
    OBVIOUS
  <2>2. Plan \in Seq(R)
    BY <1>1, <2>1
  <2>3. \A i \in DOMAIN Plan : Plan[i] \in R
    BY <2>2
  <2> QED
    BY <2>1, <2>3
<1>4. \A i \in DOMAIN Plan : Plan[i].name \in Names /\ Plan[i].cpf \in Cpfs /\ Plan[i].files \in Seq(Files)
  BY <1>3
<1>5. \A q \in Seq(Files) : Len(q) \in Nat /\ DOMAIN q = 1 .. Len(q) /\ \A n \in 1 .. Len(q) : q[n] \in Files
  OBVIOUS
<1>6. MaxTries \in Nat \ {0} /\ NoJob \notin Jobs /\ IsFiniteSet(Importers)
  BY ImportAssumption DEF ImportAssumption
<1>7. Cardinality(Importers) \in Nat
  BY <1>6, FS_CardinalityType
<1>8. MaxContacts \in Nat
  BY <1>2, <1>7 DEF MaxContacts
<1> QED
  BY <1>2, <1>4, <1>5, <1>6, <1>7, <1>8 DEF FileOf

\* What becomes of the row of a worker.
OneStep(w) == \A v \in Importers \ {w} : step'[v] = step[v]
LEMMA RowSet ==
    ASSUME ImRows, NEW w \in Importers, NEW row \in StepRow, step' = [step EXCEPT ![w] = row]
    PROVE  step' \in [Importers -> StepRow] /\ step'[w] = row /\ OneStep(w)
<1> QED
  BY DEF ImRows, OneStep

LEMMA Stops ==
    ASSUME ImRows, NEW w \in Importers, step' = [step EXCEPT ![w] = NoStep]
    PROVE  step' \in [Importers -> StepRow] /\ step'[w] = NoStep /\ step'[w].pc = "idle" /\ OneStep(w)
<1>1. NoStep \in StepRow /\ NoStep.pc = "idle"
  BY PlanFacts DEF NoStep, NoFolder, StepRow, CurRow
<1> QED
  BY <1>1, RowSet

LEMMA Moves ==
    ASSUME ImRows, NEW w \in Importers, NEW point \in {"folder", "link", "next", "failed", "saveDone", "saveFailed"},
           step' = [step EXCEPT ![w].pc = point]
    PROVE  /\ step' \in [Importers -> StepRow] /\ OneStep(w)
           /\ step'[w].pc = point /\ step'[w].job = step[w].job /\ step'[w].attempt = step[w].attempt /\ step'[w].done = step[w].done
           /\ step'[w].cur = step[w].cur /\ step'[w].known = step[w].known /\ step'[w].already = step[w].already
<1>1. PICK row : row = [step[w] EXCEPT !.pc = point]
  OBVIOUS
<1>2. step[w] \in StepRow
  BY DEF ImRows
<1>3. row \in StepRow
  BY <1>1, <1>2 DEF StepRow
<1>4. row.pc = point /\ row.job = step[w].job /\ row.attempt = step[w].attempt /\ row.done = step[w].done
      /\ row.cur = step[w].cur /\ row.known = step[w].known /\ row.already = step[w].already
  BY <1>1, <1>2 DEF StepRow
<1>5. step' = [step EXCEPT ![w] = row]
  BY <1>1
<1> QED
  BY <1>3, <1>4, <1>5, RowSet

LEMMA Takes ==
    ASSUME ImRows, NEW w \in Importers, NEW j \in Jobs, NEW a \in 1 .. MaxTries, Take(w, j, a), import[j].status = "running"
    PROVE  /\ step' \in [Importers -> StepRow] /\ OneStep(w)
           /\ step'[w].pc \in {"fetcher", "failed"} /\ step'[w].job = j /\ step'[w].attempt = a /\ step'[w].done = import[j].done
           /\ step'[w].cur = import[j].cur /\ step'[w].known = DOMAIN contacts
<1>0. PICK point \in {"fetcher", "failed"} : point = IF j \notin Zips /\ Planless(j) THEN "failed" ELSE "fetcher"
  OBVIOUS
<1>1. PICK row : row = [pc |-> point, job |-> j, attempt |-> a, done |-> import[j].done,
                        cur |-> import[j].cur, known |-> DOMAIN contacts, already |-> {}]
  OBVIOUS
<1>2. import[j] \in ImportRow /\ DOMAIN contacts \subseteq Nat /\ a \in Nat
  BY PlanFacts DEF ImRows
<1>3. row \in StepRow
  BY <1>1, <1>2 DEF StepRow, ImportRow
<1>4. step' = [step EXCEPT ![w] = row]
  BY <1>0, <1>1 DEF Take
<1> QED
  BY <1>1, <1>3, <1>4, RowSet

\* A folder is opened at the contact where it stopped, one that matches, or a new one.
LEMMA Opens ==
    ASSUME ImRows, NEW w \in Importers, OpenFolder(w)
    PROVE  \E contact \in Nat : \E pos \in DOMAIN Plan :
           /\ pos = step[w].done + 1
           /\ step' \in [Importers -> StepRow] /\ OneStep(w)
           /\ step'[w].pc = "file" /\ step'[w].job = step[w].job /\ step'[w].attempt = step[w].attempt /\ step'[w].done = step[w].done
           /\ step'[w].known = step[w].known \cup {contact} /\ step'[w].already = Stored(contact)
           /\ step'[w].cur \in CurRow /\ step'[w].cur.pos = pos /\ step'[w].cur.contact = contact
           /\ \/ step[w].cur.pos = pos /\ contact = step[w].cur.contact /\ step'[w].cur.n = step[w].cur.n /\ UNCHANGED contacts
              \/ step[w].cur.pos # pos /\ contact \in Matches(w, Plan[pos]) /\ step'[w].cur.n = 0 /\ UNCHANGED contacts
              \/ /\ step[w].cur.pos # pos /\ Matches(w, Plan[pos]) = {} /\ step'[w].cur.n = 0 /\ contact = Len(contacts) + 1
                 /\ contacts' = Append(contacts, [name |-> Plan[pos].name, cpf |-> Plan[pos].cpf])
<1>0. step[w] \in StepRow /\ step[w].done \in Nat /\ step[w].cur \in CurRow /\ step[w].cur.contact \in Nat /\ step[w].cur.n \in Nat
      /\ step[w].known \subseteq Nat /\ DOMAIN contacts \subseteq Nat /\ Len(contacts) + 1 \in Nat
  BY PlanFacts DEF ImRows, StepRow, CurRow
<1>1. PICK pos : pos = step[w].done + 1
  OBVIOUS
<1>2. pos \in DOMAIN Plan /\ pos \in Nat
  BY SMTT(30), <1>0, <1>1, PlanFacts DEF OpenFolder
<1>3. PICK found : found = IF step[w].cur.pos = pos THEN {step[w].cur.contact} ELSE Matches(w, Plan[pos])
  OBVIOUS
<1>4. PICK n : n = IF step[w].cur.pos = pos THEN step[w].cur.n ELSE 0
  BY SMTT(30)
<1>5. PICK contact \in IF found # {} THEN found ELSE {Len(contacts) + 1} :
        /\ contacts' = IF found # {} THEN contacts
                       ELSE Append(contacts, [name |-> Plan[pos].name, cpf |-> Plan[pos].cpf])
        /\ step' = [step EXCEPT ![w].pc = "file", ![w].cur = [pos |-> pos, n |-> n, contact |-> contact],
                        ![w].known = step[w].known \cup {contact}, ![w].already = Stored(contact)]
  BY <1>1, <1>3, <1>4 DEF OpenFolder
<1>6. Matches(w, Plan[pos]) \subseteq Nat
  BY <1>0 DEF Matches, SameDocument, SameName
<1>7. contact \in Nat /\ n \in Nat
  BY <1>0, <1>3, <1>4, <1>5, <1>6
<1>8. PICK S : S = Stored(contact)
  OBVIOUS
<1>9. S \subseteq Files
  BY <1>8 DEF Stored
<1>10. PICK cur : cur = [pos |-> pos, n |-> n, contact |-> contact]
  OBVIOUS
<1>11. cur \in CurRow /\ cur.pos = pos /\ cur.n = n /\ cur.contact = contact
  BY <1>2, <1>7, <1>10 DEF CurRow
<1>12. PICK row : row = [step[w] EXCEPT !.pc = "file", !.cur = cur, !.known = step[w].known \cup {contact}, !.already = S]
  OBVIOUS
<1>13. row \in StepRow
  BY <1>0, <1>7, <1>9, <1>11, <1>12 DEF StepRow
<1>14. row.pc = "file" /\ row.job = step[w].job /\ row.attempt = step[w].attempt /\ row.done = step[w].done
       /\ row.cur = cur /\ row.known = step[w].known \cup {contact} /\ row.already = S
  BY <1>0, <1>12 DEF StepRow
<1>15. step' = [step EXCEPT ![w] = row]
  BY <1>5, <1>8, <1>10, <1>12
<1>16. step' \in [Importers -> StepRow] /\ OneStep(w) /\ step'[w] = row
  BY <1>13, <1>15, RowSet
<1>17. \/ step[w].cur.pos = pos /\ contact = step[w].cur.contact /\ n = step[w].cur.n /\ UNCHANGED contacts
       \/ step[w].cur.pos # pos /\ contact \in Matches(w, Plan[pos]) /\ n = 0 /\ UNCHANGED contacts
       \/ /\ step[w].cur.pos # pos /\ Matches(w, Plan[pos]) = {} /\ n = 0 /\ contact = Len(contacts) + 1
          /\ contacts' = Append(contacts, [name |-> Plan[pos].name, cpf |-> Plan[pos].cpf])
  BY <1>3, <1>4, <1>5
<1> QED
  BY SMTT(30), <1>1, <1>2, <1>7, <1>8, <1>11, <1>14, <1>16, <1>17

\* The next file, skipped or linked.
LEMMA Advances ==
    ASSUME ImRows, NEW w \in Importers, NEW more \in SUBSET Files,
           step' = [step EXCEPT ![w].pc = "file", ![w].already = step[w].already \cup more, ![w].cur.n = step[w].cur.n + 1]
    PROVE  /\ step' \in [Importers -> StepRow] /\ OneStep(w)
           /\ step'[w].pc = "file" /\ step'[w].job = step[w].job /\ step'[w].attempt = step[w].attempt /\ step'[w].done = step[w].done
           /\ step'[w].known = step[w].known /\ step'[w].already = step[w].already \cup more
           /\ step'[w].cur.pos = step[w].cur.pos /\ step'[w].cur.contact = step[w].cur.contact /\ step'[w].cur.n = step[w].cur.n + 1
<1>1. step[w] \in StepRow /\ step[w].cur \in CurRow /\ step[w].cur.n + 1 \in Nat /\ step[w].already \subseteq Files
  BY DEF ImRows, StepRow, CurRow
<1>2. PICK cur : cur = [step[w].cur EXCEPT !.n = step[w].cur.n + 1]
  OBVIOUS
<1>3. cur \in CurRow /\ cur.pos = step[w].cur.pos /\ cur.contact = step[w].cur.contact /\ cur.n = step[w].cur.n + 1
  BY <1>1, <1>2 DEF CurRow
<1>4. PICK row : row = [step[w] EXCEPT !.pc = "file", !.already = step[w].already \cup more, !.cur = cur]
  OBVIOUS
<1>5. row \in StepRow
  BY <1>1, <1>3, <1>4 DEF StepRow
<1>6. row.pc = "file" /\ row.job = step[w].job /\ row.attempt = step[w].attempt /\ row.done = step[w].done
      /\ row.cur = cur /\ row.known = step[w].known /\ row.already = step[w].already \cup more
  BY <1>1, <1>4 DEF StepRow
<1>7. step' = [step EXCEPT ![w] = row]
  BY <1>2, <1>4
<1> QED
  BY <1>3, <1>5, <1>6, <1>7, RowSet

LEMMA Skips ==
    ASSUME ImRows, NEW w \in Importers, SkipFile(w)
    PROVE  /\ step' \in [Importers -> StepRow] /\ OneStep(w)
           /\ step'[w].pc = "file" /\ step'[w].job = step[w].job /\ step'[w].attempt = step[w].attempt /\ step'[w].done = step[w].done
           /\ step'[w].known = step[w].known /\ step'[w].already = step[w].already
           /\ step'[w].cur.pos = step[w].cur.pos /\ step'[w].cur.contact = step[w].cur.contact /\ step'[w].cur.n = step[w].cur.n + 1
<1>1. step[w] \in StepRow /\ step[w].pc = "file"
  BY DEF ImRows, SkipFile, Working
<1>2. step' = [step EXCEPT ![w].cur.n = step[w].cur.n + 1]
  BY DEF SkipFile
<1>3. PICK none \in SUBSET Files : none = {}
  OBVIOUS
<1>4. step[w].already \cup none = step[w].already
  BY <1>3
<1>5. step' = [step EXCEPT ![w].pc = "file", ![w].already = step[w].already \cup none, ![w].cur.n = step[w].cur.n + 1]
  BY <1>1, <1>2, <1>4 DEF StepRow, ImRows
<1> QED
  BY <1>4, <1>5, Advances

LEMMA Closes ==
    ASSUME ImRows, NEW w \in Importers, CloseFolder(w), step[w].cur.pos \in DOMAIN Plan
    PROVE  /\ step' \in [Importers -> StepRow] /\ OneStep(w)
           /\ step'[w].pc = "folder" /\ step'[w].job = step[w].job /\ step'[w].attempt = step[w].attempt
           /\ step'[w].done = step[w].cur.pos /\ step'[w].cur = NoFolder /\ step'[w].known = step[w].known
<1>1. step[w] \in StepRow /\ step[w].cur.pos \in 0 .. Len(Plan) /\ NoFolder \in CurRow
  BY PlanFacts DEF ImRows, NoFolder, CurRow
<1>2. PICK row : row = [step[w] EXCEPT !.pc = "folder", !.done = step[w].cur.pos, !.cur = NoFolder]
  OBVIOUS
<1>3. row \in StepRow
  BY <1>1, <1>2 DEF StepRow
<1>4. row.pc = "folder" /\ row.job = step[w].job /\ row.attempt = step[w].attempt /\ row.done = step[w].cur.pos
      /\ row.cur = NoFolder /\ row.known = step[w].known
  BY <1>1, <1>2 DEF StepRow
<1>5. step' = [step EXCEPT ![w] = row]
  BY <1>2 DEF CloseFolder
<1> QED
  BY <1>3, <1>4, <1>5, RowSet

LEMMA UpTo ==
    ASSUME NEW n \in Nat
    PROVE  IsFiniteSet(1 .. n) /\ Cardinality(1 .. n) = n
<1>1. n \in Int /\ 1 \in Int
  OBVIOUS
<1>2. IsFiniteSet(1 .. n) /\ Cardinality(1 .. n) = IF 1 > n THEN 0 ELSE n - 1 + 1
  BY <1>1, FS_Interval, SMT
<1> QED
  BY <1>2

\* There are no more contacts than names of folders and workers.
LEMMA Fits ==
    ASSUME ImRows, OwnersOK
    PROVE  Len(contacts) \in Nat /\ Len(contacts) <= MaxContacts /\ DOMAIN contacts = 1 .. Len(contacts)
           /\ DOMAIN contacts \subseteq 1 .. MaxContacts
<1>1. Len(contacts) \in Nat /\ DOMAIN contacts = 1 .. Len(contacts) /\ \A c \in DOMAIN contacts : contacts[c].name \in Names
  <2>1. PICK R : R = [name : Names, cpf : Cpfs]
    OBVIOUS
  <2>2. contacts \in Seq(R)
    BY <2>1 DEF ImRows
  <2>3. Len(contacts) \in Nat /\ DOMAIN contacts = 1 .. Len(contacts) /\ \A c \in DOMAIN contacts : contacts[c] \in R
    BY <2>2
  <2> QED
    BY <2>1, <2>3
<1>2. PICK own \in [DOMAIN contacts -> Importers] :
        \A c, d \in DOMAIN contacts : contacts[c].name = contacts[d].name /\ own[c] = own[d] => c = d
  BY DEF OwnersOK
<1>3. IsFiniteSet(Names) /\ Cardinality(Names) \in Nat /\ Cardinality(Names) <= Len(Plan)
  <2>1. PICK f : f = [i \in DOMAIN Plan |-> Plan[i].name]
    OBVIOUS
  <2>2. f \in Surjection(DOMAIN Plan, Names)
    BY <2>1 DEF Surjection, Names
  <2>3. IsFiniteSet(1 .. Len(Plan)) /\ Cardinality(1 .. Len(Plan)) = Len(Plan)
    BY PlanFacts, UpTo
  <2>4. IsFiniteSet(Names) /\ Cardinality(Names) <= Len(Plan)
    BY <2>2, <2>3, PlanFacts, FS_Surjection
  <2> QED
    BY <2>4, FS_CardinalityType
<1>4. PICK g : g = [c \in DOMAIN contacts |-> <<contacts[c].name, own[c]>>]
  OBVIOUS
<1>5. g \in Injection(DOMAIN contacts, Names \X Importers)
  <2>1. g \in [DOMAIN contacts -> Names \X Importers]
    BY <1>1, <1>2, <1>4
  <2>2. \A c, d \in DOMAIN contacts : g[c] = g[d] => c = d
    BY <1>2, <1>4
  <2> QED
    BY <2>1, <2>2 DEF Injection, IsInjective
<1>6. IsFiniteSet(Names \X Importers) /\ Cardinality(Names \X Importers) = Cardinality(Names) * Cardinality(Importers)
  BY <1>3, PlanFacts, FS_Product
<1>7. Cardinality(1 .. Len(contacts)) = Len(contacts)
  BY <1>1, UpTo
<1>8. Cardinality(DOMAIN contacts) <= Cardinality(Names \X Importers)
  BY <1>5, <1>6, FS_Injection
<1>9. Len(contacts) <= Cardinality(Names) * Cardinality(Importers)
  BY <1>1, <1>6, <1>7, <1>8
<1>10. \A a, b, c \in Nat : a <= b => a * c <= b * c
  OBVIOUS
<1>11. Len(contacts) <= Len(Plan) * Cardinality(Importers)
  <2>1. PICK a \in Nat, b \in Nat, c \in Nat : a = Cardinality(Names) /\ b = Len(Plan) /\ c = Cardinality(Importers)
    BY <1>3, PlanFacts
  <2>2. a * c <= b * c /\ a * c \in Nat /\ b * c \in Nat
    BY <1>3, <1>10, <2>1
  <2> QED
    BY SMTT(30), <1>1, <1>9, <2>1, <2>2
<1> QED
  BY <1>1, <1>11, PlanFacts DEF MaxContacts

\* The place of a message, and a message that comes again.
LEMMA MessageSet ==
    ASSUME ImRows, NEW j \in Jobs, NEW a \in 1 .. MaxTries, NEW k \in Nat, messages' = [messages EXCEPT ![<<j, a>>] = k]
    PROVE  /\ messages' \in [Jobs \X (1 .. MaxTries) -> Nat] /\ messages'[<<j, a>>] = k
           /\ \A i \in Jobs, b \in 1 .. MaxTries : <<i, b>> # <<j, a>> => messages'[<<i, b>>] = messages[<<i, b>>]
<1>1. PICK m \in Jobs \X (1 .. MaxTries) : m = <<j, a>>
  OBVIOUS
<1>2. messages' = [messages EXCEPT ![m] = k] /\ messages \in [Jobs \X (1 .. MaxTries) -> Nat]
  BY <1>1 DEF ImRows
<1>3. messages' \in [Jobs \X (1 .. MaxTries) -> Nat] /\ messages'[m] = k
      /\ \A o \in Jobs \X (1 .. MaxTries) : o # m => messages'[o] = messages[o]
  BY <1>2
<1> QED
  BY <1>1, <1>3

LEMMA Redelivers ==
    ASSUME ImRows, NEW w \in Importers, AtWork(w), Redeliver(w)
    PROVE  /\ messages' \in [Jobs \X (1 .. MaxTries) -> Nat] /\ step' = [step EXCEPT ![w] = NoStep]
           /\ abandoned \subseteq abandoned'
           /\ \A i \in Jobs, b \in 1 .. MaxTries : messages[<<i, b>>] <= messages'[<<i, b>>]
           /\ step[w].job \notin abandoned' => \E b \in 1 .. MaxTries : messages'[<<step[w].job, b>>] > 0
<1>0. PICK j : j = step[w].job
  OBVIOUS
<1>1. j \in Jobs /\ step[w].attempt \in 1 .. MaxTries /\ messages \in [Jobs \X (1 .. MaxTries) -> Nat]
  BY <1>0 DEF ImRows
<1>2. step' = [step EXCEPT ![w] = NoStep] /\ abandoned \subseteq abandoned'
  BY DEF Redeliver
<1>3. \A i \in Jobs, b \in 1 .. MaxTries : messages[<<i, b>>] \in Nat
  BY <1>1
<1>4. CASE step[w].attempt < MaxTries
  <2>1. PICK a : a = step[w].attempt + 1
    OBVIOUS
  <2>2. a \in 1 .. MaxTries
    BY <1>1, <1>4, <2>1, PlanFacts
  <2>3. PICK k : k = messages[<<j, a>>] + 1
    OBVIOUS
  <2>4. k \in Nat /\ k > 0 /\ messages[<<j, a>>] <= k
    <3>1. PICK l : l = messages[<<j, a>>]
      OBVIOUS
    <3>2. l \in Nat
      BY <1>1, <1>3, <2>2, <3>1, Zenon
    <3> QED
      BY <2>3, <3>1, <3>2
  <2>5. messages' = [messages EXCEPT ![<<j, a>>] = k]
    BY <1>0, <1>4, <2>1, <2>3 DEF Redeliver
  <2>6. /\ messages' \in [Jobs \X (1 .. MaxTries) -> Nat] /\ messages'[<<j, a>>] = k
        /\ \A i \in Jobs, b \in 1 .. MaxTries : <<i, b>> # <<j, a>> => messages'[<<i, b>>] = messages[<<i, b>>]
    BY <1>1, <2>2, <2>4, <2>5, MessageSet
  <2>7. ASSUME NEW i \in Jobs, NEW b \in 1 .. MaxTries
        PROVE  messages[<<i, b>>] <= messages'[<<i, b>>]
    <3>1. CASE <<i, b>> = <<j, a>>
      BY <2>4, <2>6, <3>1
    <3>2. CASE <<i, b>> # <<j, a>>
      <4>1. messages'[<<i, b>>] = messages[<<i, b>>] /\ messages[<<i, b>>] \in Nat
        BY <1>3, <2>6, <3>2, Zenon
      <4>2. PICK l \in Nat : l = messages[<<i, b>>]
        BY <4>1
      <4> QED
        BY <4>1, <4>2
    <3> QED
      BY <3>1, <3>2
  <2> QED
    BY <1>0, <1>2, <2>2, <2>4, <2>6, <2>7
<1>5. CASE ~(step[w].attempt < MaxTries)
  <2>1. messages' = messages /\ j \in abandoned'
    BY <1>0, <1>5 DEF Redeliver
  <2>2. ASSUME NEW i \in Jobs, NEW b \in 1 .. MaxTries
        PROVE  messages[<<i, b>>] <= messages'[<<i, b>>]
    <3>1. PICK l \in Nat : l = messages[<<i, b>>]
      BY <1>3
    <3> QED
      BY <2>1, <3>1
  <2> QED
    BY <1>0, <1>1, <1>2, <2>1, <2>2
<1> QED
  BY <1>4, <1>5

\* What becomes of the row of an import, and of a request.
Statuses == {"listed", "running", "done", "failed", "canceled"}
SavedAs(j, status, done, cur) ==
    /\ import' \in [Jobs -> ImportRow] /\ \A i \in Jobs \ {j} : import'[i] = import[i]
    /\ import'[j].status = status /\ import'[j].done = done /\ import'[j].cur = cur
LEMMA SavesRow ==
    ASSUME ImRows, NEW j \in Jobs, NEW row, row \in ImportRow, import' = [import EXCEPT ![j] = row]
    PROVE  SavedAs(j, row.status, row.done, row.cur)
<1>1. import' \in [Jobs -> ImportRow] /\ import'[j] = row /\ \A i \in Jobs \ {j} : import'[i] = import[i]
  BY DEF ImRows
<1> QED
  BY <1>1 DEF SavedAs

LEMMA ImportRows ==
    ASSUME ImRows, NEW j \in Jobs
    PROVE  /\ import[j] \in ImportRow /\ import[j].status \in Statuses /\ import[j].done \in 0 .. Len(Plan)
           /\ import[j].cur \in CurRow /\ import[j].kept \in BOOLEAN
           /\ import[j] = [status |-> import[j].status, done |-> import[j].done, cur |-> import[j].cur, kept |-> import[j].kept]
<1>1. import[j] \in ImportRow
  BY DEF ImRows
<1> QED
  BY <1>1 DEF ImportRow, Statuses

LEMMA StepRows ==
    ASSUME ImRows, NEW w \in Importers
    PROVE  /\ step[w] \in StepRow /\ step[w].done \in 0 .. Len(Plan) /\ step[w].cur \in CurRow /\ step[w].cur.pos \in Nat
           /\ step[w].cur.n \in Nat /\ step[w].cur.contact \in Nat /\ step[w].known \subseteq Nat /\ step[w].already \subseteq Files
<1>1. step[w] \in StepRow
  BY DEF ImRows
<1> QED
  BY <1>1 DEF StepRow, CurRow

LEMMA NoFolderRow == NoFolder \in CurRow /\ NoFolder.pos = 0 /\ 0 \in 0 .. Len(Plan)
  BY PlanFacts DEF NoFolder, CurRow

LEMMA StartSaves ==
    ASSUME ImRows, NEW r \in Askers, SaveStart(r)
    PROVE  request[r].job \in Jobs /\ SavedAs(request[r].job, "running", 0, NoFolder)
<1>1. PICK j : j = request[r].job
  OBVIOUS
<1>2. j \in Jobs
  BY <1>1 DEF ImRows, SaveStart
<1>3. PICK row : row = [import[j] EXCEPT !.status = "running", !.done = 0, !.cur = NoFolder]
  OBVIOUS
<1>4. row \in ImportRow /\ row.status = "running" /\ row.done = 0 /\ row.cur = NoFolder
  BY <1>2, <1>3, ImportRows, NoFolderRow DEF ImportRow
<1>5. import' = [import EXCEPT ![j] = row]
  BY <1>1, <1>3 DEF SaveStart
<1>6. SavedAs(j, row.status, row.done, row.cur)
  BY <1>2, <1>4, <1>5, SavesRow
<1> QED
  BY <1>1, <1>2, <1>4, <1>6

LEMMA DiscardSaves ==
    ASSUME ImRows, NEW r \in Askers, SaveDiscard(r)
    PROVE  request[r].job \in Jobs /\ SavedAs(request[r].job, "canceled", import[request[r].job].done, import[request[r].job].cur)
<1>1. PICK j : j = request[r].job
  OBVIOUS
<1>2. j \in Jobs
  BY <1>1 DEF ImRows, SaveDiscard
<1>3. PICK row : row = [import[j] EXCEPT !.status = "canceled", !.kept = FALSE]
  OBVIOUS
<1>4. row \in ImportRow /\ row.status = "canceled" /\ row.done = import[j].done /\ row.cur = import[j].cur
  BY <1>2, <1>3, ImportRows DEF ImportRow
<1>5. import' = [import EXCEPT ![j] = row]
  BY <1>1, <1>3 DEF SaveDiscard
<1>6. SavedAs(j, row.status, row.done, row.cur)
  BY <1>2, <1>4, <1>5, SavesRow
<1> QED
  BY <1>1, <1>2, <1>4, <1>6

LEMMA FetcherSaves ==
    ASSUME ImRows, NEW j \in Jobs, import' = [import EXCEPT ![j].status = "failed"]
    PROVE  SavedAs(j, "failed", import[j].done, import[j].cur)
<1>3. PICK row : row = [import[j] EXCEPT !.status = "failed"]
  OBVIOUS
<1>4. row \in ImportRow /\ row.status = "failed" /\ row.done = import[j].done /\ row.cur = import[j].cur
  BY <1>3, ImportRows DEF ImportRow
<1>5. import' = [import EXCEPT ![j] = row]
  BY <1>3
<1>6. SavedAs(j, row.status, row.done, row.cur)
  BY <1>4, <1>5, SavesRow
<1> QED
  BY <1>4, <1>6

LEMMA ArchiveSaves ==
    ASSUME ImRows, NEW j \in Jobs, import' = [import EXCEPT ![j].kept = FALSE]
    PROVE  SavedAs(j, import[j].status, import[j].done, import[j].cur)
<1>3. PICK row : row = [import[j] EXCEPT !.kept = FALSE]
  OBVIOUS
<1>4. row \in ImportRow /\ row.status = import[j].status /\ row.done = import[j].done /\ row.cur = import[j].cur
  BY <1>3, ImportRows DEF ImportRow
<1>5. import' = [import EXCEPT ![j] = row]
  BY <1>3
<1>6. SavedAs(j, row.status, row.done, row.cur)
  BY <1>4, <1>5, SavesRow
<1> QED
  BY <1>4, <1>6

LEMMA PlaceSaves ==
    ASSUME ImRows, NEW j \in Jobs, NEW done \in 0 .. Len(Plan), NEW cur \in CurRow,
           import' = [import EXCEPT ![j].done = done, ![j].cur = cur]
    PROVE  SavedAs(j, import[j].status, done, cur)
<1>3. PICK row : row = [import[j] EXCEPT !.done = done, !.cur = cur]
  OBVIOUS
<1>4. row \in ImportRow /\ row.status = import[j].status /\ row.done = done /\ row.cur = cur
  BY <1>3, ImportRows DEF ImportRow
<1>5. import' = [import EXCEPT ![j] = row]
  BY <1>3
<1>6. SavedAs(j, row.status, row.done, row.cur)
  BY <1>4, <1>5, SavesRow
<1> QED
  BY <1>4, <1>6

LEMMA EndSaves ==
    ASSUME ImRows, NEW w \in Importers, SaveEnd(w)
    PROVE  step[w].job \in Jobs
           /\ SavedAs(step[w].job, IF step[w].pc = "saveDone" THEN "done" ELSE "failed", step[w].done, step[w].cur)
<1>1. PICK j : j = step[w].job
  OBVIOUS
<1>2. j \in Jobs
  BY <1>1 DEF ImRows, SaveEnd, AtWork
<1>3. PICK status : status = IF step[w].pc = "saveDone" THEN "done" ELSE "failed"
  OBVIOUS
<1>4. PICK row : row = [import[j] EXCEPT !.status = status, !.done = step[w].done, !.cur = step[w].cur, !.kept = FALSE]
  OBVIOUS
<1>5. status \in {"done", "failed"}
  BY <1>3
<1>6. row \in ImportRow /\ row.status = status /\ row.done = step[w].done /\ row.cur = step[w].cur
  BY <1>2, <1>4, <1>5, ImportRows, StepRows DEF ImportRow
<1>7. import' = [import EXCEPT ![j] = row]
  BY <1>1, <1>3, <1>4 DEF SaveEnd
<1>8. SavedAs(j, row.status, row.done, row.cur)
  BY <1>2, <1>6, <1>7, SavesRow
<1> QED
  BY <1>1, <1>2, <1>3, <1>6, <1>8

LEMMA AskSet ==
    ASSUME ImRows, NEW r \in Askers, NEW row \in AskRow, row.pc # "idle" => row.job \in Jobs, request' = [request EXCEPT ![r] = row]
    PROVE  /\ request' \in [Askers -> AskRow] /\ request'[r] = row /\ \A q \in Askers \ {r} : request'[q] = request[q]
           /\ \A q \in Askers : request'[q].pc # "idle" => request'[q].job \in Jobs
<1>1. request' \in [Askers -> AskRow] /\ request'[r] = row /\ \A q \in Askers \ {r} : request'[q] = request[q]
  BY DEF ImRows
<1> QED
  BY <1>1 DEF ImRows

\* What a request does.
LEMMA AsksKeepRows ==
    ASSUME ImRows, NEW r \in Askers,
           (\E j \in Jobs : AskImport(r, j) \/ AskDiscard(r, j)) \/ SaveStart(r) \/ EnqueueStart(r) \/ SaveDiscard(r) \/ RequestDies(r)
    PROVE  ImRows'
<1> DEFINE Asked == /\ request' \in [Askers -> AskRow]
                    /\ \A q \in Askers : request'[q].pc # "idle" => request'[q].job \in Jobs
<1>0. request[r] \in AskRow /\ (request[r].pc # "idle" => request[r].job \in Jobs)
  BY DEF ImRows
<1>1. ASSUME NEW row \in AskRow, row.pc # "idle" => row.job \in Jobs, request' = [request EXCEPT ![r] = row]
      PROVE  Asked
  BY <1>1, AskSet
<1>2. NoRequest \in AskRow /\ NoRequest.pc = "idle"
  BY DEF NoRequest, AskRow
<1> HIDE DEF Asked
<1>3. ASSUME NEW j \in Jobs, AskImport(r, j) \/ AskDiscard(r, j)
      PROVE  Asked /\ UNCHANGED <<import, messages>>
  <2>1. PICK point \in {"start", "discard"} : request' = [request EXCEPT ![r] = [pc |-> point, job |-> j]]
    BY <1>3 DEF AskImport, AskDiscard
  <2>2. PICK row : row = [pc |-> point, job |-> j]
    OBVIOUS
  <2>3. row \in AskRow /\ row.job \in Jobs
    BY <2>2 DEF AskRow
  <2>4. Asked
    BY <1>1, <2>1, <2>2, <2>3
  <2> QED
    BY <1>3, <2>4 DEF AskImport, AskDiscard
<1>4. ASSUME SaveStart(r)
      PROVE  Asked /\ import' \in [Jobs -> ImportRow] /\ UNCHANGED messages
  <2>1. PICK row : row = [request[r] EXCEPT !.pc = "enqueue"]
    OBVIOUS
  <2>2. row \in AskRow /\ row.job \in Jobs
    BY <1>0, <1>4, <2>1 DEF AskRow, SaveStart
  <2>3. request' = [request EXCEPT ![r] = row]
    BY <1>4, <2>1 DEF SaveStart
  <2>4. Asked
    BY <1>1, <2>2, <2>3
  <2> QED
    BY <1>4, <2>4, StartSaves DEF SavedAs, SaveStart
<1>5. ASSUME EnqueueStart(r)
      PROVE  Asked /\ messages' \in [Jobs \X (1 .. MaxTries) -> Nat] /\ UNCHANGED import
  <2>1. Asked
    BY <1>1, <1>2, <1>5 DEF EnqueueStart
  <2>2. messages' \in [Jobs \X (1 .. MaxTries) -> Nat]
    <3>1. PICK j \in Jobs : j = request[r].job
      BY <1>0, <1>5 DEF EnqueueStart
    <3>2. PICK k : k = messages[<<j, 1>>] + 1
      OBVIOUS
    <3>3. 1 \in 1 .. MaxTries
      BY PlanFacts
    <3>4. k \in Nat
      BY <3>2, <3>3 DEF ImRows
    <3>5. CASE messages' = messages
      BY <3>5 DEF ImRows
    <3>6. CASE messages' = [messages EXCEPT ![<<j, 1>>] = k]
      BY <3>3, <3>4, <3>6, MessageSet
    <3>7. messages' = messages \/ messages' = [messages EXCEPT ![<<j, 1>>] = k]
      BY <1>5, <3>1, <3>2 DEF EnqueueStart
    <3> QED
      BY <3>5, <3>6, <3>7
  <2> QED
    BY <1>5, <2>1, <2>2 DEF EnqueueStart
<1>6. ASSUME SaveDiscard(r)
      PROVE  Asked /\ import' \in [Jobs -> ImportRow] /\ UNCHANGED messages
  <2>1. Asked
    BY <1>1, <1>2, <1>6 DEF SaveDiscard
  <2> QED
    BY <1>6, <2>1, DiscardSaves DEF SavedAs, SaveDiscard
<1>7. ASSUME RequestDies(r)
      PROVE  Asked /\ UNCHANGED <<import, messages>>
  <2>1. Asked
    BY <1>1, <1>2, <1>7 DEF RequestDies
  <2> QED
    BY <1>7, <2>1 DEF RequestDies
<1>8. Asked /\ import' \in [Jobs -> ImportRow] /\ messages' \in [Jobs \X (1 .. MaxTries) -> Nat]
  <2>1. import \in [Jobs -> ImportRow] /\ messages \in [Jobs \X (1 .. MaxTries) -> Nat]
    BY DEF ImRows
  <2> QED
    BY <1>3, <1>4, <1>5, <1>6, <1>7, <2>1
<1>9. UNCHANGED <<contacts, docs, links, step>>
  BY DEF AskImport, AskDiscard, SaveStart, EnqueueStart, SaveDiscard, RequestDies
<1> QED
  BY <1>8, <1>9 DEF ImRows, Asked, AtWork

\* What a worker does, with the place it has from AtWork.
WorkerDoes(w) ==
    \/ \E j \in Jobs, a \in 1 .. MaxTries : Take(w, j, a)
    \/ Fetcher(w) \/ OpenFolder(w) \/ SkipFile(w) \/ SaveDocument(w) \/ LinkDocument(w) \/ CloseFolder(w)
    \/ Pause(w) \/ EnqueueNext(w) \/ Fails(w) \/ Discard(w) \/ SaveEnd(w) \/ WorkerDies(w)

\* The place of the file a worker has at hand.
LEMMA HandIsThere ==
    ASSUME ImRows, OwnersOK, StepsOK, NEW w \in Importers, step[w].pc \in {"file", "link", "next"}
    PROVE  /\ step[w].cur.pos \in DOMAIN Plan /\ step[w].cur.pos = step[w].done + 1
           /\ step[w].cur.contact \in DOMAIN contacts /\ step[w].cur.contact \in 1 .. MaxContacts
           /\ step[w].cur.n <= Len(Plan[step[w].cur.pos].files)
           /\ step[w].cur.n < Len(Plan[step[w].cur.pos].files) =>
                /\ step[w].cur.n + 1 \in DOMAIN Plan[step[w].cur.pos].files /\ Hand(w) \in Files
                /\ <<step[w].cur.contact, Hand(w)>> \in (1 .. MaxContacts) \X Files
<1>1. StepOK(w) /\ AtWork(w)
  BY DEF StepsOK, AtWork
<1>2. /\ step[w].cur.pos \in DOMAIN Plan /\ step[w].cur.pos = step[w].done + 1
      /\ step[w].cur.contact \in DOMAIN contacts
      /\ step[w].cur.n <= Len(Plan[step[w].cur.pos].files)
  BY <1>1 DEF StepOK, Done
<1>3. step[w].cur.contact \in 1 .. MaxContacts
  BY <1>2, Fits
<1>4. ASSUME step[w].cur.n < Len(Plan[step[w].cur.pos].files)
      PROVE  /\ step[w].cur.n + 1 \in DOMAIN Plan[step[w].cur.pos].files /\ Hand(w) \in Files
             /\ <<step[w].cur.contact, Hand(w)>> \in (1 .. MaxContacts) \X Files
  <2>1. PICK p \in DOMAIN Plan, n \in Nat : p = step[w].cur.pos /\ n = step[w].cur.n
    BY <1>2, StepRows
  <2>2. n + 1 \in 1 .. Len(Plan[p].files) /\ DOMAIN Plan[p].files = 1 .. Len(Plan[p].files)
    <3>1. DOMAIN Plan[p].files = 1 .. Len(Plan[p].files) /\ Len(Plan[p].files) \in Nat
      BY PlanFacts
    <3>2. PICK q \in Nat : q = Len(Plan[p].files)
      BY <3>1
    <3>3. n < q
      BY <1>4, <2>1, <3>2
    <3>4. n + 1 \in 1 .. q
      BY <3>3
    <3> QED
      BY <3>1, <3>2, <3>4
  <2>3. FileOf(p, n + 1) \in Files
    BY <2>2, PlanFacts
  <2>4. Hand(w) \in Files
    BY <2>1, <2>3 DEF Hand
  <2> QED
    BY <1>3, <2>1, <2>2, <2>4
<1> QED
  BY <1>2, <1>3, <1>4

LEMMA NatSet ==
    ASSUME NEW D, NEW f \in [D -> Nat], NEW x \in D
    PROVE  [f EXCEPT ![x] = f[x] + 1] \in [D -> Nat]
  OBVIOUS

LEMMA MovesKeepRows ==
    ASSUME ImRows, NEW w \in Importers, step' \in [Importers -> StepRow], OneStep(w),
           step'[w].pc = "idle" \/ (step'[w].job \in Jobs /\ step'[w].attempt \in 1 .. MaxTries)
    PROVE  step' \in [Importers -> StepRow]
           /\ \A v \in Importers : AtWork(v)' => step'[v].job \in Jobs /\ step'[v].attempt \in 1 .. MaxTries
  BY DEF ImRows, OneStep, AtWork

LEMMA Links ==
    ASSUME ImRows, OwnersOK, StepsOK, NEW w \in Importers, LinkDocument(w)
    PROVE  /\ step' \in [Importers -> StepRow] /\ OneStep(w) /\ Hand(w) \in Files
           /\ step'[w].pc = "file" /\ step'[w].job = step[w].job /\ step'[w].attempt = step[w].attempt /\ step'[w].done = step[w].done
           /\ step'[w].known = step[w].known /\ step'[w].already = step[w].already \cup {Hand(w)}
           /\ step'[w].cur.pos = step[w].cur.pos /\ step'[w].cur.contact = step[w].cur.contact /\ step'[w].cur.n = step[w].cur.n + 1
<1>1. step[w].cur.n < Len(Plan[step[w].cur.pos].files)
  BY DEF LinkDocument, StepsOK, StepOK
<1>2. Hand(w) \in Files
  BY <1>1, HandIsThere DEF LinkDocument
<1>3. PICK more \in SUBSET Files : more = {Hand(w)}
  BY <1>2
<1>4. step' = [step EXCEPT ![w].pc = "file", ![w].already = step[w].already \cup more, ![w].cur.n = step[w].cur.n + 1]
  BY <1>3 DEF LinkDocument, Hand, FileOf
<1> QED
  BY <1>2, <1>3, <1>4, Advances

LEMMA WorkersKeepSteps ==
    ASSUME ImRows, OwnersOK, StepsOK, NEW w \in Importers, WorkerDoes(w)
    PROVE  /\ step' \in [Importers -> StepRow] /\ OneStep(w)
           /\ \A v \in Importers : AtWork(v)' => step'[v].job \in Jobs /\ step'[v].attempt \in 1 .. MaxTries
<1> DEFINE Here == /\ step' \in [Importers -> StepRow] /\ OneStep(w)
                   /\ step'[w].pc = "idle" \/ (step'[w].job \in Jobs /\ step'[w].attempt \in 1 .. MaxTries)
<1>0. AtWork(w) => step[w].job \in Jobs /\ step[w].attempt \in 1 .. MaxTries
  BY DEF ImRows
<1>1. ASSUME NEW j \in Jobs, NEW a \in 1 .. MaxTries, Take(w, j, a)
      PROVE  Here
  <2>1. CASE import[j].status = "running"
    BY <1>1, <2>1, Takes
  <2>2. CASE import[j].status # "running"
    <3>1. step' = step
      BY <1>1, <2>2 DEF Take
    <3> QED
      BY <1>0, <1>1, <3>1 DEF ImRows, OneStep, Take
  <2> QED
    BY <2>1, <2>2
<1>2. ASSUME step' = [step EXCEPT ![w] = NoStep]
      PROVE  Here
  BY <1>2, Stops
<1>3. ASSUME NEW point \in {"folder", "link", "next", "failed", "saveDone", "saveFailed"}, step' = [step EXCEPT ![w].pc = point], AtWork(w)
      PROVE  Here
  BY <1>0, <1>3, Moves
<1>4. ASSUME Fetcher(w)
      PROVE  Here
  <2>1. AtWork(w)
    BY <1>4 DEF Fetcher, AtWork
  <2>2. \/ step' = [step EXCEPT ![w] = NoStep]
        \/ step' = [step EXCEPT ![w].pc = "folder"] \/ step' = [step EXCEPT ![w].pc = "failed"]
    BY <1>4 DEF Fetcher, Redeliver
  <2> QED
    BY <1>2, <1>3, <2>1, <2>2
<1>5. ASSUME OpenFolder(w)
      PROVE  Here
  <2>1. AtWork(w)
    BY <1>5 DEF OpenFolder, AtWork
  <2> QED
    BY <1>0, <1>5, <2>1, Opens
<1>6. ASSUME SkipFile(w)
      PROVE  Here
  <2>1. AtWork(w)
    BY <1>6 DEF SkipFile, Working, AtWork
  <2> QED
    BY <1>0, <1>6, <2>1, Skips
<1>7. ASSUME LinkDocument(w)
      PROVE  Here
  <2>1. AtWork(w)
    BY <1>7 DEF LinkDocument, AtWork
  <2> QED
    BY SMTT(30), <1>0, <1>7, <2>1, Links
<1>8. ASSUME CloseFolder(w)
      PROVE  Here
  <2>1. AtWork(w) /\ step[w].pc = "file"
    BY <1>8 DEF CloseFolder, AtWork
  <2> QED
    BY <1>0, <1>8, <2>1, HandIsThere, Closes
<1>9. ASSUME SaveDocument(w) \/ Pause(w) \/ Fails(w) \/ Discard(w)
      PROVE  Here
  <2>1. AtWork(w)
    BY <1>9 DEF SaveDocument, Working, Pause, Fails, Discard, AtWork
  <2>2. \/ step' = [step EXCEPT ![w].pc = "link"] \/ step' = [step EXCEPT ![w].pc = "next"]
        \/ step' = [step EXCEPT ![w].pc = "failed"]
        \/ step' = [step EXCEPT ![w].pc = "saveDone"] \/ step' = [step EXCEPT ![w].pc = "saveFailed"]
    BY <1>9 DEF SaveDocument, Pause, Fails, Discard
  <2> QED
    BY <1>3, <2>1, <2>2
<1>10. ASSUME EnqueueNext(w) \/ SaveEnd(w) \/ WorkerDies(w)
       PROVE  Here
  BY <1>2, <1>10 DEF EnqueueNext, SaveEnd, WorkerDies, Redeliver
<1>11. Here
  BY <1>1, <1>4, <1>5, <1>6, <1>7, <1>8, <1>9, <1>10 DEF WorkerDoes
<1> QED
  BY <1>11, MovesKeepRows

\* The folders and files a worker adds stay.
LEMMA Grows ==
    ASSUME ImRows, OwnersOK, StepsOK, NEW w \in Importers, WorkerDoes(w)
    PROVE  /\ contacts' \in Seq([name : Names, cpf : Cpfs])
           /\ DOMAIN contacts \subseteq DOMAIN contacts' /\ \A c \in DOMAIN contacts : contacts'[c] = contacts[c]
           /\ docs' \in [(1 .. MaxContacts) \X Files -> Nat] /\ links' \in [(1 .. MaxContacts) \X Files -> Nat]
           /\ \A cf \in (1 .. MaxContacts) \X Files : docs'[cf] >= docs[cf]
           /\ missed \subseteq missed'
<1>0. contacts \in Seq([name : Names, cpf : Cpfs]) /\ docs \in [(1 .. MaxContacts) \X Files -> Nat]
      /\ links \in [(1 .. MaxContacts) \X Files -> Nat]
  BY DEF ImRows
<1>1. /\ contacts' \in Seq([name : Names, cpf : Cpfs])
      /\ DOMAIN contacts \subseteq DOMAIN contacts' /\ \A c \in DOMAIN contacts : contacts'[c] = contacts[c]
  <2>1. CASE contacts' = contacts
    BY <1>0, <2>1
  <2>2. CASE OpenFolder(w)
    <3>1. CASE contacts' = contacts
      BY <1>0, <3>1
    <3>2. ASSUME NEW pos \in DOMAIN Plan, contacts' = Append(contacts, [name |-> Plan[pos].name, cpf |-> Plan[pos].cpf])
          PROVE  /\ contacts' \in Seq([name : Names, cpf : Cpfs])
                 /\ DOMAIN contacts \subseteq DOMAIN contacts' /\ \A c \in DOMAIN contacts : contacts'[c] = contacts[c]
      <4>1. PICK R : R = [name : Names, cpf : Cpfs]
        OBVIOUS
      <4>2. PICK e : e = [name |-> Plan[pos].name, cpf |-> Plan[pos].cpf]
        OBVIOUS
      <4>3. e \in R
        BY <3>2, <4>1, <4>2, PlanFacts
      <4>4. contacts \in Seq(R) /\ contacts' = Append(contacts, e)
        BY <1>0, <3>2, <4>1, <4>2
      <4>5. contacts' \in Seq(R) /\ DOMAIN contacts \subseteq DOMAIN contacts' /\ \A c \in DOMAIN contacts : contacts'[c] = contacts[c]
        BY <4>3, <4>4
      <4> QED
        BY <4>1, <4>5
    <3> QED
      BY <2>2, <3>1, <3>2, Opens
  <2> QED
    BY <2>1, <2>2 DEF WorkerDoes, Take, Fetcher, SkipFile, SaveDocument, LinkDocument, CloseFolder, Pause, EnqueueNext, Fails,
                      Discard, SaveEnd, WorkerDies
<1>2. docs' \in [(1 .. MaxContacts) \X Files -> Nat] /\ \A cf \in (1 .. MaxContacts) \X Files : docs'[cf] >= docs[cf]
  <2>1. CASE docs' = docs
    BY <1>0, <2>1
  <2>2. CASE SaveDocument(w)
    <3>1. PICK cf : cf = <<step[w].cur.contact, Hand(w)>>
      OBVIOUS
    <3>2. docs' = [docs EXCEPT ![cf] = docs[cf] + 1]
      BY <2>2, <3>1 DEF SaveDocument, Hand, FileOf, NextFile
    <3>3. cf \in (1 .. MaxContacts) \X Files
      BY <2>2, <3>1, HandIsThere DEF SaveDocument, Working
    <3>4. PICK D : D = (1 .. MaxContacts) \X Files
      OBVIOUS
    <3>5. docs \in [D -> Nat] /\ cf \in D
      BY <1>0, <3>3, <3>4
    <3>6. docs' \in [D -> Nat] /\ \A x \in D : docs'[x] >= docs[x]
      BY <3>2, <3>5
    <3> QED
      BY <3>4, <3>6
  <2> QED
    BY <2>1, <2>2 DEF WorkerDoes, Take, Fetcher, OpenFolder, SkipFile, LinkDocument, CloseFolder, Pause, EnqueueNext, Fails,
                      Discard, SaveEnd, WorkerDies
<1>3. links' \in [(1 .. MaxContacts) \X Files -> Nat]
  <2>1. CASE links' = links
    BY <1>0, <2>1
  <2>2. CASE LinkDocument(w)
    <3>1. PICK cf : cf = <<step[w].cur.contact, Hand(w)>>
      OBVIOUS
    <3>2. links' = [links EXCEPT ![cf] = links[cf] + 1]
      BY <2>2, <3>1 DEF LinkDocument, Hand, FileOf
    <3>3. step[w].cur.n < Len(Plan[step[w].cur.pos].files)
      BY <2>2 DEF LinkDocument, StepsOK, StepOK
    <3>4. cf \in (1 .. MaxContacts) \X Files
      BY <2>2, <3>1, <3>3, HandIsThere DEF LinkDocument
    <3> QED
      BY SMTT(30), <1>0, <3>2, <3>4, NatSet
  <2> QED
    BY <2>1, <2>2 DEF WorkerDoes, Take, Fetcher, OpenFolder, SkipFile, SaveDocument, CloseFolder, Pause, EnqueueNext, Fails,
                      Discard, SaveEnd, WorkerDies
<1>4. missed \subseteq missed'
  BY DEF WorkerDoes, Take, Fetcher, OpenFolder, SkipFile, SaveDocument, LinkDocument, CloseFolder, Pause, EnqueueNext, Fails,
         Discard, SaveEnd, WorkerDies
<1> QED
  BY <1>1, <1>2, <1>3, <1>4

\* What a worker saves of its import: where it stopped, or the end.
LEMMA WorkersSave ==
    ASSUME ImRows, OwnersOK, StepsOK, NEW w \in Importers, WorkerDoes(w), NEW j, j = step[w].job
    PROVE  \/ UNCHANGED import
           \/ j \in Jobs /\ Fetcher(w) /\ SavedAs(j, "failed", import[j].done, import[j].cur)
           \/ j \in Jobs /\ CloseFolder(w) /\ SavedAs(j, import[j].status, step[w].cur.pos, NoFolder)
           \/ j \in Jobs /\ Pause(w) /\ SavedAs(j, import[j].status, step[w].done, step[w].cur)
           \/ j \in Jobs /\ Discard(w) /\ SavedAs(j, import[j].status, import[j].done, import[j].cur)
           \/ j \in Jobs /\ SaveEnd(w) /\ SavedAs(j, IF step[w].pc = "saveDone" THEN "done" ELSE "failed", step[w].done, step[w].cur)
<1>0. AtWork(w) => j \in Jobs
  BY DEF ImRows
<1>1. CASE Fetcher(w)
  <2>1. j \in Jobs
    BY <1>0, <1>1 DEF Fetcher, AtWork
  <2>2. UNCHANGED import \/ import' = [import EXCEPT ![j].status = "failed"]
    BY <1>1 DEF Fetcher
  <2> QED
    BY <1>1, <2>1, <2>2, FetcherSaves
<1>2. CASE CloseFolder(w)
  <2>1. j \in Jobs /\ step[w].pc = "file"
    BY <1>0, <1>2 DEF CloseFolder, AtWork
  <2>2. import' = [import EXCEPT ![j].done = step[w].cur.pos, ![j].cur = NoFolder]
    BY <1>2 DEF CloseFolder
  <2>3. step[w].cur.pos \in 0 .. Len(Plan) /\ NoFolder \in CurRow
    <3>1. step[w].cur.pos \in DOMAIN Plan
      BY <2>1, HandIsThere
    <3> QED
      BY <3>1, PlanFacts, NoFolderRow
  <2> QED
    BY <1>2, <2>1, <2>2, <2>3, PlaceSaves
<1>3. CASE Pause(w)
  <2>1. j \in Jobs
    BY <1>0, <1>3 DEF Pause, Working, AtWork
  <2>2. import' = [import EXCEPT ![j].done = step[w].done, ![j].cur = step[w].cur]
    BY <1>3 DEF Pause
  <2>3. step[w].done \in 0 .. Len(Plan) /\ step[w].cur \in CurRow
    BY StepRows
  <2> QED
    BY <1>3, <2>1, <2>2, <2>3, PlaceSaves
<1>4. CASE Discard(w)
  <2>1. j \in Jobs
    BY <1>0, <1>4 DEF Discard, AtWork
  <2>2. UNCHANGED import \/ import' = [import EXCEPT ![j].kept = FALSE]
    BY <1>4 DEF Discard
  <2> QED
    BY <1>4, <2>1, <2>2, ArchiveSaves
<1>5. CASE SaveEnd(w)
  BY <1>5, EndSaves
<1>6. CASE UNCHANGED import
  BY <1>6
<1> QED
  BY <1>1, <1>2, <1>3, <1>4, <1>5, <1>6 DEF WorkerDoes, Take, OpenFolder, SkipFile, SaveDocument, LinkDocument, EnqueueNext, Fails, WorkerDies

LEMMA WorkersKeepMessages ==
    ASSUME ImRows, NEW w \in Importers, WorkerDoes(w)
    PROVE  messages' \in [Jobs \X (1 .. MaxTries) -> Nat]
<1>0. messages \in [Jobs \X (1 .. MaxTries) -> Nat] /\ 1 \in 1 .. MaxTries
  BY PlanFacts DEF ImRows
<1>1. ASSUME NEW j \in Jobs, NEW a \in 1 .. MaxTries, Take(w, j, a)
      PROVE  messages' \in [Jobs \X (1 .. MaxTries) -> Nat]
  <2>1. PICK k : k = messages[<<j, a>>] - 1
    OBVIOUS
  <2>2. messages[<<j, a>>] \in Nat /\ messages[<<j, a>>] > 0
    BY <1>0, <1>1 DEF Take
  <2>3. k \in Nat
    BY <2>1, <2>2
  <2>4. messages' = [messages EXCEPT ![<<j, a>>] = k]
    BY <1>1, <2>1 DEF Take
  <2> QED
    BY <2>3, <2>4, MessageSet
<1>2. CASE AtWork(w) /\ Redeliver(w)
  BY <1>2, Redelivers
<1>3. ASSUME EnqueueNext(w), ~Redeliver(w)
      PROVE  messages' \in [Jobs \X (1 .. MaxTries) -> Nat]
  <2>1. PICK j : j = step[w].job
    OBVIOUS
  <2>2. j \in Jobs
    BY <1>3, <2>1 DEF ImRows, EnqueueNext, AtWork
  <2>3. PICK k : k = messages[<<j, 1>>] + 1
    OBVIOUS
  <2>4. messages[<<j, 1>>] \in Nat
    BY <1>0, <2>2
  <2>5. k \in Nat
    BY <2>3, <2>4
  <2>6. messages' = [messages EXCEPT ![<<j, 1>>] = k]
    BY <1>3, <2>1, <2>3 DEF EnqueueNext
  <2> QED
    BY <1>0, <2>2, <2>5, <2>6, MessageSet
<1>4. CASE UNCHANGED messages
  BY <1>0, <1>4
<1>5. Fetcher(w) => (AtWork(w) /\ Redeliver(w)) \/ UNCHANGED messages
  BY DEF Fetcher, AtWork
<1>6. WorkerDies(w) => AtWork(w) /\ Redeliver(w)
  BY DEF WorkerDies, AtWork
<1>7. EnqueueNext(w) => AtWork(w)
  BY DEF EnqueueNext, AtWork
<1>8. \/ \E j \in Jobs, a \in 1 .. MaxTries : Take(w, j, a)
      \/ Fetcher(w) \/ WorkerDies(w) \/ EnqueueNext(w) \/ UNCHANGED messages
  BY DEF WorkerDoes, OpenFolder, SkipFile, SaveDocument, LinkDocument, CloseFolder, Pause, Fails, Discard, SaveEnd
<1> QED
  BY <1>1, <1>2, <1>3, <1>4, <1>5, <1>6, <1>7, <1>8

LEMMA WorkersKeepRows ==
    ASSUME ImRows, OwnersOK, StepsOK, NEW w \in Importers, WorkerDoes(w)
    PROVE  ImRows'
<1>1. import' \in [Jobs -> ImportRow]
  <2>1. PICK j : j = step[w].job
    OBVIOUS
  <2> QED
    BY <2>1, WorkersSave DEF SavedAs, ImRows
<1>2. UNCHANGED request
  BY DEF WorkerDoes, Take, Fetcher, OpenFolder, SkipFile, SaveDocument, LinkDocument, CloseFolder, Pause, EnqueueNext, Fails,
         Discard, SaveEnd, WorkerDies
<1>3. /\ request \in [Askers -> AskRow]
      /\ \A r \in Askers : request[r].pc # "idle" => request[r].job \in Jobs
  BY DEF ImRows
<1>4. step' \in [Importers -> StepRow]
      /\ \A v \in Importers : AtWork(v)' => step'[v].job \in Jobs /\ step'[v].attempt \in 1 .. MaxTries
  BY WorkersKeepSteps
<1>5. /\ contacts' \in Seq([name : Names, cpf : Cpfs])
      /\ docs' \in [(1 .. MaxContacts) \X Files -> Nat] /\ links' \in [(1 .. MaxContacts) \X Files -> Nat]
  BY Grows
<1>6. messages' \in [Jobs \X (1 .. MaxTries) -> Nat]
  BY WorkersKeepMessages
<1> QED
  BY <1>1, <1>2, <1>3, <1>4, <1>5, <1>6 DEF ImRows

\* Every step is one of a request or of a worker.
LEMMA Steps ==
    ASSUME ImportNext
    PROVE  \/ \E r \in Askers : (\E j \in Jobs : AskImport(r, j) \/ AskDiscard(r, j)) \/ SaveStart(r) \/ EnqueueStart(r)
                                \/ SaveDiscard(r) \/ RequestDies(r)
           \/ \E w \in Importers : WorkerDoes(w)
  BY DEF ImportNext, WorkerDoes

LEMMA RowsKept ==
    ASSUME ImRows, OwnersOK, StepsOK, ImportNext
    PROVE  ImRows'
  BY Steps, AsksKeepRows, WorkersKeepRows

\* The row of a worker that is at work after a step.
LEMMA WorkerRow ==
    ASSUME ImRows, OwnersOK, StepsOK, NEW w \in Importers, WorkerDoes(w), AtWork(w)'
    PROVE  \/ \E j \in Jobs, a \in 1 .. MaxTries : Take(w, j, a) /\ import[j].status = "running"
           \/ OpenFolder(w) \/ SkipFile(w) \/ LinkDocument(w) \/ CloseFolder(w)
           \/ /\ Fetcher(w) \/ SaveDocument(w) \/ Pause(w) \/ Fails(w) \/ Discard(w)
              /\ AtWork(w)
              /\ \E point \in {"folder", "link", "next", "failed", "saveDone", "saveFailed"} : step' = [step EXCEPT ![w].pc = point]
<1>1. ~(step' = [step EXCEPT ![w] = NoStep])
  BY Stops DEF AtWork
<1>2. ASSUME NEW j \in Jobs, NEW a \in 1 .. MaxTries, Take(w, j, a), import[j].status # "running"
      PROVE  FALSE
  BY <1>2 DEF Take, AtWork
<1>3. ~EnqueueNext(w) /\ ~SaveEnd(w) /\ ~WorkerDies(w) /\ ~Redeliver(w)
  BY <1>1 DEF EnqueueNext, SaveEnd, WorkerDies, Redeliver
<1>4. CASE Fetcher(w)
  <2>1. step' = [step EXCEPT ![w].pc = "folder"] \/ step' = [step EXCEPT ![w].pc = "failed"]
    BY <1>1, <1>3, <1>4 DEF Fetcher
  <2>2. AtWork(w)
    BY <1>4 DEF Fetcher, AtWork
  <2> QED
    BY <1>4, <2>1, <2>2
<1>5. CASE SaveDocument(w) \/ Pause(w) \/ Fails(w) \/ Discard(w)
  <2>1. AtWork(w)
    BY <1>5 DEF SaveDocument, Working, Pause, Fails, Discard, AtWork
  <2>2. \/ step' = [step EXCEPT ![w].pc = "link"] \/ step' = [step EXCEPT ![w].pc = "next"]
        \/ step' = [step EXCEPT ![w].pc = "failed"]
        \/ step' = [step EXCEPT ![w].pc = "saveDone"] \/ step' = [step EXCEPT ![w].pc = "saveFailed"]
    BY <1>5 DEF SaveDocument, Pause, Fails, Discard
  <2> QED
    BY <1>5, <2>1, <2>2
<1> QED
  BY <1>2, <1>3, <1>4, <1>5 DEF WorkerDoes

\* The contact of an opened folder: one there is, or the next.
LEMMA OpenedContact ==
    ASSUME ImRows, OwnersOK, StepsOK, NEW w \in Importers, NEW pos \in DOMAIN Plan, pos = step[w].done + 1, AtWork(w)
    PROVE  /\ step[w].cur.pos = pos => step[w].cur.contact \in DOMAIN contacts /\ IsOf(step[w].cur.contact, Plan[pos])
           /\ \A c \in Matches(w, Plan[pos]) : c \in DOMAIN contacts /\ IsOf(c, Plan[pos])
<1>1. StepOK(w)
  BY DEF StepsOK
<1>2. step[w].known \subseteq DOMAIN contacts
  BY DEF OwnersOK
<1>3. step[w].cur.pos = pos => step[w].cur.pos # 0
  BY PlanFacts
<1>4. step[w].cur.pos = pos => step[w].cur.contact \in DOMAIN contacts /\ IsOf(step[w].cur.contact, Plan[pos])
  BY <1>1, <1>3 DEF StepOK, Done
<1>5. \A c \in Matches(w, Plan[pos]) : c \in DOMAIN contacts /\ IsOf(c, Plan[pos])
  BY <1>2 DEF Matches, SameDocument, SameName, IsOf
<1> QED
  BY <1>4, <1>5

LEMMA KnownGrows ==
    ASSUME ImRows, OwnersOK, StepsOK, NEW w \in Importers, WorkerDoes(w), AtWork(w)'
    PROVE  \/ step'[w].known = DOMAIN contacts /\ UNCHANGED contacts
           \/ AtWork(w) /\ UNCHANGED contacts
              /\ \E more \in SUBSET DOMAIN contacts : step'[w].known = step[w].known \cup more
           \/ /\ AtWork(w) /\ step'[w].known = step[w].known \cup {Len(contacts) + 1} /\ step'[w].cur.contact = Len(contacts) + 1
              /\ step'[w].pc = "file"
              /\ \E pos \in DOMAIN Plan :
                    /\ Matches(w, Plan[pos]) = {} /\ pos = step[w].done + 1
                    /\ contacts' = Append(contacts, [name |-> Plan[pos].name, cpf |-> Plan[pos].cpf])
<1> DEFINE Same == AtWork(w) /\ UNCHANGED contacts /\ step'[w].known = step[w].known
<1>0. Same => AtWork(w) /\ UNCHANGED contacts
              /\ \E more \in SUBSET DOMAIN contacts : step'[w].known = step[w].known \cup more
  <2>1. PICK none \in SUBSET DOMAIN contacts : none = {}
    OBVIOUS
  <2>2. step[w].known \cup none = step[w].known
    BY <2>1
  <2> QED
    BY <2>2
<1>1. ASSUME NEW j \in Jobs, NEW a \in 1 .. MaxTries, Take(w, j, a), import[j].status = "running"
      PROVE  step'[w].known = DOMAIN contacts /\ UNCHANGED contacts
  BY <1>1, Takes DEF Take
<1>2. CASE SkipFile(w)
  <2>1. Same
    BY <1>2, Skips DEF SkipFile, Working, AtWork
  <2> QED
    BY <1>0, <2>1
<1>3. CASE LinkDocument(w)
  <2>1. Same
    BY <1>3, Links DEF LinkDocument, AtWork
  <2> QED
    BY <1>0, <2>1
<1>4. CASE CloseFolder(w)
  <2>1. step[w].pc = "file" /\ AtWork(w) /\ UNCHANGED contacts
    BY <1>4 DEF CloseFolder, AtWork
  <2>2. Same
    BY <1>4, <2>1, HandIsThere, Closes
  <2> QED
    BY <1>0, <2>2
<1>5. ASSUME NEW point \in {"folder", "link", "next", "failed", "saveDone", "saveFailed"}, step' = [step EXCEPT ![w].pc = point],
             Fetcher(w) \/ SaveDocument(w) \/ Pause(w) \/ Fails(w) \/ Discard(w), AtWork(w)
      PROVE  Same
  BY <1>5, Moves DEF Fetcher, SaveDocument, Pause, Fails, Discard
<1>6. CASE OpenFolder(w)
  <2>1. AtWork(w)
    BY <1>6 DEF OpenFolder, AtWork
  <2>2. PICK contact \in Nat, pos \in DOMAIN Plan :
           /\ pos = step[w].done + 1
           /\ step'[w].pc = "file" /\ step'[w].known = step[w].known \cup {contact} /\ step'[w].cur.contact = contact
           /\ \/ step[w].cur.pos = pos /\ contact = step[w].cur.contact /\ step'[w].cur.n = step[w].cur.n /\ UNCHANGED contacts
              \/ step[w].cur.pos # pos /\ contact \in Matches(w, Plan[pos]) /\ step'[w].cur.n = 0 /\ UNCHANGED contacts
              \/ /\ step[w].cur.pos # pos /\ Matches(w, Plan[pos]) = {} /\ step'[w].cur.n = 0 /\ contact = Len(contacts) + 1
                 /\ contacts' = Append(contacts, [name |-> Plan[pos].name, cpf |-> Plan[pos].cpf])
    BY <1>6, Opens
  <2>3. UNCHANGED contacts /\ ((contact = step[w].cur.contact /\ step[w].cur.pos = pos) \/ contact \in Matches(w, Plan[pos]))
        => contact \in DOMAIN contacts
    BY <2>1, <2>2, OpenedContact
  <2> QED
    BY <2>1, <2>2, <2>3
<1> QED
  BY <1>0, <1>1, <1>2, <1>3, <1>4, <1>5, <1>6, WorkerRow

LEMMA AsksLeave ==
    ASSUME NEW r \in Askers,
           (\E j \in Jobs : AskImport(r, j) \/ AskDiscard(r, j)) \/ SaveStart(r) \/ EnqueueStart(r) \/ SaveDiscard(r) \/ RequestDies(r)
    PROVE  UNCHANGED <<contacts, docs, links, step, missed, together, torn>>
  BY DEF AskImport, AskDiscard, SaveStart, EnqueueStart, SaveDiscard, RequestDies

LEMMA OwnersKept ==
    ASSUME ImRows, OwnersOK, StepsOK, ImportNext
    PROVE  OwnersOK'
<1>1. CASE UNCHANGED <<contacts, step>>
  BY <1>1 DEF OwnersOK, AtWork
<1>2. ASSUME NEW w \in Importers, WorkerDoes(w)
      PROVE  OwnersOK'
  <2>1. PICK own \in [DOMAIN contacts -> Importers] :
          /\ \A c, d \in DOMAIN contacts : contacts[c].name = contacts[d].name /\ own[c] = own[d] => c = d
          /\ \A v \in Importers : AtWork(v) =>
              /\ step[v].known \subseteq DOMAIN contacts
              /\ \A c \in DOMAIN contacts : own[c] = v => \E d \in step[v].known : contacts[d].name = contacts[c].name
    BY DEF OwnersOK
  <2>2. \A v \in Importers \ {w} : step'[v] = step[v]
    BY <1>2, WorkersKeepSteps DEF OneStep
  <2>3. ASSUME UNCHANGED contacts,
               AtWork(w)' => /\ step'[w].known \subseteq DOMAIN contacts
                             /\ \A c \in DOMAIN contacts : own[c] = w => \E d \in step'[w].known : contacts[d].name = contacts[c].name
        PROVE  OwnersOK'
    <3>1. \A v \in Importers : AtWork(v)' =>
              /\ step'[v].known \subseteq DOMAIN contacts
              /\ \A c \in DOMAIN contacts : own[c] = v => \E d \in step'[v].known : contacts[d].name = contacts[c].name
      <4>1. \A v \in Importers \ {w} : AtWork(v)' => AtWork(v)
        BY <2>2 DEF AtWork
      <4> QED
        BY <2>1, <2>2, <2>3, <4>1
    <3> QED
      BY <2>1, <2>3, <3>1 DEF OwnersOK
  <2>4. CASE ~AtWork(w)'
    <3>1. ~OpenFolder(w)
      BY <2>4, Opens DEF AtWork
    <3>2. UNCHANGED contacts
      BY <1>2, <3>1 DEF WorkerDoes, Take, Fetcher, SkipFile, SaveDocument, LinkDocument, CloseFolder, Pause, EnqueueNext, Fails,
                        Discard, SaveEnd, WorkerDies
    <3> QED
      BY <2>3, <2>4, <3>2
  <2>5. CASE AtWork(w)' /\ step'[w].known = DOMAIN contacts /\ UNCHANGED contacts
    BY <2>3, <2>5
  <2>6. ASSUME AtWork(w)', AtWork(w), UNCHANGED contacts, NEW more \in SUBSET DOMAIN contacts, step'[w].known = step[w].known \cup more
        PROVE  OwnersOK'
    BY <2>1, <2>3, <2>6
  <2>7. ASSUME AtWork(w)', AtWork(w), step'[w].known = step[w].known \cup {Len(contacts) + 1}, NEW pos \in DOMAIN Plan,
               Matches(w, Plan[pos]) = {}, contacts' = Append(contacts, [name |-> Plan[pos].name, cpf |-> Plan[pos].cpf])
        PROVE  OwnersOK'
    <3>1. PICK l \in Nat : l = Len(contacts)
      BY Fits
    <3>2. DOMAIN contacts = 1 .. l
      BY <3>1, Fits
    <3>3. /\ DOMAIN contacts' = 1 .. l + 1 /\ contacts'[l + 1] = [name |-> Plan[pos].name, cpf |-> Plan[pos].cpf]
          /\ \A c \in 1 .. l : contacts'[c] = contacts[c]
      <4>1. PICK e : e = [name |-> Plan[pos].name, cpf |-> Plan[pos].cpf]
        OBVIOUS
      <4>2. contacts' = Append(contacts, e) /\ contacts \in Seq([name : Names, cpf : Cpfs])
        BY <2>7, <4>1 DEF ImRows
      <4> QED
        BY <3>1, <4>1, <4>2
    <3>4. contacts'[l + 1].name = Plan[pos].name
      BY <3>3
    <3>5. \A d \in step[w].known : d \in 1 .. l /\ contacts[d].name # Plan[pos].name
      BY <2>1, <2>7, <3>2 DEF Matches, SameName
    <3>6. \A c \in 1 .. l : own[c] = w => contacts[c].name # Plan[pos].name
      BY <2>1, <2>7, <3>2, <3>5
    <3>7. PICK own2 : own2 = [c \in 1 .. l + 1 |-> IF c = l + 1 THEN w ELSE own[c]]
      OBVIOUS
    <3>8. own2 \in [1 .. l + 1 -> Importers] /\ own2[l + 1] = w /\ \A c \in 1 .. l : own2[c] = own[c]
      BY <2>1, <3>1, <3>2, <3>7
    <3>9. \A c \in 1 .. l + 1 : c \in 1 .. l \/ c = l + 1
      BY <3>1
    <3>10. ASSUME NEW c \in 1 .. l + 1, NEW d \in 1 .. l + 1, contacts'[c].name = contacts'[d].name, own2[c] = own2[d]
           PROVE  c = d
      <4>1. CASE c \in 1 .. l /\ d \in 1 .. l
        <5>1. own[c] = own[d]
          BY <3>8, <3>10, <4>1
        <5>2. contacts[c].name = contacts[d].name
          BY <3>3, <3>10, <4>1
        <5>3. c \in DOMAIN contacts /\ d \in DOMAIN contacts
          BY <3>2, <4>1
        <5> QED
          BY <2>1, <5>1, <5>2, <5>3
      <4>2. CASE c \in 1 .. l /\ d = l + 1
        BY <3>3, <3>4, <3>6, <3>8, <3>10, <4>2
      <4>3. CASE d \in 1 .. l /\ c = l + 1
        BY <3>3, <3>4, <3>6, <3>8, <3>10, <4>3
      <4> QED
        BY <3>9, <4>1, <4>2, <4>3
    <3>11. ASSUME NEW v \in Importers, AtWork(v)'
           PROVE  /\ step'[v].known \subseteq 1 .. l + 1
                  /\ \A c \in 1 .. l + 1 : own2[c] = v => \E d \in step'[v].known : contacts'[d].name = contacts'[c].name
      <4>0. AtWork(v) /\ step[v].known \subseteq step'[v].known
        BY <2>2, <2>7, <3>11 DEF AtWork
      <4>1. step[v].known \subseteq 1 .. l /\ step'[v].known \subseteq 1 .. l + 1
        <5>1. step[v].known \subseteq 1 .. l
          BY <2>1, <3>2, <4>0
        <5>2. 1 .. l \subseteq 1 .. l + 1 /\ l + 1 \in 1 .. l + 1
          BY <3>1
        <5> QED
          BY <2>2, <2>7, <3>1, <5>1, <5>2
      <4>2. ASSUME NEW c \in 1 .. l + 1, own2[c] = v
            PROVE  \E d \in step'[v].known : contacts'[d].name = contacts'[c].name
        <5>1. CASE c = l + 1
          <6>1. v = w
            BY <3>8, <4>2, <5>1
          <6>2. c \in step'[v].known
            BY <2>7, <3>1, <5>1, <6>1
          <6> QED
            BY <6>2
        <5>2. CASE c \in 1 .. l
          <6>1. own[c] = v
            BY <3>8, <4>2, <5>2
          <6>2. PICK d \in step[v].known : contacts[d].name = contacts[c].name
            BY <2>1, <3>2, <4>0, <5>2, <6>1
          <6>3. d \in 1 .. l /\ d \in step'[v].known
            BY <4>0, <4>1
          <6> QED
            BY <3>3, <5>2, <6>2, <6>3
        <5> QED
          BY <3>9, <5>1, <5>2
      <4> QED
        BY <4>1, <4>2
    <3>12. own2 \in [DOMAIN contacts' -> Importers]
      BY <3>3, <3>8
    <3>13. \A c, d \in DOMAIN contacts' : contacts'[c].name = contacts'[d].name /\ own2[c] = own2[d] => c = d
      BY <3>3, <3>10
    <3>14. \A v \in Importers : AtWork(v)' =>
              /\ step'[v].known \subseteq DOMAIN contacts'
              /\ \A c \in DOMAIN contacts' : own2[c] = v => \E d \in step'[v].known : contacts'[d].name = contacts'[c].name
      BY <3>3, <3>11
    <3> QED
      BY SMTT(30), <3>12, <3>13, <3>14 DEF OwnersOK
  <2> QED
    BY <1>2, <2>4, <2>5, <2>6, <2>7, KnownGrows
<1> QED
  BY <1>1, <1>2, Steps, AsksLeave

\* What is there after a step.
LEMMA GrowsAll ==
    ASSUME ImRows, OwnersOK, StepsOK, ImportNext
    PROVE  /\ DOMAIN contacts \subseteq DOMAIN contacts' /\ \A c \in DOMAIN contacts : contacts'[c] = contacts[c]
           /\ \A cf \in (1 .. MaxContacts) \X Files : docs'[cf] \in Nat /\ docs[cf] \in Nat /\ docs'[cf] >= docs[cf]
           /\ missed \subseteq missed'
<1>1. \A cf \in (1 .. MaxContacts) \X Files : docs[cf] \in Nat
  BY DEF ImRows
<1>2. ASSUME NEW w \in Importers, WorkerDoes(w)
      PROVE  /\ DOMAIN contacts \subseteq DOMAIN contacts' /\ \A c \in DOMAIN contacts : contacts'[c] = contacts[c]
             /\ \A cf \in (1 .. MaxContacts) \X Files : docs'[cf] \in Nat /\ docs'[cf] >= docs[cf]
             /\ missed \subseteq missed'
  <2>1. PICK D : D = (1 .. MaxContacts) \X Files
    OBVIOUS
  <2>2. docs' \in [D -> Nat] /\ \A cf \in D : docs'[cf] >= docs[cf]
    BY <1>2, <2>1, Grows
  <2>3. \A cf \in D : docs'[cf] \in Nat /\ docs'[cf] >= docs[cf]
    BY <2>2
  <2> QED
    BY <1>2, <2>1, <2>3, Grows
<1>3. ASSUME UNCHANGED <<contacts, docs, missed>>
      PROVE  /\ DOMAIN contacts \subseteq DOMAIN contacts' /\ \A c \in DOMAIN contacts : contacts'[c] = contacts[c]
             /\ \A cf \in (1 .. MaxContacts) \X Files : docs'[cf] \in Nat /\ docs'[cf] >= docs[cf]
             /\ missed \subseteq missed'
  <2>1. PICK D : D = (1 .. MaxContacts) \X Files
    OBVIOUS
  <2>2. \A cf \in D : docs[cf] \in Nat
    BY <1>1, <2>1
  <2>3. \A cf \in D : docs'[cf] \in Nat /\ docs'[cf] >= docs[cf]
    BY <1>3, <2>2
  <2> QED
    BY <1>3, <2>1, <2>3
<1> QED
  BY <1>1, <1>2, <1>3, Steps, AsksLeave

IsThen(contact, folder) ==
    contacts'[contact].name = folder.name \/ (folder.cpf # NoCpf /\ contacts'[contact].cpf = folder.cpf)
KeptThen(j, i, n) ==
    <<j, FileOf(i, n)>> \in missed' \/ \E c \in DOMAIN contacts' : IsThen(c, Plan[i]) /\ docs'[<<c, FileOf(i, n)>>] > 0
FolderThen(j, i) == \A n \in DOMAIN Plan[i].files : KeptThen(j, i, n)
AtThen(j, done, cur) ==
    /\ cur.pos = done + 1 /\ cur.pos \in DOMAIN Plan /\ cur.contact \in DOMAIN contacts' /\ IsThen(cur.contact, Plan[cur.pos])
    /\ cur.n <= Len(Plan[cur.pos].files) /\ \A n \in 1 .. cur.n : KeptThen(j, cur.pos, n)
DoneThen(j, done, cur) == (\A i \in 1 .. done : FolderThen(j, i)) /\ (cur.pos # 0 => AtThen(j, done, cur))

LEMMA IsStays ==
    ASSUME ImRows, OwnersOK, StepsOK, ImportNext, NEW c \in DOMAIN contacts, NEW i \in DOMAIN Plan, IsOf(c, Plan[i])
    PROVE  c \in DOMAIN contacts' /\ IsThen(c, Plan[i])
<1>1. c \in DOMAIN contacts' /\ contacts'[c] = contacts[c]
  BY GrowsAll
<1> QED
  BY <1>1 DEF IsOf, IsThen

LEMMA DocStays ==
    ASSUME ImRows, OwnersOK, StepsOK, ImportNext, NEW c \in DOMAIN contacts, NEW f \in Files, docs[<<c, f>>] > 0
    PROVE  docs'[<<c, f>>] > 0
<1>1. PICK cf : cf = <<c, f>>
  OBVIOUS
<1>2. cf \in (1 .. MaxContacts) \X Files
  BY <1>1, Fits
<1>3. docs'[cf] \in Nat /\ docs[cf] \in Nat /\ docs'[cf] >= docs[cf]
  BY <1>2, GrowsAll
<1> QED
  BY <1>1, <1>3

LEMMA KeptStays ==
    ASSUME ImRows, OwnersOK, StepsOK, ImportNext, NEW j, NEW i \in DOMAIN Plan, NEW n \in DOMAIN Plan[i].files, KeptFile(j, i, n)
    PROVE  KeptThen(j, i, n)
<1>1. PICK f : f = FileOf(i, n)
  OBVIOUS
<1>2. f \in Files
  BY <1>1, PlanFacts
<1>3. CASE <<j, f>> \in missed
  BY <1>1, <1>3, GrowsAll DEF KeptThen
<1>4. ASSUME NEW c \in DOMAIN contacts, IsOf(c, Plan[i]), docs[<<c, f>>] > 0
      PROVE  KeptThen(j, i, n)
  <2>1. c \in DOMAIN contacts' /\ IsThen(c, Plan[i])
    BY <1>4, IsStays
  <2>2. docs'[<<c, f>>] > 0
    BY <1>2, <1>4, DocStays
  <2> QED
    BY <1>1, <2>1, <2>2 DEF KeptThen
<1> QED
  BY <1>1, <1>3, <1>4 DEF KeptFile

LEMMA FolderStays ==
    ASSUME ImRows, OwnersOK, StepsOK, ImportNext, NEW j, NEW i \in DOMAIN Plan, FolderKept(j, i)
    PROVE  FolderThen(j, i)
  BY KeptStays DEF FolderKept, FolderThen

LEMMA DoneStays ==
    ASSUME ImRows, OwnersOK, StepsOK, ImportNext, NEW j, NEW done \in 0 .. Len(Plan), NEW cur \in CurRow, Done(j, done, cur)
    PROVE  DoneThen(j, done, cur)
<1>1. \A i \in 1 .. done : i \in DOMAIN Plan
  BY PlanFacts
<1>2. \A i \in 1 .. done : FolderThen(j, i)
  BY <1>1, FolderStays DEF Done
<1>3. ASSUME cur.pos # 0
      PROVE  AtThen(j, done, cur)
  <2>1. /\ cur.pos = done + 1 /\ cur.pos \in DOMAIN Plan /\ cur.contact \in DOMAIN contacts /\ IsOf(cur.contact, Plan[cur.pos])
        /\ cur.n <= Len(Plan[cur.pos].files) /\ \A n \in 1 .. cur.n : KeptFile(j, cur.pos, n)
    BY <1>3 DEF Done
  <2>2. cur.contact \in DOMAIN contacts' /\ IsThen(cur.contact, Plan[cur.pos])
    BY <2>1, IsStays
  <2>3. cur.n \in Nat /\ Len(Plan[cur.pos].files) \in Nat /\ DOMAIN Plan[cur.pos].files = 1 .. Len(Plan[cur.pos].files)
    BY <2>1, PlanFacts DEF CurRow
  <2>4. \A n \in 1 .. cur.n : n \in DOMAIN Plan[cur.pos].files
    <3>1. PICK m \in Nat, l \in Nat : m = cur.n /\ l = Len(Plan[cur.pos].files)
      BY <2>3
    <3>2. \A n \in 1 .. m : n \in 1 .. l
      BY <2>1, <3>1
    <3> QED
      BY <2>3, <3>1, <3>2
  <2>5. \A n \in 1 .. cur.n : KeptThen(j, cur.pos, n)
    BY <2>1, <2>4, KeptStays
  <2> QED
    BY <2>1, <2>2, <2>5 DEF AtThen
<1> QED
  BY <1>2, <1>3 DEF DoneThen

\* The two ways to read them.
LEMMA ThenOfStep ==
    ASSUME NEW w \in Importers, DoneThen(step'[w].job, step'[w].done, step'[w].cur)
    PROVE  Done(step[w].job, step[w].done, step[w].cur)'
  BY DEF DoneThen, AtThen, FolderThen, KeptThen, IsThen, Done, FolderKept, KeptFile, IsOf, FileOf

LEMMA ThenOfImport ==
    ASSUME NEW j \in Jobs, DoneThen(j, import'[j].done, import'[j].cur)
    PROVE  Done(j, import[j].done, import[j].cur)'
  BY DEF DoneThen, AtThen, FolderThen, KeptThen, IsThen, Done, FolderKept, KeptFile, IsOf, FileOf

LEMMA ThenOfPlan ==
    ASSUME NEW j \in Jobs, \A i \in DOMAIN Plan : FolderThen(j, i)
    PROVE  (\A i \in DOMAIN Plan : FolderKept(j, i))'
  BY DEF FolderThen, KeptThen, IsThen, FolderKept, KeptFile, IsOf, FileOf

StoredThen(contact) == {f \in Files : docs'[<<contact, f>>] > 0}
LEMMA StoredStays ==
    ASSUME ImRows, OwnersOK, StepsOK, ImportNext, NEW c \in DOMAIN contacts
    PROVE  Stored(c) \subseteq StoredThen(c)
  BY DocStays DEF Stored, StoredThen

\* The parts of StepOK after a step.
LEMMA StepThen ==
    ASSUME NEW w \in Importers,
           step'[w].pc # "idle" => DoneThen(step'[w].job, step'[w].done, step'[w].cur),
           step'[w].pc \in {"file", "link", "next"} => step'[w].cur.pos # 0,
           step'[w].pc \in {"file", "link"} => step'[w].already \subseteq StoredThen(step'[w].cur.contact),
           step'[w].pc = "link" => /\ step'[w].cur.n < Len(Plan[step'[w].cur.pos].files)
                                   /\ docs'[<<step'[w].cur.contact, FileOf(step'[w].cur.pos, step'[w].cur.n + 1)>>] > 0,
           step'[w].pc = "saveDone" => step'[w].done = Len(Plan)
    PROVE  StepOK(w)'
<1>1. AtWork(w)' => Done(step[w].job, step[w].done, step[w].cur)'
  BY ThenOfStep DEF AtWork
<1>2. step'[w].pc \in {"file", "link"} => step'[w].already \subseteq Stored(step[w].cur.contact)'
  BY DEF Stored, StoredThen
<1>3. step'[w].pc = "link" => step'[w].cur.n < Len(Plan[step'[w].cur.pos].files) /\ docs'[<<step'[w].cur.contact, Hand(w)'>>] > 0
  BY DEF Hand, FileOf
<1> QED
  BY <1>1, <1>2, <1>3 DEF StepOK

LEMMA OldDone ==
    ASSUME ImRows, OwnersOK, StepsOK, ImportNext, NEW w \in Importers, AtWork(w)
    PROVE  DoneThen(step[w].job, step[w].done, step[w].cur)
<1>1. Done(step[w].job, step[w].done, step[w].cur)
  BY DEF StepsOK, StepOK
<1>2. step[w].done \in 0 .. Len(Plan) /\ step[w].cur \in CurRow
  BY StepRows
<1> QED
  BY <1>1, <1>2, DoneStays

LEMMA OldStored ==
    ASSUME ImRows, OwnersOK, StepsOK, ImportNext, NEW w \in Importers, step[w].pc \in {"file", "link"}
    PROVE  step[w].already \subseteq StoredThen(step[w].cur.contact)
<1>1. step[w].already \subseteq Stored(step[w].cur.contact)
  BY DEF StepsOK, StepOK
<1>2. step[w].cur.contact \in DOMAIN contacts
  BY HandIsThere
<1> QED
  BY <1>1, <1>2, StoredStays

LEMMA OldHand ==
    ASSUME ImRows, OwnersOK, StepsOK, ImportNext, NEW w \in Importers, step[w].pc = "link"
    PROVE  /\ step[w].cur.n < Len(Plan[step[w].cur.pos].files) /\ Hand(w) \in Files
           /\ docs'[<<step[w].cur.contact, Hand(w)>>] > 0
<1>1. step[w].cur.n < Len(Plan[step[w].cur.pos].files) /\ docs[<<step[w].cur.contact, Hand(w)>>] > 0
  BY DEF StepsOK, StepOK
<1>2. step[w].cur.contact \in DOMAIN contacts /\ Hand(w) \in Files
  BY <1>1, HandIsThere
<1> QED
  BY <1>1, <1>2, DocStays

LEMMA OthersOK ==
    ASSUME ImRows, OwnersOK, StepsOK, ImportNext, NEW w \in Importers, step'[w] = step[w]
    PROVE  StepOK(w)'
<1>1. step'[w].pc # "idle" => DoneThen(step'[w].job, step'[w].done, step'[w].cur)
  BY OldDone DEF AtWork
<1>2. step'[w].pc \in {"file", "link", "next"} => step'[w].cur.pos # 0
  BY DEF StepsOK, StepOK
<1>3. step'[w].pc \in {"file", "link"} => step'[w].already \subseteq StoredThen(step'[w].cur.contact)
  BY OldStored
<1>4. step'[w].pc = "link" => /\ step'[w].cur.n < Len(Plan[step'[w].cur.pos].files)
                              /\ docs'[<<step'[w].cur.contact, FileOf(step'[w].cur.pos, step'[w].cur.n + 1)>>] > 0
  BY OldHand DEF Hand
<1>5. step'[w].pc = "saveDone" => step'[w].done = Len(Plan)
  BY DEF StepsOK, StepOK
<1> QED
  BY <1>1, <1>2, <1>3, <1>4, <1>5, StepThen

\* One more file was stored, or could not be fetched.
LEMMA OneFileMore ==
    ASSUME ImRows, OwnersOK, StepsOK, ImportNext, NEW w \in Importers, step[w].pc \in {"file", "link"},
           step[w].cur.n < Len(Plan[step[w].cur.pos].files), step'[w].done = step[w].done, step'[w].job = step[w].job,
           step'[w].cur.pos = step[w].cur.pos, step'[w].cur.contact = step[w].cur.contact, step'[w].cur.n = step[w].cur.n + 1,
           <<step[w].job, Hand(w)>> \in missed' \/ docs'[<<step[w].cur.contact, Hand(w)>>] > 0
    PROVE  DoneThen(step'[w].job, step'[w].done, step'[w].cur)
<1>1. DoneThen(step[w].job, step[w].done, step[w].cur)
  BY OldDone DEF AtWork
<1>2. step[w].cur.pos # 0 /\ step[w].cur.pos \in DOMAIN Plan
  BY HandIsThere DEF StepsOK, StepOK
<1>3. AtThen(step[w].job, step[w].done, step[w].cur)
  BY <1>1, <1>2 DEF DoneThen
<1>4. PICK p \in DOMAIN Plan, n \in Nat, l \in Nat : p = step[w].cur.pos /\ n = step[w].cur.n /\ l = Len(Plan[p].files)
  BY <1>2, StepRows, PlanFacts
<1>5. Hand(w) = FileOf(p, n + 1)
  BY <1>4 DEF Hand
<1>6. KeptThen(step[w].job, p, n + 1)
  <2>1. step[w].cur.contact \in DOMAIN contacts' /\ IsThen(step[w].cur.contact, Plan[p])
    BY <1>3, <1>4 DEF AtThen
  <2> QED
    BY <1>5, <2>1 DEF KeptThen
<1>7. n + 1 <= l
  BY <1>4
<1>8. \A m \in 1 .. n + 1 : KeptThen(step[w].job, p, m)
  <2>1. \A m \in 1 .. n : KeptThen(step[w].job, p, m)
    BY <1>3, <1>4 DEF AtThen
  <2>2. \A m \in 1 .. n + 1 : m \in 1 .. n \/ m = n + 1
    BY <1>4
  <2> QED
    BY <1>6, <2>1, <2>2
<1>9. AtThen(step'[w].job, step'[w].done, step'[w].cur)
  BY <1>3, <1>4, <1>7, <1>8 DEF AtThen
<1>10. \A i \in 1 .. step'[w].done : FolderThen(step'[w].job, i)
  BY <1>1 DEF DoneThen
<1> QED
  BY <1>9, <1>10 DEF DoneThen

\* One more folder is done.
LEMMA OneFolderMore ==
    ASSUME ImRows, OwnersOK, StepsOK, ImportNext, NEW w \in Importers, CloseFolder(w)
    PROVE  DoneThen(step[w].job, step[w].cur.pos, NoFolder)
<1>0. step[w].pc = "file" /\ ~(step[w].cur.n < Len(Plan[step[w].cur.pos].files))
  BY DEF CloseFolder, Working
<1>1. DoneThen(step[w].job, step[w].done, step[w].cur)
  BY <1>0, OldDone DEF AtWork
<1>2. step[w].cur.pos # 0 /\ step[w].cur.pos \in DOMAIN Plan
  BY <1>0, HandIsThere DEF StepsOK, StepOK
<1>3. AtThen(step[w].job, step[w].done, step[w].cur)
  BY <1>1, <1>2 DEF DoneThen
<1>4. PICK p \in DOMAIN Plan, n \in Nat, l \in Nat, d \in Nat :
        p = step[w].cur.pos /\ n = step[w].cur.n /\ l = Len(Plan[p].files) /\ d = step[w].done
  <2>1. step[w].done \in Nat
    BY StepRows
  <2> QED
    BY <1>2, <2>1, StepRows, PlanFacts
<1>5. n = l /\ p = d + 1 /\ DOMAIN Plan[p].files = 1 .. l
  BY <1>0, <1>3, <1>4, PlanFacts DEF AtThen
<1>6. FolderThen(step[w].job, p)
  BY <1>3, <1>4, <1>5 DEF AtThen, FolderThen
<1>7. \A i \in 1 .. d : FolderThen(step[w].job, i)
  BY <1>1, <1>4 DEF DoneThen
<1>8. \A i \in 1 .. p : i \in 1 .. d \/ i = p
  BY <1>4, <1>5
<1>9. \A i \in 1 .. p : FolderThen(step[w].job, i)
  BY <1>6, <1>7, <1>8
<1> QED
  BY <1>4, <1>9, NoFolderRow DEF DoneThen

LEMMA Appended ==
    ASSUME ImRows, OwnersOK, NEW pos \in DOMAIN Plan, contacts' = Append(contacts, [name |-> Plan[pos].name, cpf |-> Plan[pos].cpf])
    PROVE  /\ Len(contacts) \in Nat /\ DOMAIN contacts = 1 .. Len(contacts) /\ DOMAIN contacts' = 1 .. Len(contacts) + 1
           /\ Len(contacts) + 1 \in DOMAIN contacts' /\ Len(contacts) + 1 \notin DOMAIN contacts
           /\ DOMAIN contacts' = DOMAIN contacts \cup {Len(contacts) + 1}
           /\ contacts'[Len(contacts) + 1].name = Plan[pos].name /\ contacts'[Len(contacts) + 1].cpf = Plan[pos].cpf
           /\ \A c \in DOMAIN contacts : contacts'[c] = contacts[c]
<1>1. PICK e : e = [name |-> Plan[pos].name, cpf |-> Plan[pos].cpf]
  BY SMTT(30)
<1>2. PICK l \in Nat : l = Len(contacts)
  BY Fits
<1>3. contacts' = Append(contacts, e) /\ contacts \in Seq([name : Names, cpf : Cpfs]) /\ DOMAIN contacts = 1 .. l
  BY <1>1, <1>2, Fits DEF ImRows
<1>4. DOMAIN contacts' = 1 .. l + 1 /\ contacts'[l + 1] = e /\ \A c \in 1 .. l : contacts'[c] = contacts[c]
  BY <1>2, <1>3
<1>5. l + 1 \in 1 .. l + 1 /\ l + 1 \notin 1 .. l /\ 1 .. l + 1 = (1 .. l) \cup {l + 1}
  BY <1>2
<1>6. contacts'[l + 1].name = Plan[pos].name /\ contacts'[l + 1].cpf = Plan[pos].cpf
  BY <1>1, <1>4
<1> QED
  BY <1>2, <1>3, <1>4, <1>5, <1>6

LEMMA OpenedOK ==
    ASSUME ImRows, OwnersOK, StepsOK, ImportNext, NEW w \in Importers, OpenFolder(w)
    PROVE  StepOK(w)'
<1>0. AtWork(w) /\ UNCHANGED docs
  BY DEF OpenFolder, AtWork
<1>1. PICK contact \in Nat, pos \in DOMAIN Plan :
           /\ pos = step[w].done + 1
           /\ step' \in [Importers -> StepRow] /\ OneStep(w)
           /\ step'[w].pc = "file" /\ step'[w].job = step[w].job /\ step'[w].attempt = step[w].attempt /\ step'[w].done = step[w].done
           /\ step'[w].known = step[w].known \cup {contact} /\ step'[w].already = Stored(contact)
           /\ step'[w].cur \in CurRow /\ step'[w].cur.pos = pos /\ step'[w].cur.contact = contact
           /\ \/ step[w].cur.pos = pos /\ contact = step[w].cur.contact /\ step'[w].cur.n = step[w].cur.n /\ UNCHANGED contacts
              \/ step[w].cur.pos # pos /\ contact \in Matches(w, Plan[pos]) /\ step'[w].cur.n = 0 /\ UNCHANGED contacts
              \/ /\ step[w].cur.pos # pos /\ Matches(w, Plan[pos]) = {} /\ step'[w].cur.n = 0 /\ contact = Len(contacts) + 1
                 /\ contacts' = Append(contacts, [name |-> Plan[pos].name, cpf |-> Plan[pos].cpf])
  BY Opens
<1>2. DoneThen(step[w].job, step[w].done, step[w].cur)
  BY <1>0, OldDone
<1>3. pos # 0 /\ Len(Plan[pos].files) \in Nat
  BY PlanFacts
<1>4. ASSUME contact \in DOMAIN contacts', IsThen(contact, Plan[pos]), step'[w].cur.n = 0
      PROVE  AtThen(step'[w].job, step'[w].done, step'[w].cur)
  <2>1. 0 <= Len(Plan[pos].files) /\ 1 .. 0 = {}
    BY <1>3
  <2> QED
    BY <1>1, <1>4, <2>1 DEF AtThen
<1>5. AtThen(step'[w].job, step'[w].done, step'[w].cur)
  <2>1. CASE step[w].cur.pos = pos /\ contact = step[w].cur.contact /\ step'[w].cur.n = step[w].cur.n /\ UNCHANGED contacts
    <3>1. AtThen(step[w].job, step[w].done, step[w].cur)
      BY <1>2, <1>3, <2>1 DEF DoneThen
    <3> QED
      BY <1>1, <2>1, <3>1 DEF AtThen
  <2>2. CASE contact \in Matches(w, Plan[pos]) /\ step'[w].cur.n = 0
    <3>1. contact \in DOMAIN contacts /\ IsOf(contact, Plan[pos])
      BY <1>0, <1>1, <2>2, OpenedContact
    <3>2. contact \in DOMAIN contacts' /\ IsThen(contact, Plan[pos])
      BY <3>1, IsStays
    <3> QED
      BY <1>4, <2>2, <3>2
  <2>3. CASE step'[w].cur.n = 0 /\ contact = Len(contacts) + 1
             /\ contacts' = Append(contacts, [name |-> Plan[pos].name, cpf |-> Plan[pos].cpf])
    <3>1. contact \in DOMAIN contacts' /\ contacts'[contact].name = Plan[pos].name
      BY <2>3, Appended
    <3>2. IsThen(contact, Plan[pos])
      BY <3>1 DEF IsThen
    <3> QED
      BY <1>4, <2>3, <3>1, <3>2
  <2> QED
    BY <1>1, <2>1, <2>2, <2>3
<1>6. DoneThen(step'[w].job, step'[w].done, step'[w].cur)
  BY <1>1, <1>2, <1>5 DEF DoneThen
<1>7. step'[w].already \subseteq StoredThen(step'[w].cur.contact)
  BY <1>0, <1>1 DEF Stored, StoredThen
<1> QED
  BY <1>1, <1>3, <1>6, <1>7, StepThen

LEMMA TakenOK ==
    ASSUME ImRows, OwnersOK, StepsOK, ImportsOK, ImportNext, NEW w \in Importers, NEW j \in Jobs, NEW a \in 1 .. MaxTries,
           Take(w, j, a), import[j].status = "running"
    PROVE  StepOK(w)'
<1>1. step'[w].pc \in {"fetcher", "failed"} /\ step'[w].job = j /\ step'[w].done = import[j].done /\ step'[w].cur = import[j].cur
  BY Takes
<1>2. Done(j, import[j].done, import[j].cur)
  BY DEF ImportsOK
<1>3. DoneThen(j, import[j].done, import[j].cur)
  BY <1>2, ImportRows, DoneStays
<1> QED
  BY <1>1, <1>3, StepThen

LEMMA SkippedOK ==
    ASSUME ImRows, OwnersOK, StepsOK, ImportNext, NEW w \in Importers, SkipFile(w)
    PROVE  StepOK(w)'
<1>1. step[w].pc = "file" /\ step[w].cur.n < Len(Plan[step[w].cur.pos].files) /\ NextFile(w) = Hand(w)
  BY DEF SkipFile, Working, NextFile, Hand, FileOf
<1>2. /\ step'[w].pc = "file" /\ step'[w].job = step[w].job /\ step'[w].done = step[w].done /\ step'[w].already = step[w].already
      /\ step'[w].cur.pos = step[w].cur.pos /\ step'[w].cur.contact = step[w].cur.contact /\ step'[w].cur.n = step[w].cur.n + 1
  BY Skips
<1>3. step[w].already \subseteq StoredThen(step[w].cur.contact)
  BY <1>1, OldStored
<1>4. <<step[w].job, Hand(w)>> \in missed' \/ docs'[<<step[w].cur.contact, Hand(w)>>] > 0
  <2>1. CASE IsRepeated(w)
    BY <1>1, <1>3, <2>1 DEF IsRepeated, StoredThen
  <2>2. CASE missed' = missed \cup {<<step[w].job, Hand(w)>>}
    BY <2>2
  <2> QED
    BY <1>1, <2>1, <2>2 DEF SkipFile
<1>5. DoneThen(step'[w].job, step'[w].done, step'[w].cur)
  BY <1>1, <1>2, <1>4, OneFileMore
<1>6. step'[w].cur.pos # 0
  BY <1>1, <1>2 DEF StepsOK, StepOK
<1> QED
  BY <1>2, <1>3, <1>5, <1>6, StepThen

LEMMA LinkedOK ==
    ASSUME ImRows, OwnersOK, StepsOK, ImportNext, NEW w \in Importers, LinkDocument(w)
    PROVE  StepOK(w)'
<1>1. step[w].pc = "link"
  BY DEF LinkDocument
<1>2. /\ step'[w].pc = "file" /\ step'[w].job = step[w].job /\ step'[w].done = step[w].done
      /\ step'[w].already = step[w].already \cup {Hand(w)}
      /\ step'[w].cur.pos = step[w].cur.pos /\ step'[w].cur.contact = step[w].cur.contact /\ step'[w].cur.n = step[w].cur.n + 1
  BY Links
<1>3. step[w].already \subseteq StoredThen(step[w].cur.contact)
  BY <1>1, OldStored
<1>4. /\ step[w].cur.n < Len(Plan[step[w].cur.pos].files) /\ Hand(w) \in Files
      /\ docs'[<<step[w].cur.contact, Hand(w)>>] > 0
  BY <1>1, OldHand
<1>5. DoneThen(step'[w].job, step'[w].done, step'[w].cur)
  BY <1>1, <1>2, <1>4, OneFileMore
<1>6. step'[w].cur.pos # 0
  BY <1>1, <1>2 DEF StepsOK, StepOK
<1>7. step'[w].already \subseteq StoredThen(step'[w].cur.contact)
  BY <1>2, <1>3, <1>4 DEF StoredThen
<1> QED
  BY <1>2, <1>5, <1>6, <1>7, StepThen

LEMMA ClosedOK ==
    ASSUME ImRows, OwnersOK, StepsOK, ImportNext, NEW w \in Importers, CloseFolder(w)
    PROVE  StepOK(w)'
<1>1. step[w].pc = "file"
  BY DEF CloseFolder
<1>2. step[w].cur.pos \in DOMAIN Plan
  BY <1>1, HandIsThere
<1>3. step'[w].pc = "folder" /\ step'[w].job = step[w].job /\ step'[w].done = step[w].cur.pos /\ step'[w].cur = NoFolder
  BY <1>2, Closes
<1>4. DoneThen(step[w].job, step[w].cur.pos, NoFolder)
  BY OneFolderMore
<1> QED
  BY <1>3, <1>4, StepThen

LEMMA MovedOK ==
    ASSUME ImRows, OwnersOK, StepsOK, ImportNext, NEW w \in Importers, AtWork(w),
           Fetcher(w) \/ SaveDocument(w) \/ Pause(w) \/ Fails(w) \/ Discard(w),
           NEW point \in {"folder", "link", "next", "failed", "saveDone", "saveFailed"}, step' = [step EXCEPT ![w].pc = point]
    PROVE  StepOK(w)'
<1>1. /\ step' \in [Importers -> StepRow] /\ OneStep(w)
      /\ step'[w].pc = point /\ step'[w].job = step[w].job /\ step'[w].attempt = step[w].attempt /\ step'[w].done = step[w].done
      /\ step'[w].cur = step[w].cur /\ step'[w].known = step[w].known /\ step'[w].already = step[w].already
  BY Moves
<1>2. DoneThen(step'[w].job, step'[w].done, step'[w].cur)
  BY <1>1, OldDone
<1>3. /\ point = "link" => SaveDocument(w)
      /\ point = "next" => Pause(w)
      /\ point = "saveDone" => step[w].done = Len(Plan)
  <2>0. step[w] \in StepRow
    BY DEF ImRows
  <2>1. Fetcher(w) => point \in {"folder", "failed"}
    <3>1. NoStep.pc = "idle"
      BY DEF NoStep
    <3>2. Fetcher(w) => step'[w].pc \in {"folder", "failed", "idle"}
      BY <2>0, <3>1 DEF Fetcher, Redeliver, ImRows, StepRow
    <3> QED
      BY <1>1, <3>2
  <2>2. SaveDocument(w) => point = "link"
    BY <1>1, <2>0 DEF SaveDocument, ImRows, StepRow
  <2>3. Pause(w) => point = "next"
    BY <1>1, <2>0 DEF Pause, ImRows, StepRow
  <2>4. Fails(w) => point = "failed"
    BY <1>1, <2>0 DEF Fails, ImRows, StepRow
  <2>5. Discard(w) => point = "saveFailed" \/ (point = "saveDone" /\ step[w].done = Len(Plan))
    BY <1>1, <2>0 DEF Discard, ImRows, StepRow
  <2> QED
    BY <2>1, <2>2, <2>3, <2>4, <2>5
<1>4. point \in {"link", "next"} => step[w].pc = "file"
  BY <1>3 DEF SaveDocument, Pause, Working
<1>5. step'[w].pc \in {"file", "link", "next"} => step'[w].cur.pos # 0
  BY <1>1, <1>4 DEF StepsOK, StepOK
<1>6. step'[w].pc \in {"file", "link"} => step'[w].already \subseteq StoredThen(step'[w].cur.contact)
  BY <1>1, <1>4, OldStored
<1>7. step'[w].pc = "link" => /\ step'[w].cur.n < Len(Plan[step'[w].cur.pos].files)
                              /\ docs'[<<step'[w].cur.contact, FileOf(step'[w].cur.pos, step'[w].cur.n + 1)>>] > 0
  <2>1. SUFFICES ASSUME SaveDocument(w)
                 PROVE  /\ step[w].cur.n < Len(Plan[step[w].cur.pos].files)
                        /\ docs'[<<step[w].cur.contact, Hand(w)>>] > 0
    BY <1>1, <1>3 DEF Hand
  <2>2. step[w].cur.n < Len(Plan[step[w].cur.pos].files) /\ step[w].pc = "file"
    BY <2>1 DEF SaveDocument, Working
  <2>3. PICK cf : cf = <<step[w].cur.contact, Hand(w)>>
    OBVIOUS
  <2>4. cf \in (1 .. MaxContacts) \X Files
    BY <2>2, <2>3, HandIsThere
  <2>5. docs' = [docs EXCEPT ![cf] = docs[cf] + 1]
    BY <2>1, <2>3 DEF SaveDocument, Hand, FileOf, NextFile
  <2>6. docs[cf] \in Nat /\ docs'[cf] = docs[cf] + 1
    BY <2>4, <2>5 DEF ImRows
  <2> QED
    BY <2>2, <2>3, <2>6
<1>8. step'[w].pc = "saveDone" => step'[w].done = Len(Plan)
  BY <1>1, <1>3
<1> QED
  BY <1>2, <1>5, <1>6, <1>7, <1>8, StepThen

LEMMA StepsKept ==
    ASSUME ImRows, OwnersOK, StepsOK, ImportsOK, ImportNext
    PROVE  StepsOK'
<1>1. CASE step' = step
  BY <1>1, OthersOK DEF StepsOK
<1>2. ASSUME NEW w \in Importers, WorkerDoes(w)
      PROVE  StepsOK'
  <2>1. \A v \in Importers \ {w} : step'[v] = step[v]
    BY <1>2, WorkersKeepSteps DEF OneStep
  <2>2. \A v \in Importers \ {w} : StepOK(v)'
    BY <2>1, OthersOK
  <2>3. StepOK(w)'
    <3>1. CASE ~AtWork(w)'
      BY <3>1, StepThen DEF AtWork
    <3>2. CASE AtWork(w)'
      BY <1>2, <3>2, WorkerRow, TakenOK, OpenedOK, SkippedOK, LinkedOK, ClosedOK, MovedOK
    <3> QED
      BY <3>1, <3>2
  <2> QED
    BY <2>2, <2>3 DEF StepsOK
<1> QED
  BY <1>1, <1>2, Steps, AsksLeave

\* What the row of an import says stays done, or is what its worker says.
ImportThen(j) ==
    /\ DoneThen(j, import'[j].done, import'[j].cur)
    /\ import'[j].status = "done" => \A i \in DOMAIN Plan : FolderThen(j, i)
LEMMA ImportThenOK ==
    ASSUME NEW j \in Jobs, ImportThen(j)
    PROVE  (/\ Done(j, import[j].done, import[j].cur)
            /\ import[j].status = "done" => \A i \in DOMAIN Plan : FolderKept(j, i))'
  BY ThenOfImport, ThenOfPlan DEF ImportThen

LEMMA OldImport ==
    ASSUME ImRows, OwnersOK, StepsOK, ImportsOK, ImportNext, NEW j \in Jobs
    PROVE  /\ DoneThen(j, import[j].done, import[j].cur)
           /\ import[j].status = "done" => \A i \in DOMAIN Plan : FolderThen(j, i)
<1>1. Done(j, import[j].done, import[j].cur)
  BY DEF ImportsOK
<1>2. DoneThen(j, import[j].done, import[j].cur)
  BY <1>1, ImportRows, DoneStays
<1>3. import[j].status = "done" => \A i \in DOMAIN Plan : FolderThen(j, i)
  BY FolderStays DEF ImportsOK
<1> QED
  BY <1>2, <1>3

LEMMA ImportsKept ==
    ASSUME ImRows, OwnersOK, StepsOK, ImportsOK, ImportNext
    PROVE  ImportsOK'
<1>1. ASSUME NEW j \in Jobs, import'[j] = import[j]
      PROVE  ImportThen(j)
  BY <1>1, OldImport DEF ImportThen
<1>2. ASSUME NEW j \in Jobs, NEW status \in Statuses, status # "done" \/ status = import[j].status,
             SavedAs(j, status, import[j].done, import[j].cur)
      PROVE  ImportThen(j)
  BY <1>2, OldImport DEF ImportThen, SavedAs
<1>3. ASSUME NEW r \in Askers, SaveStart(r), NEW j \in Jobs
      PROVE  ImportThen(j)
  <2>1. CASE j = request[r].job
    <3>1. import'[j].status = "running" /\ import'[j].done = 0 /\ import'[j].cur = NoFolder
      BY <1>3, <2>1, StartSaves DEF SavedAs
    <3> QED
      BY <3>1, NoFolderRow DEF ImportThen, DoneThen
  <2>2. CASE j # request[r].job
    BY <1>1, <1>3, <2>2, StartSaves DEF SavedAs
  <2> QED
    BY <2>1, <2>2
<1>4. ASSUME NEW r \in Askers, SaveDiscard(r), NEW j \in Jobs
      PROVE  ImportThen(j)
  <2>1. CASE j = request[r].job
    BY <1>2, <1>4, <2>1, DiscardSaves DEF Statuses
  <2>2. CASE j # request[r].job
    BY <1>1, <1>4, <2>2, DiscardSaves DEF SavedAs
  <2> QED
    BY <2>1, <2>2
<1>5. ASSUME NEW w \in Importers, WorkerDoes(w), NEW j \in Jobs
      PROVE  ImportThen(j)
  <2>1. PICK k : k = step[w].job
    OBVIOUS
  <2>2. \/ UNCHANGED import
        \/ k \in Jobs /\ Fetcher(w) /\ SavedAs(k, "failed", import[k].done, import[k].cur)
        \/ k \in Jobs /\ CloseFolder(w) /\ SavedAs(k, import[k].status, step[w].cur.pos, NoFolder)
        \/ k \in Jobs /\ Pause(w) /\ SavedAs(k, import[k].status, step[w].done, step[w].cur)
        \/ k \in Jobs /\ Discard(w) /\ SavedAs(k, import[k].status, import[k].done, import[k].cur)
        \/ k \in Jobs /\ SaveEnd(w) /\ SavedAs(k, IF step[w].pc = "saveDone" THEN "done" ELSE "failed", step[w].done, step[w].cur)
    BY <1>5, <2>1, WorkersSave
  <2>3. CASE j # k
    BY <1>1, <2>2, <2>3 DEF SavedAs
  <2>4. ASSUME j = k, AtWork(w), NEW status, SavedAs(k, status, step[w].done, step[w].cur),
               status = "done" => status = import[k].status \/ step[w].done = Len(Plan)
        PROVE  ImportThen(j)
    <3>1. DoneThen(j, step[w].done, step[w].cur)
      BY <2>1, <2>4, OldDone
    <3>2. step[w].done = Len(Plan) => \A i \in DOMAIN Plan : FolderThen(j, i)
      BY <3>1, PlanFacts DEF DoneThen
    <3>3. import[j].status = "done" => \A i \in DOMAIN Plan : FolderThen(j, i)
      BY OldImport
    <3> QED
      BY <2>4, <3>1, <3>2, <3>3 DEF ImportThen, SavedAs
  <2>5. CASE j = k /\ UNCHANGED import
    BY <1>1, <2>5
  <2>6. CASE j = k /\ Fetcher(w) /\ SavedAs(k, "failed", import[k].done, import[k].cur)
    BY <1>2, <2>6 DEF Statuses
  <2>7. CASE j = k /\ Discard(w) /\ SavedAs(k, import[k].status, import[k].done, import[k].cur)
    BY <1>2, <2>7, ImportRows
  <2>8. CASE j = k /\ CloseFolder(w) /\ SavedAs(k, import[k].status, step[w].cur.pos, NoFolder)
    <3>1. DoneThen(j, step[w].cur.pos, NoFolder)
      BY <2>1, <2>8, OneFolderMore
    <3> QED
      BY <2>8, <3>1, OldImport DEF ImportThen, SavedAs
  <2>9. CASE j = k /\ Pause(w) /\ SavedAs(k, import[k].status, step[w].done, step[w].cur)
    <3>1. AtWork(w)
      BY <2>9 DEF Pause, Working, AtWork
    <3> QED
      BY <2>4, <2>9, <3>1
  <2>10. CASE j = k /\ SaveEnd(w)
              /\ SavedAs(k, IF step[w].pc = "saveDone" THEN "done" ELSE "failed", step[w].done, step[w].cur)
    <3>1. AtWork(w)
      BY <2>10 DEF SaveEnd, AtWork
    <3>2. PICK status : status = IF step[w].pc = "saveDone" THEN "done" ELSE "failed"
      OBVIOUS
    <3>3. status = "done" => step[w].done = Len(Plan)
      BY <3>2 DEF StepsOK, StepOK
    <3>4. SavedAs(k, status, step[w].done, step[w].cur)
      BY <2>10, <3>2
    <3> QED
      BY <2>4, <2>10, <3>1, <3>3, <3>4
  <2> QED
    BY <2>2, <2>3, <2>5, <2>6, <2>7, <2>8, <2>9, <2>10
<1>6. \A j \in Jobs : ImportThen(j)
  <2>1. ASSUME NEW r \in Askers, (\E j \in Jobs : AskImport(r, j) \/ AskDiscard(r, j)) \/ EnqueueStart(r) \/ RequestDies(r)
        PROVE  UNCHANGED import
    BY <2>1 DEF AskImport, AskDiscard, EnqueueStart, RequestDies
  <2> QED
    BY <1>1, <1>3, <1>4, <1>5, <2>1, Steps
<1> QED
  BY <1>6, ImportThenOK DEF ImportsOK

\* The workers that link a document, after a step.
LinkingThen(cf) ==
    {v \in Importers : step'[v].pc = "link" /\ step'[v].cur.contact = cf[1] /\ FileOf(step'[v].cur.pos, step'[v].cur.n + 1) = cf[2]}

LEMMA LinkingCount ==
    ASSUME NEW w \in Importers, OneStep(w), NEW cf
    PROVE  /\ Cardinality(Linking(cf)) \in Nat /\ Cardinality(LinkingThen(cf)) \in Nat
           /\ w \notin Linking(cf) /\ w \notin LinkingThen(cf) => LinkingThen(cf) = Linking(cf)
           /\ w \notin Linking(cf) /\ w \in LinkingThen(cf) =>
                Cardinality(LinkingThen(cf)) = Cardinality(Linking(cf)) + 1
           /\ w \in Linking(cf) /\ w \notin LinkingThen(cf) =>
                Cardinality(LinkingThen(cf)) = Cardinality(Linking(cf)) - 1
<1>1. \A v \in Importers \ {w} : v \in LinkingThen(cf) <=> v \in Linking(cf)
  BY DEF LinkingThen, Linking, OneStep, Hand
<1>2. PICK B : B = Linking(cf)
  OBVIOUS
<1>3. PICK A : A = LinkingThen(cf)
  OBVIOUS
<1>4. A \subseteq Importers /\ B \subseteq Importers
  BY <1>2, <1>3 DEF Linking, LinkingThen
<1>5. IsFiniteSet(A) /\ IsFiniteSet(B)
  BY <1>4, PlanFacts, FS_Subset
<1>6. Cardinality(A) \in Nat /\ Cardinality(B) \in Nat
  BY <1>5, FS_CardinalityType
<1>7. w \notin B /\ w \notin A => A = B
  BY <1>1, <1>2, <1>3, <1>4
<1>8. w \notin B /\ w \in A => A = B \cup {w}
  BY <1>1, <1>2, <1>3, <1>4
<1>9. w \in B /\ w \notin A => A = B \ {w}
  BY <1>1, <1>2, <1>3, <1>4
<1>10. w \notin B => Cardinality(B \cup {w}) = Cardinality(B) + 1
  BY <1>5, FS_AddElement
<1>11. w \in B => Cardinality(B \ {w}) = Cardinality(B) - 1
  BY <1>5, FS_RemoveElement
<1> QED
  BY <1>2, <1>3, <1>6, <1>7, <1>8, <1>9, <1>10, <1>11

LEMMA LinksThen ==
    ASSUME ImRows, docs' \in [(1 .. MaxContacts) \X Files -> Nat],
           \A cf \in (1 .. MaxContacts) \X Files :
             /\ links'[cf] + Cardinality(LinkingThen(cf)) <= docs'[cf]
             /\ ~torn' => docs'[cf] = links'[cf] + Cardinality(LinkingThen(cf))
    PROVE  LinksOK'
<1>1. \A cf : LinkingThen(cf) = Linking(cf)'
  BY DEF LinkingThen, Linking, Hand, FileOf
<1>2. DOMAIN docs' = (1 .. MaxContacts) \X Files
  OBVIOUS
<1>3. \A cf \in DOMAIN docs' :
             /\ links'[cf] + Cardinality(Linking(cf)') <= docs'[cf]
             /\ ~torn' => docs'[cf] = links'[cf] + Cardinality(Linking(cf)')
  BY <1>1, <1>2
<1> QED
  BY <1>3 DEF LinksOK

LEMMA LinksKept ==
    ASSUME ImRows, OwnersOK, StepsOK, LinksOK, ImportNext
    PROVE  LinksOK'
<1>1. CASE UNCHANGED <<step, docs, links, torn>>
  BY <1>1 DEF LinksOK, Linking, Hand
<1>2. ASSUME NEW w \in Importers, WorkerDoes(w)
      PROVE  LinksOK'
  <2>0. OneStep(w) /\ docs' \in [(1 .. MaxContacts) \X Files -> Nat]
    BY <1>2, WorkersKeepSteps, Grows
  <2>1. SUFFICES ASSUME NEW cf \in (1 .. MaxContacts) \X Files
                 PROVE  /\ links'[cf] + Cardinality(LinkingThen(cf)) <= docs'[cf]
                        /\ ~torn' => docs'[cf] = links'[cf] + Cardinality(LinkingThen(cf))
    BY <2>0, LinksThen
  <2>2. PICK a \in Nat, b \in Nat : a = Cardinality(LinkingThen(cf)) /\ b = Cardinality(Linking(cf))
    BY <2>0, LinkingCount
  <2>3. /\ w \notin Linking(cf) /\ w \notin LinkingThen(cf) => a = b
        /\ w \notin Linking(cf) /\ w \in LinkingThen(cf) => a = b + 1
        /\ w \in Linking(cf) /\ w \notin LinkingThen(cf) => a = b - 1
    BY <2>0, <2>2, LinkingCount
  <2>4. PICK d \in Nat, l \in Nat : d = docs[cf] /\ l = links[cf]
    BY DEF ImRows
  <2>5. l + b <= d /\ (~torn => d = l + b)
    <3>1. cf \in DOMAIN docs
      BY DEF ImRows
    <3> QED
      BY <2>2, <2>4, <3>1 DEF LinksOK
  <2>6. (w \in Linking(cf) => step[w].pc = "link") /\ (w \in LinkingThen(cf) => step'[w].pc = "link")
    BY DEF Linking, LinkingThen
  <2>7. CASE SaveDocument(w)
    <3>1. step[w].pc = "file" /\ step' = [step EXCEPT ![w].pc = "link"]
      BY <2>7 DEF SaveDocument, Working
    <3>2. step'[w].pc = "link" /\ step'[w].cur = step[w].cur
      BY <3>1, Moves
    <3>3. PICK h : h = <<step[w].cur.contact, Hand(w)>>
      OBVIOUS
    <3>4. cf = h <=> cf[1] = step[w].cur.contact /\ cf[2] = Hand(w)
      BY <3>3
    <3>5. w \in LinkingThen(cf) <=> cf = h
      BY <3>2, <3>4 DEF LinkingThen, Hand
    <3>6. docs' = [docs EXCEPT ![h] = docs[h] + 1] /\ UNCHANGED <<links, torn>>
      BY <2>7, <3>3 DEF SaveDocument, Hand, FileOf, NextFile
    <3>7. docs'[cf] = IF cf = h THEN d + 1 ELSE d
      BY <2>4, <3>6 DEF ImRows
    <3> QED
      BY <2>2, <2>3, <2>4, <2>5, <2>6, <3>1, <3>5, <3>6, <3>7
  <2>8. CASE LinkDocument(w)
    <3>1. step[w].pc = "link" /\ step'[w].pc = "file"
      BY <2>8, Links DEF LinkDocument
    <3>3. PICK h : h = <<step[w].cur.contact, Hand(w)>>
      OBVIOUS
    <3>4. cf = h <=> cf[1] = step[w].cur.contact /\ cf[2] = Hand(w)
      BY <3>3
    <3>5. w \in Linking(cf) <=> cf = h
      BY SMTT(30), <3>1, <3>4 DEF Linking
    <3>6. links' = [links EXCEPT ![h] = links[h] + 1] /\ UNCHANGED <<docs, torn>>
      BY <2>8, <3>3 DEF LinkDocument, Hand, FileOf
    <3>7. links'[cf] = IF cf = h THEN l + 1 ELSE l
      BY <2>4, <3>6 DEF ImRows
    <3> QED
      BY <2>2, <2>3, <2>4, <2>5, <2>6, <3>1, <3>5, <3>6, <3>7
  <2>9. ASSUME UNCHANGED <<docs, links>>, step'[w].pc # "link", step[w].pc = "link" => torn', torn => torn'
        PROVE  /\ links'[cf] + Cardinality(LinkingThen(cf)) <= docs'[cf]
               /\ ~torn' => docs'[cf] = links'[cf] + Cardinality(LinkingThen(cf))
    BY <2>2, <2>3, <2>4, <2>5, <2>6, <2>9
  <2>10. CASE Fails(w)
    <3>1. step'[w].pc = "failed"
      <4>1. step' = [step EXCEPT ![w].pc = "failed"]
        BY <2>10 DEF Fails
      <4> QED
        BY <4>1, Moves
    <3> QED
      BY <2>9, <2>10, <3>1 DEF Fails
  <2>11. CASE WorkerDies(w)
    BY <2>9, <2>11, Stops DEF WorkerDies, Redeliver
  <2>12. ASSUME ~SaveDocument(w), ~LinkDocument(w), ~Fails(w), ~WorkerDies(w)
         PROVE  UNCHANGED <<docs, links, torn>> /\ step[w].pc # "link" /\ step'[w].pc # "link"
    <3>1. UNCHANGED <<docs, links, torn>> /\ step[w].pc # "link"
      BY <1>2, <2>12 DEF WorkerDoes, Take, Fetcher, OpenFolder, SkipFile, CloseFolder, Pause, EnqueueNext, Discard, SaveEnd, Working
    <3>2. CASE ~AtWork(w)'
      BY <3>1, <3>2 DEF AtWork
    <3>3. CASE AtWork(w)'
      <4>1. ASSUME NEW j \in Jobs, NEW at \in 1 .. MaxTries, Take(w, j, at), import[j].status = "running"
            PROVE  step'[w].pc # "link"
        BY <4>1, Takes
      <4>2. OpenFolder(w) => step'[w].pc # "link"
        BY Opens
      <4>3. SkipFile(w) => step'[w].pc # "link"
        BY Skips
      <4>4. CloseFolder(w) => step'[w].pc # "link"
        <5>1. CloseFolder(w) => step[w].pc = "file"
          BY DEF CloseFolder
        <5> QED
          BY <5>1, HandIsThere, Closes
      <4>5. Fetcher(w) => step'[w].pc # "link"
        <5>1. NoStep.pc = "idle"
          BY DEF NoStep
        <5> QED
          BY <5>1 DEF Fetcher, Redeliver, ImRows, StepRow
      <4>6. Pause(w) => step'[w].pc # "link"
        BY DEF Pause, ImRows, StepRow
      <4>7. Discard(w) => step'[w].pc # "link"
        BY DEF Discard, ImRows, StepRow
      <4> QED
        <5>1. \/ \E j \in Jobs, at \in 1 .. MaxTries : Take(w, j, at) /\ import[j].status = "running"
              \/ OpenFolder(w) \/ SkipFile(w) \/ LinkDocument(w) \/ CloseFolder(w)
              \/ Fetcher(w) \/ SaveDocument(w) \/ Pause(w) \/ Fails(w) \/ Discard(w)
          BY <1>2, <3>3, WorkerRow
        <5>2. step'[w].pc # "link"
          BY <2>12, <4>1, <4>2, <4>3, <4>4, <4>5, <4>6, <4>7, <5>1
        <5> QED
          BY <3>1, <5>2
    <3> QED
      BY <3>2, <3>3
  <2> QED
    BY <2>7, <2>8, <2>9, <2>10, <2>11, <2>12
<1> QED
  BY <1>1, <1>2, Steps, AsksLeave

\* Who is alone and knows every contact and file does not add one there is.
Alone == /\ \A v, w \in Importers : AtWork(v) /\ AtWork(w) => v = w
         /\ \A w \in Importers : AtWork(w) => step[w].known = DOMAIN contacts
NamesApart == \A c, d \in DOMAIN contacts : IsOf(c, contacts[d]) => c = d
Single == \A cf \in DOMAIN docs : docs[cf] <= 1
Knows(w) == /\ step[w].pc = "file" => step[w].already = Stored(step[w].cur.contact)
            /\ step[w].pc = "link" => Stored(step[w].cur.contact) \subseteq step[w].already \cup {Hand(w)}

LEMMA OneOKParts == OneOK <=> (~together => Alone /\ NamesApart /\ Single /\ \A w \in Importers : Knows(w))
  BY DEF OneOK, Alone, NamesApart, Single, Knows

LEMMA StaysAlone ==
    ASSUME ImRows, OwnersOK, StepsOK, NEW w \in Importers, WorkerDoes(w), ~together', Alone
    PROVE  Alone'
<1>1. \A v \in Importers \ {w} : step'[v] = step[v]
  BY WorkersKeepSteps DEF OneStep
<1>2. ASSUME AtWork(w)', NEW v \in Importers \ {w}, AtWork(v)
      PROVE  FALSE
  <2>1. ASSUME NEW j \in Jobs, NEW a \in 1 .. MaxTries, Take(w, j, a), import[j].status = "running"
        PROVE  FALSE
    BY <1>2, <2>1 DEF Take, AtWork
  <2>2. AtWork(w)
    BY <1>2, <2>1, WorkerRow DEF OpenFolder, SkipFile, LinkDocument, CloseFolder, Working, AtWork
  <2> QED
    BY <1>2, <2>2 DEF Alone
<1>3. ASSUME AtWork(w)'
      PROVE  step'[w].known = DOMAIN contacts'
  <2>1. AtWork(w) => step[w].known = DOMAIN contacts
    BY DEF Alone
  <2>2. ASSUME NEW pos \in DOMAIN Plan, contacts' = Append(contacts, [name |-> Plan[pos].name, cpf |-> Plan[pos].cpf])
        PROVE  DOMAIN contacts' = DOMAIN contacts \cup {Len(contacts) + 1}
    BY <2>2, Appended
  <2> QED
    BY <1>3, <2>1, <2>2, KnownGrows
<1>4. CASE AtWork(w)'
  <2>1. \A v \in Importers : AtWork(v)' => v = w
    BY <1>1, <1>2, <1>4 DEF AtWork
  <2> QED
    BY <1>3, <1>4, <2>1 DEF Alone
<1>5. CASE ~AtWork(w)'
  <2>1. ~OpenFolder(w)
    BY <1>5, Opens DEF AtWork
  <2>2. UNCHANGED contacts
    BY <2>1 DEF WorkerDoes, Take, Fetcher, SkipFile, SaveDocument, LinkDocument, CloseFolder, Pause, EnqueueNext, Fails,
                Discard, SaveEnd, WorkerDies
  <2>3. \A v \in Importers : AtWork(v)' => AtWork(v) /\ v # w /\ step'[v] = step[v]
    BY <1>1, <1>5 DEF AtWork
  <2> QED
    BY <2>2, <2>3 DEF Alone
<1> QED
  BY <1>4, <1>5

LEMMA StaysApart ==
    ASSUME ImRows, OwnersOK, StepsOK, NEW w \in Importers, WorkerDoes(w), Alone, NamesApart
    PROVE  NamesApart'
<1>1. CASE UNCHANGED contacts
  BY <1>1 DEF NamesApart, IsOf
<1>2. ASSUME AtWork(w), NEW pos \in DOMAIN Plan, Matches(w, Plan[pos]) = {},
             contacts' = Append(contacts, [name |-> Plan[pos].name, cpf |-> Plan[pos].cpf])
      PROVE  NamesApart'
  <2>1. PICK new : new = Len(contacts) + 1
    OBVIOUS
  <2>2. /\ DOMAIN contacts' = DOMAIN contacts \cup {new} /\ new \notin DOMAIN contacts
        /\ contacts'[new].name = Plan[pos].name /\ contacts'[new].cpf = Plan[pos].cpf
        /\ \A c \in DOMAIN contacts : contacts'[c] = contacts[c]
    BY <1>2, <2>1, Appended
  <2>3. step[w].known = DOMAIN contacts
    BY <1>2 DEF Alone
  <2>4. \A c \in DOMAIN contacts : contacts[c].name # Plan[pos].name /\ ~(Plan[pos].cpf # NoCpf /\ contacts[c].cpf = Plan[pos].cpf)
    BY <1>2, <2>3 DEF Matches, SameDocument, SameName
  <2>5. ASSUME NEW c \in DOMAIN contacts', NEW d \in DOMAIN contacts',
               contacts'[c].name = contacts'[d].name \/ (contacts'[d].cpf # NoCpf /\ contacts'[c].cpf = contacts'[d].cpf)
        PROVE  c = d
    <3>1. CASE c \in DOMAIN contacts /\ d \in DOMAIN contacts
      BY <2>2, <2>5, <3>1 DEF NamesApart, IsOf
    <3>2. CASE c = new /\ d \in DOMAIN contacts
      BY <2>2, <2>4, <2>5, <3>2
    <3>3. CASE d = new /\ c \in DOMAIN contacts
      BY <2>2, <2>4, <2>5, <3>3
    <3> QED
      BY <2>2, <3>1, <3>2, <3>3
  <2> QED
    BY <2>5 DEF NamesApart, IsOf
<1>3. CASE OpenFolder(w)
  <2>1. AtWork(w)
    BY <1>3 DEF OpenFolder, AtWork
  <2> QED
    BY <1>1, <1>2, <1>3, <2>1, Opens
<1>4. OpenFolder(w) \/ UNCHANGED contacts
  BY DEF WorkerDoes, Take, Fetcher, SkipFile, SaveDocument, LinkDocument, CloseFolder, Pause, EnqueueNext, Fails,
              Discard, SaveEnd, WorkerDies
<1> QED
  BY <1>1, <1>3, <1>4

LEMMA StaysSingle ==
    ASSUME ImRows, OwnersOK, StepsOK, NEW w \in Importers, WorkerDoes(w), Single, Knows(w)
    PROVE  Single'
<1>1. CASE UNCHANGED docs
  BY <1>1 DEF Single
<1>2. CASE SaveDocument(w)
  <2>1. PICK h : h = <<step[w].cur.contact, Hand(w)>>
    OBVIOUS
  <2>2. step[w].pc = "file" /\ step[w].cur.n < Len(Plan[step[w].cur.pos].files) /\ Hand(w) \notin step[w].already
    BY <1>2 DEF SaveDocument, Working, IsRepeated, NextFile, Hand, FileOf
  <2>3. h \in (1 .. MaxContacts) \X Files /\ Hand(w) \in Files
    BY SMTT(30), <2>1, <2>2, HandIsThere
  <2>4. docs' = [docs EXCEPT ![h] = docs[h] + 1] /\ docs \in [(1 .. MaxContacts) \X Files -> Nat]
    BY <1>2, <2>1 DEF SaveDocument, Hand, FileOf, NextFile, ImRows
  <2>5. Hand(w) \notin Stored(step[w].cur.contact)
    BY <2>2 DEF Knows
  <2>6. ~(docs[h] > 0)
    BY <2>1, <2>3, <2>5 DEF Stored
  <2>7. docs[h] = 0
    BY <2>3, <2>4, <2>6
  <2> QED
    BY <2>3, <2>4, <2>7 DEF Single
<1> QED
  BY <1>1, <1>2 DEF WorkerDoes, Take, Fetcher, OpenFolder, SkipFile, LinkDocument, CloseFolder, Pause, EnqueueNext, Fails,
              Discard, SaveEnd, WorkerDies

LEMMA StillKnows ==
    ASSUME ImRows, OwnersOK, StepsOK, StepsOK', ImportNext, NEW w \in Importers, WorkerDoes(w), Knows(w)
    PROVE  Knows(w)'
<1>1. ASSUME step'[w].pc = "file" => step'[w].already = StoredThen(step'[w].cur.contact),
             step'[w].pc = "link" => StoredThen(step'[w].cur.contact) \subseteq step'[w].already \cup {FileOf(step'[w].cur.pos, step'[w].cur.n + 1)}
      PROVE  Knows(w)'
  BY <1>1 DEF Knows, Stored, StoredThen, Hand, FileOf
<1>2. ASSUME step'[w].pc \notin {"file", "link"}
      PROVE  Knows(w)'
  BY <1>2 DEF Knows
<1>3. CASE OpenFolder(w)
  <2>1. PICK contact \in Nat : step'[w].pc = "file" /\ step'[w].already = Stored(contact) /\ step'[w].cur.contact = contact
    BY <1>3, Opens
  <2>2. UNCHANGED docs
    BY <1>3 DEF OpenFolder
  <2> QED
    BY <1>1, <2>1, <2>2 DEF Stored, StoredThen
<1>4. CASE SkipFile(w)
  <2>1. step[w].pc = "file" /\ UNCHANGED docs
    BY <1>4 DEF SkipFile, Working
  <2>2. step'[w].pc = "file" /\ step'[w].already = step[w].already /\ step'[w].cur.contact = step[w].cur.contact
    BY <1>4, Skips
  <2> QED
    BY <1>1, <2>1, <2>2 DEF Knows, Stored, StoredThen
<1>5. CASE LinkDocument(w)
  <2>1. step[w].pc = "link" /\ UNCHANGED docs
    BY <1>5 DEF LinkDocument
  <2>2. step'[w].pc = "file" /\ step'[w].already = step[w].already \cup {Hand(w)} /\ step'[w].cur.contact = step[w].cur.contact
    BY <1>5, Links
  <2>3. Stored(step[w].cur.contact) \subseteq step'[w].already
    BY <2>1, <2>2 DEF Knows
  <2>4. step[w].already \subseteq StoredThen(step[w].cur.contact) /\ Hand(w) \in StoredThen(step[w].cur.contact)
    BY <2>1, OldStored, OldHand DEF StoredThen
  <2> QED
    BY SMTT(30), <1>1, <2>1, <2>2, <2>3, <2>4 DEF Stored, StoredThen
<1>6. CASE SaveDocument(w)
  <2>1. step[w].pc = "file" /\ step' = [step EXCEPT ![w].pc = "link"]
    BY <1>6 DEF SaveDocument, Working
  <2>2. step'[w].pc = "link" /\ step'[w].cur = step[w].cur /\ step'[w].already = step[w].already
    BY <2>1, Moves
  <2>3. PICK h : h = <<step[w].cur.contact, Hand(w)>>
    OBVIOUS
  <2>4. docs' = [docs EXCEPT ![h] = docs[h] + 1]
    BY <1>6, <2>3 DEF SaveDocument, Hand, FileOf, NextFile
  <2>5. ASSUME NEW f \in Files, f # Hand(w), docs'[<<step[w].cur.contact, f>>] > 0
        PROVE  docs[<<step[w].cur.contact, f>>] > 0
    BY <2>3, <2>4, <2>5
  <2>6. StoredThen(step[w].cur.contact) \subseteq Stored(step[w].cur.contact) \cup {Hand(w)}
    BY <2>5 DEF Stored, StoredThen
  <2>7. Stored(step[w].cur.contact) = step[w].already
    BY <2>1 DEF Knows
  <2> QED
    BY <1>1, <2>2, <2>6, <2>7 DEF Hand
<1>7. CASE ~AtWork(w)'
  BY <1>2, <1>7 DEF AtWork
<1>8. ASSUME NEW j \in Jobs, NEW at \in 1 .. MaxTries, Take(w, j, at), import[j].status = "running"
      PROVE  Knows(w)'
  BY <1>2, <1>8, Takes
<1>9. CASE CloseFolder(w)
  <2>1. step[w].pc = "file"
    BY <1>9 DEF CloseFolder
  <2> QED
    BY <1>2, <1>9, <2>1, HandIsThere, Closes
<1>10. CASE AtWork(w)' /\ (Fetcher(w) \/ Pause(w) \/ Fails(w) \/ Discard(w))
  <2>1. NoStep.pc = "idle"
    BY DEF NoStep
  <2>2. Fetcher(w) => step'[w].pc \notin {"file", "link"}
    BY <2>1 DEF Fetcher, Redeliver, ImRows, StepRow
  <2>3. Pause(w) => step'[w].pc \notin {"file", "link"}
    BY DEF Pause, ImRows, StepRow
  <2>4. Fails(w) => step'[w].pc \notin {"file", "link"}
    BY DEF Fails, ImRows, StepRow
  <2>5. Discard(w) => step'[w].pc \notin {"file", "link"}
    BY DEF Discard, ImRows, StepRow
  <2> QED
    BY <1>2, <1>10, <2>2, <2>3, <2>4, <2>5
<1>11. AtWork(w)' => \/ \E j \in Jobs, at \in 1 .. MaxTries : Take(w, j, at) /\ import[j].status = "running"
                     \/ OpenFolder(w) \/ SkipFile(w) \/ LinkDocument(w) \/ CloseFolder(w)
                     \/ Fetcher(w) \/ SaveDocument(w) \/ Pause(w) \/ Fails(w) \/ Discard(w)
  BY WorkerRow
<1> QED
  BY <1>3, <1>4, <1>5, <1>6, <1>7, <1>8, <1>9, <1>10, <1>11

LEMMA OneKept ==
    ASSUME ImRows, OwnersOK, StepsOK, StepsOK', OneOK, ImportNext
    PROVE  OneOK'
<1>1. CASE UNCHANGED <<step, contacts, docs, together>>
  BY <1>1 DEF OneOK, AtWork, IsOf, Stored, Hand
<1>2. ASSUME NEW w \in Importers, WorkerDoes(w), ~together'
      PROVE  Alone' /\ NamesApart' /\ Single' /\ \A v \in Importers : Knows(v)'
  <2>1. ~together
    BY <1>2 DEF WorkerDoes, Take, Fetcher, OpenFolder, SkipFile, SaveDocument, LinkDocument, CloseFolder, Pause, EnqueueNext, Fails,
                Discard, SaveEnd, WorkerDies
  <2>2. Alone /\ NamesApart /\ Single /\ \A v \in Importers : Knows(v)
    BY <2>1, OneOKParts
  <2>3. Alone' /\ NamesApart' /\ Single' /\ Knows(w)'
    BY <1>2, <2>2, StaysAlone, StaysApart, StaysSingle, StillKnows
  <2>4. ASSUME NEW v \in Importers, v # w
        PROVE  Knows(v)'
    <3>1. step'[v] = step[v]
      BY <1>2, <2>4, WorkersKeepSteps DEF OneStep
    <3>2. CASE UNCHANGED docs
      BY <2>2, <3>1, <3>2 DEF Knows, Stored, Hand
    <3>3. CASE SaveDocument(w)
      <4>1. AtWork(w)
        BY <3>3 DEF SaveDocument, Working, AtWork
      <4>2. ~AtWork(v)
        BY <2>2, <2>4, <4>1 DEF Alone
      <4> QED
        BY <3>1, <4>2 DEF Knows, AtWork
    <3> QED
      BY <1>2, <3>2, <3>3 DEF WorkerDoes, Take, Fetcher, OpenFolder, SkipFile, LinkDocument, CloseFolder, Pause, EnqueueNext, Fails,
                Discard, SaveEnd, WorkerDies
  <2> QED
    BY <2>3, <2>4
<1>3. ASSUME NEW w \in Importers, WorkerDoes(w)
      PROVE  OneOK'
  <2>1. ~together' => Alone' /\ NamesApart' /\ Single' /\ \A v \in Importers : Knows(v)'
    BY <1>2, <1>3
  <2> QED
    BY <2>1 DEF OneOK, Alone, NamesApart, Single, Knows
<1> QED
  BY <1>1, <1>3, Steps, AsksLeave

\* A worker without work has no import.
IdleOK == \A w \in Importers : ~AtWork(w) => step[w].job = NoJob
LEMMA IdleKept ==
    ASSUME ImRows, OwnersOK, StepsOK, IdleOK, ImportNext
    PROVE  IdleOK'
<1>1. CASE step' = step
  BY <1>1 DEF IdleOK, AtWork
<1>2. ASSUME NEW w \in Importers, WorkerDoes(w)
      PROVE  IdleOK'
  <2>1. \A v \in Importers \ {w} : step'[v] = step[v]
    BY <1>2, WorkersKeepSteps DEF OneStep
  <2>2. CASE AtWork(w)'
    BY <2>1, <2>2 DEF IdleOK, AtWork
  <2>3. CASE step' = [step EXCEPT ![w] = NoStep]
    <3>1. step'[w].job = NoJob
      BY <2>3, Stops DEF NoStep
    <3> QED
      BY <2>1, <3>1 DEF IdleOK, AtWork
  <2>4. CASE ~AtWork(w)' /\ step' # [step EXCEPT ![w] = NoStep] /\ step' # step
    <3>1. ~OpenFolder(w)
      BY <2>4, Opens DEF AtWork
    <3>2. ~SkipFile(w)
      BY <2>4, Skips DEF AtWork
    <3>3. ~LinkDocument(w)
      BY <2>4, Links DEF AtWork
    <3>4. ~CloseFolder(w)
      <4>1. CloseFolder(w) => step[w].pc = "file"
        BY DEF CloseFolder
      <4> QED
        BY <2>4, <4>1, HandIsThere, Closes DEF AtWork
    <3>5. ASSUME NEW j \in Jobs, NEW a \in 1 .. MaxTries, Take(w, j, a)
          PROVE  FALSE
      <4>1. import[j].status = "running"
        BY <2>4, <3>5 DEF Take
      <4> QED
        BY <2>4, <3>5, <4>1, Takes DEF AtWork
    <3>6. ~EnqueueNext(w) /\ ~SaveEnd(w) /\ ~WorkerDies(w) /\ ~Redeliver(w)
      BY <2>4 DEF EnqueueNext, SaveEnd, WorkerDies, Redeliver
    <3>7. ASSUME NEW point \in {"folder", "link", "next", "failed", "saveDone", "saveFailed"}, step' = [step EXCEPT ![w].pc = point]
          PROVE  FALSE
      BY <2>4, <3>7, Moves DEF AtWork
    <3>8. ~Fetcher(w) /\ ~SaveDocument(w) /\ ~Pause(w) /\ ~Fails(w) /\ ~Discard(w)
      BY <2>4, <3>6, <3>7 DEF Fetcher, SaveDocument, Pause, Fails, Discard
    <3> QED
      BY <1>2, <3>1, <3>2, <3>3, <3>4, <3>5, <3>6, <3>8 DEF WorkerDoes
  <2> QED
    BY <2>2, <2>3, <2>4, <1>1
<1> QED
  BY <1>1, <1>2, Steps, AsksLeave

\* An import has somebody that ends it.
Cared(j) ==
    \/ \E a \in 1 .. MaxTries : messages[<<j, a>>] > 0
    \/ \E w \in Importers : step[w].job = j
    \/ \E r \in Askers : request[r] = [pc |-> "enqueue", job |-> j]
LEMMA RunningRunsIs == RunningRuns <=> \A j \in Jobs \ abandoned : import[j].status = "running" => Cared(j)
  BY DEF RunningRuns, Cared

LEMMA AsksKeepRunning ==
    ASSUME ImRows, RunningRuns, NEW r \in Askers,
           (\E j \in Jobs : AskImport(r, j) \/ AskDiscard(r, j)) \/ SaveStart(r) \/ EnqueueStart(r) \/ SaveDiscard(r) \/ RequestDies(r)
    PROVE  RunningRuns'
<1>0. UNCHANGED step
  BY AsksLeave
<1>1. abandoned \subseteq abandoned'
  BY DEF AskImport, AskDiscard, SaveStart, EnqueueStart, SaveDiscard, RequestDies
<1>2. SUFFICES ASSUME NEW j \in Jobs, j \notin abandoned', import'[j].status = "running"
               PROVE  \/ \E a \in 1 .. MaxTries : messages'[<<j, a>>] > 0
                      \/ \E w \in Importers : step'[w].job = j
                      \/ \E q \in Askers : request'[q] = [pc |-> "enqueue", job |-> j]
  BY DEF RunningRuns
<1>3. PICK k : k = request[r].job
  OBVIOUS
<1>4. \A q \in Askers \ {r} : request'[q] = request[q]
  BY DEF ImRows, AskImport, AskDiscard, SaveStart, EnqueueStart, SaveDiscard, RequestDies
<1>5. import[j].status = "running" => Cared(j)
  BY <1>1, <1>2, RunningRunsIs
<1>6. \A a \in 1 .. MaxTries : messages[<<j, a>>] > 0 => messages'[<<j, a>>] > 0
  <2>1. CASE UNCHANGED messages
    BY <2>1
  <2>2. CASE EnqueueStart(r) /\ messages' # messages
    <3>1. k \in Jobs /\ 1 \in 1 .. MaxTries
      BY <1>3, <2>2, PlanFacts DEF ImRows, EnqueueStart
    <3>2. PICK n \in Nat : n = messages[<<k, 1>>]
      BY <3>1 DEF ImRows
    <3>3. messages' = [messages EXCEPT ![<<k, 1>>] = n + 1]
      BY <1>3, <2>2, <3>2 DEF EnqueueStart
    <3>4. n + 1 \in Nat
      OBVIOUS
    <3>5. messages'[<<k, 1>>] = n + 1
          /\ \A i \in Jobs, b \in 1 .. MaxTries : <<i, b>> # <<k, 1>> => messages'[<<i, b>>] = messages[<<i, b>>]
      BY <3>1, <3>3, <3>4, MessageSet
    <3>6. n + 1 > 0
      OBVIOUS
    <3>7. messages'[<<k, 1>>] > 0
      BY <3>5, <3>6
    <3>8. ASSUME NEW a \in 1 .. MaxTries, messages[<<j, a>>] > 0
          PROVE  messages'[<<j, a>>] > 0
      <4>1. CASE <<j, a>> = <<k, 1>>
        BY <3>7, <4>1
      <4>2. CASE <<j, a>> # <<k, 1>>
        BY <3>5, <3>8, <4>2
      <4> QED
        BY <4>1, <4>2
    <3> QED
      BY <3>8
  <2> QED
    BY <2>1, <2>2 DEF AskImport, AskDiscard, SaveStart, SaveDiscard, RequestDies
<1>7. ASSUME import[j].status = "running", request[r] # [pc |-> "enqueue", job |-> j]
      PROVE  \/ \E a \in 1 .. MaxTries : messages'[<<j, a>>] > 0
             \/ \E w \in Importers : step'[w].job = j
             \/ \E q \in Askers : request'[q] = [pc |-> "enqueue", job |-> j]
  BY <1>0, <1>4, <1>5, <1>6, <1>7 DEF Cared
<1>8. request[r].pc # "enqueue" => request[r] # [pc |-> "enqueue", job |-> j]
  OBVIOUS
<1>9. k # j => request[r] # [pc |-> "enqueue", job |-> j]
  BY <1>3
<1>10. CASE \E i \in Jobs : AskImport(r, i) \/ AskDiscard(r, i)
  BY <1>2, <1>7, <1>8, <1>10 DEF AskImport, AskDiscard
<1>11. CASE SaveStart(r)
  <2>1. CASE j # k
    BY <1>2, <1>3, <1>7, <1>9, <1>11, <2>1, StartSaves DEF SavedAs
  <2>2. CASE j = k
    <3>1. request[r] \in AskRow
      BY DEF ImRows
    <3>2. request'[r] = [request[r] EXCEPT !.pc = "enqueue"]
      BY <1>11 DEF SaveStart, ImRows
    <3>3. request'[r] = [pc |-> "enqueue", job |-> j]
      BY <1>3, <2>2, <3>1, <3>2 DEF AskRow
    <3> QED
      BY <3>3
  <2> QED
    BY <2>1, <2>2
<1>12. CASE EnqueueStart(r)
  <2>1. CASE j # k
    BY <1>2, <1>7, <1>9, <1>12, <2>1 DEF EnqueueStart
  <2>2. CASE j = k /\ messages' = [messages EXCEPT ![<<k, 1>>] = messages[<<k, 1>>] + 1]
    <3>1. 1 \in 1 .. MaxTries
      BY PlanFacts
    <3>2. PICK n \in Nat : n = messages[<<j, 1>>]
      BY <3>1 DEF ImRows
    <3>3. messages' = [messages EXCEPT ![<<j, 1>>] = n + 1] /\ n + 1 \in Nat /\ n + 1 > 0
      BY <2>2, <3>2
    <3>4. messages'[<<j, 1>>] = n + 1
      BY <3>1, <3>3, MessageSet
    <3>5. messages'[<<j, 1>>] > 0
      BY <3>3, <3>4
    <3> QED
      BY <3>1, <3>5
  <2>3. k \in abandoned' \/ messages' = [messages EXCEPT ![<<k, 1>>] = messages[<<k, 1>>] + 1]
    BY <1>3, <1>12 DEF EnqueueStart
  <2> QED
    BY <1>2, <2>1, <2>2, <2>3
<1>13. CASE SaveDiscard(r)
  BY <1>2, <1>3, <1>7, <1>9, <1>13, DiscardSaves DEF SavedAs
<1>14. CASE RequestDies(r)
  <2>1. UNCHANGED import /\ (request[r].pc = "enqueue" => k \in abandoned')
    BY <1>3, <1>14 DEF RequestDies
  <2> QED
    BY <1>2, <1>7, <1>8, <1>9, <2>1
<1> QED
  BY <1>10, <1>11, <1>12, <1>13, <1>14

CaredThen(j) ==
    \/ \E a \in 1 .. MaxTries : messages'[<<j, a>>] > 0
    \/ \E v \in Importers : step'[v].job = j
    \/ \E q \in Askers : request'[q] = [pc |-> "enqueue", job |-> j]
LEMMA WorkersKeepRunning ==
    ASSUME ImRows, OwnersOK, StepsOK, IdleOK, RunningRuns, NEW w \in Importers, WorkerDoes(w)
    PROVE  RunningRuns'
<1>1. abandoned \subseteq abandoned' /\ UNCHANGED request
  BY DEF WorkerDoes, Take, Fetcher, OpenFolder, SkipFile, SaveDocument, LinkDocument, CloseFolder, Pause, EnqueueNext, Fails,
         Discard, SaveEnd, WorkerDies, Redeliver
<1>2. SUFFICES ASSUME NEW j \in Jobs, j \notin abandoned', import'[j].status = "running"
               PROVE  CaredThen(j)
  BY DEF RunningRuns, CaredThen
<1>3. PICK k : k = step[w].job
  OBVIOUS
<1>4. import[j].status = "running" => Cared(j)
  BY <1>1, <1>2, RunningRunsIs
<1>5. \A v \in Importers \ {w} : step'[v] = step[v]
  BY WorkersKeepSteps DEF OneStep
<1>6. ASSUME import[j].status = "running", \A a \in 1 .. MaxTries : messages[<<j, a>>] > 0 => messages'[<<j, a>>] > 0,
             k = j => step'[w].job = j
      PROVE  CaredThen(j)
  BY <1>1, <1>3, <1>4, <1>5, <1>6 DEF Cared, CaredThen
<1>7. UNCHANGED messages => \A a \in 1 .. MaxTries : messages[<<j, a>>] > 0 => messages'[<<j, a>>] > 0
  OBVIOUS
<1>8. ASSUME AtWork(w), Redeliver(w), UNCHANGED import
      PROVE  CaredThen(j)
  <2>1. CASE k = j
    BY <1>2, <1>3, <1>8, <2>1, Redelivers DEF CaredThen
  <2>2. CASE k # j
    <3>1. ASSUME NEW a \in 1 .. MaxTries, messages[<<j, a>>] > 0
          PROVE  messages'[<<j, a>>] > 0
      <4>1. messages[<<j, a>>] <= messages'[<<j, a>>] /\ messages[<<j, a>>] \in Nat
        BY <1>8, Redelivers DEF ImRows
      <4>2. messages'[<<j, a>>] \in Nat
        BY <1>8, Redelivers
      <4> QED
        BY <3>1, <4>1, <4>2
    <3> QED
      BY <1>2, <1>6, <1>8, <2>2, <3>1
  <2> QED
    BY <2>1, <2>2
<1>9. ASSUME UNCHANGED messages, k \in Jobs, NEW status \in Statuses, status # "running", NEW done, NEW cur, SavedAs(k, status, done, cur)
      PROVE  CaredThen(j)
  <2>1. j # k
    BY <1>2, <1>9 DEF SavedAs
  <2>2. import[j].status = "running"
    BY <1>2, <1>9, <2>1 DEF SavedAs
  <2> QED
    BY <1>6, <1>7, <1>9, <2>1, <2>2
<1>10. ASSUME UNCHANGED <<messages, import>>, step'[w].job = step[w].job
       PROVE  CaredThen(j)
  BY <1>2, <1>3, <1>6, <1>7, <1>10
<1>11. ASSUME UNCHANGED messages, k \in Jobs, NEW done, NEW cur, SavedAs(k, import[k].status, done, cur), step'[w].job = step[w].job
       PROVE  CaredThen(j)
  <2>1. import[j].status = "running"
    BY <1>2, <1>11 DEF SavedAs
  <2> QED
    BY <1>3, <1>6, <1>7, <1>11, <2>1
<1>12. AtWork(w) => k \in Jobs
  BY <1>3 DEF ImRows
<1>13. ASSUME NEW i \in Jobs, NEW a \in 1 .. MaxTries, Take(w, i, a)
       PROVE  CaredThen(j)
  <2>1. CASE j = i
    <3>1. import[i].status = "running"
      BY <1>2, <1>13, <2>1 DEF Take
    <3>2. step'[w].job = j
      BY <1>13, <2>1, <3>1, Takes
    <3> QED
      BY <3>2 DEF CaredThen
  <2>2. CASE j # i
    <3>1. k # j
      BY <1>3, <1>13, PlanFacts DEF IdleOK, AtWork, Take
    <3>2. messages[<<i, a>>] \in Nat /\ messages[<<i, a>>] > 0
      BY <1>13 DEF ImRows, Take
    <3>3. PICK n \in Nat : n = messages[<<i, a>>] - 1
      BY <3>2
    <3>4. messages' = [messages EXCEPT ![<<i, a>>] = n]
      BY <1>13, <3>3 DEF Take
    <3>5. \A l \in Jobs, b \in 1 .. MaxTries : <<l, b>> # <<i, a>> => messages'[<<l, b>>] = messages[<<l, b>>]
      BY <3>4, MessageSet
    <3>6. \A b \in 1 .. MaxTries : messages'[<<j, b>>] = messages[<<j, b>>]
      BY <2>2, <3>5
    <3>7. UNCHANGED import
      BY <1>13 DEF Take
    <3> QED
      BY <1>2, <1>6, <3>1, <3>6, <3>7
  <2> QED
    BY <2>1, <2>2
<1>14. CASE Fetcher(w)
  <2>0. AtWork(w) /\ k \in Jobs
    BY <1>12, <1>14 DEF Fetcher, AtWork
  <2>1. CASE Redeliver(w) /\ UNCHANGED import
    BY <1>8, <2>0, <2>1
  <2>2. CASE import' = [import EXCEPT ![k].status = "failed"] /\ UNCHANGED messages
    <3>1. SavedAs(k, "failed", import[k].done, import[k].cur)
      BY <2>0, <2>2, FetcherSaves
    <3> QED
      BY <1>9, <2>0, <2>2, <3>1 DEF Statuses
  <2>3. ASSUME NEW point \in {"folder", "failed"}, step' = [step EXCEPT ![w].pc = point], UNCHANGED <<import, messages>>
        PROVE  CaredThen(j)
    BY <1>10, <2>3, Moves
  <2>4. \/ Redeliver(w) /\ UNCHANGED import
        \/ import' = [import EXCEPT ![k].status = "failed"] /\ UNCHANGED messages
        \/ (step' = [step EXCEPT ![w].pc = "folder"] \/ step' = [step EXCEPT ![w].pc = "failed"]) /\ UNCHANGED <<import, messages>>
    BY <1>3, <1>14 DEF Fetcher
  <2> QED
    BY <2>1, <2>2, <2>3, <2>4
<1>15. CASE OpenFolder(w)
  BY <1>10, <1>15, Opens DEF OpenFolder
<1>16. CASE SkipFile(w)
  BY <1>10, <1>16, Skips DEF SkipFile
<1>17. CASE LinkDocument(w)
  BY <1>10, <1>17, Links DEF LinkDocument
<1>18. CASE SaveDocument(w) \/ Fails(w)
  <2>1. step'[w].job = step[w].job
    BY <1>18, Moves DEF SaveDocument, Fails
  <2> QED
    BY <1>10, <1>18, <2>1 DEF SaveDocument, Fails
<1>19. CASE CloseFolder(w) \/ Pause(w) \/ Discard(w)
  <2>1. step[w].pc = "file" \/ Discard(w)
    BY <1>19 DEF CloseFolder, Pause, Working
  <2>2. step'[w].job = step[w].job
    <3>1. CASE CloseFolder(w)
      <4>1. step[w].pc = "file"
        BY <3>1 DEF CloseFolder
      <4>2. step[w].cur.pos \in DOMAIN Plan
        BY <4>1, HandIsThere
      <4> QED
        BY <3>1, <4>2, Closes
    <3>2. CASE Pause(w)
      BY <3>2, Moves DEF Pause
    <3>3. CASE Discard(w)
      <4>1. step' = [step EXCEPT ![w].pc = "saveDone"] \/ step' = [step EXCEPT ![w].pc = "saveFailed"]
        BY <3>3 DEF Discard
      <4> QED
        BY <4>1, Moves
    <3> QED
      BY <1>19, <3>1, <3>2, <3>3
  <2>3. UNCHANGED messages /\ AtWork(w)
    BY <1>19 DEF CloseFolder, Pause, Discard, Working, AtWork
  <2>4. ~Fetcher(w) /\ ~SaveEnd(w)
    BY <1>19 DEF Fetcher, SaveEnd, CloseFolder, Pause, Discard, Working
  <2>5. UNCHANGED import \/ \E done, cur : SavedAs(k, import[k].status, done, cur)
    BY <1>3, <2>4, WorkersSave
  <2> QED
    BY <1>10, <1>11, <1>12, <2>2, <2>3, <2>5
<1>20. CASE EnqueueNext(w)
  <2>0. AtWork(w) /\ k \in Jobs /\ UNCHANGED import
    BY <1>12, <1>20 DEF EnqueueNext, AtWork
  <2>1. CASE Redeliver(w)
    BY <1>8, <2>0, <2>1
  <2>2. CASE ~Redeliver(w)
    <3>1. 1 \in 1 .. MaxTries
      BY PlanFacts
    <3>2. PICK n \in Nat : n = messages[<<k, 1>>]
      BY <2>0, <3>1 DEF ImRows
    <3>3. messages' = [messages EXCEPT ![<<k, 1>>] = n + 1] /\ n + 1 \in Nat /\ n + 1 > 0
      BY <1>3, <1>20, <2>2, <3>2 DEF EnqueueNext
    <3>4. messages'[<<k, 1>>] = n + 1
          /\ \A i \in Jobs, b \in 1 .. MaxTries : <<i, b>> # <<k, 1>> => messages'[<<i, b>>] = messages[<<i, b>>]
      BY <2>0, <3>1, <3>3, MessageSet
    <3>5. messages'[<<k, 1>>] > 0
      BY <3>3, <3>4
    <3>6. CASE j = k
      BY <3>1, <3>5, <3>6 DEF CaredThen
    <3>7. CASE j # k
      <4>1. \A b \in 1 .. MaxTries : messages'[<<j, b>>] = messages[<<j, b>>]
        BY <3>4, <3>7
      <4> QED
        BY <1>2, <1>6, <2>0, <3>7, <4>1
    <3> QED
      BY <3>6, <3>7
  <2> QED
    BY <2>1, <2>2
<1>21. CASE SaveEnd(w)
  <2>1. UNCHANGED messages
    BY <1>21 DEF SaveEnd
  <2>2. PICK status : status = IF step[w].pc = "saveDone" THEN "done" ELSE "failed"
    OBVIOUS
  <2>3. status \in Statuses /\ status # "running"
    BY <2>2 DEF Statuses
  <2>4. k \in Jobs /\ SavedAs(k, status, step[w].done, step[w].cur)
    BY <1>3, <1>21, <2>2, EndSaves
  <2> QED
    BY <1>9, <2>1, <2>3, <2>4
<1>22. CASE WorkerDies(w)
  BY <1>8, <1>22 DEF WorkerDies, AtWork
<1> QED
  BY <1>13, <1>14, <1>15, <1>16, <1>17, <1>18, <1>19, <1>20, <1>21, <1>22 DEF WorkerDoes

\* The inductive invariant of an import.
ImInv == ImRows /\ OwnersOK /\ ImportsOK /\ StepsOK /\ LinksOK /\ OneOK /\ RunningRuns /\ IdleOK

LEMMA ImInvInit ==
    ASSUME ImportInit
    PROVE  ImInv
<1>0. Len(Plan) \in Nat /\ MaxContacts \in Nat /\ 0 \in 0 .. Len(Plan) /\ NoFolder \in CurRow /\ NoFolder.pos = 0
  BY PlanFacts, NoFolderRow
<1>1. NoStep \in StepRow /\ NoStep.pc = "idle" /\ NoStep.job = NoJob
  BY <1>0 DEF NoStep, StepRow
<1>2. NoRequest \in AskRow /\ NoRequest.pc = "idle"
  BY DEF NoRequest, AskRow
<1>3. step \in [Importers -> StepRow] /\ \A w \in Importers : step[w].pc = "idle" /\ step[w].job = NoJob
  BY <1>1 DEF ImportInit
<1>4. request \in [Askers -> AskRow] /\ \A r \in Askers : request[r].pc = "idle"
  BY <1>2 DEF ImportInit
<1>5. /\ import \in [Jobs -> ImportRow]
      /\ \A j \in Jobs : import[j].status = "listed" /\ import[j].done = 0 /\ import[j].cur = NoFolder
  <2>1. PICK row : row = [status |-> "listed", done |-> 0, cur |-> NoFolder, kept |-> TRUE]
    OBVIOUS
  <2>2. row \in ImportRow /\ row.status = "listed" /\ row.done = 0 /\ row.cur = NoFolder
    BY <1>0, <2>1 DEF ImportRow
  <2>3. import = [j \in Jobs |-> row]
    BY <2>1 DEF ImportInit
  <2> QED
    BY <2>2, <2>3
<1>6. contacts = <<>> /\ contacts \in Seq([name : Names, cpf : Cpfs]) /\ DOMAIN contacts = {}
  BY DEF ImportInit
<1>7. /\ docs \in [(1 .. MaxContacts) \X Files -> Nat] /\ links \in [(1 .. MaxContacts) \X Files -> Nat]
      /\ \A cf \in (1 .. MaxContacts) \X Files : docs[cf] = 0 /\ links[cf] = 0
  BY DEF ImportInit
<1>8. messages \in [Jobs \X (1 .. MaxTries) -> Nat]
  BY DEF ImportInit
<1>9. ImRows
  BY <1>3, <1>4, <1>5, <1>6, <1>7, <1>8 DEF ImRows, AtWork
<1>10. OwnersOK
  <2>1. PICK own : own = [c \in {} |-> c]
    OBVIOUS
  <2>2. own \in [DOMAIN contacts -> Importers]
    BY <1>6, <2>1
  <2> QED
    BY <1>3, <1>6, <2>2 DEF OwnersOK, AtWork
<1>11. ImportsOK
  BY <1>0, <1>5 DEF ImportsOK, Done
<1>12. StepsOK
  BY <1>3 DEF StepsOK, StepOK, AtWork
<1>13. LinksOK
  <2>1. \A cf : Linking(cf) = {}
    BY <1>3 DEF Linking
  <2>2. Cardinality({}) = 0
    BY FS_EmptySet
  <2> QED
    BY <1>7, <2>1, <2>2 DEF LinksOK
<1>14. OneOK
  BY <1>3, <1>6, <1>7 DEF OneOK, AtWork
<1>15. RunningRuns
  BY <1>5 DEF RunningRuns
<1>16. IdleOK
  BY <1>3 DEF IdleOK
<1> QED
  BY <1>9, <1>10, <1>11, <1>12, <1>13, <1>14, <1>15, <1>16 DEF ImInv

LEMMA ImInvStep ==
    ASSUME ImInv, [ImportNext]_importVars
    PROVE  ImInv'
<1>1. CASE ImportNext
  <2>1. ImRows /\ OwnersOK /\ ImportsOK /\ StepsOK /\ LinksOK /\ OneOK /\ RunningRuns /\ IdleOK
    BY DEF ImInv
  <2>2. ImRows' /\ OwnersOK' /\ ImportsOK'
    BY <1>1, <2>1, RowsKept, OwnersKept, ImportsKept
  <2>3. StepsOK'
    BY <1>1, <2>1, StepsKept
  <2>4. LinksOK' /\ OneOK' /\ IdleOK'
    BY <1>1, <2>1, <2>3, LinksKept, OneKept, IdleKept
  <2>5. RunningRuns'
    BY <1>1, <2>1, Steps, AsksKeepRunning, WorkersKeepRunning
  <2> QED
    BY <2>2, <2>3, <2>4, <2>5 DEF ImInv
<1>2. CASE UNCHANGED importVars
  <2>0. /\ import' = import /\ contacts' = contacts /\ docs' = docs /\ links' = links /\ messages' = messages /\ request' = request
        /\ step' = step /\ missed' = missed /\ abandoned' = abandoned /\ together' = together /\ torn' = torn
    BY <1>2 DEF importVars
  <2>1. ImRows /\ OwnersOK /\ ImportsOK /\ StepsOK /\ LinksOK /\ OneOK /\ RunningRuns /\ IdleOK
    BY DEF ImInv
  <2>2. ImRows'
    BY <2>0, <2>1 DEF ImRows, AtWork
  <2>3. OwnersOK'
    BY <2>0, <2>1 DEF OwnersOK, AtWork
  <2>4. ImportsOK'
    BY <2>0, <2>1 DEF ImportsOK, Done, FolderKept, KeptFile, IsOf
  <2>5. StepsOK'
    <3>1. \A w \in Importers : Done(step[w].job, step[w].done, step[w].cur)' <=> Done(step[w].job, step[w].done, step[w].cur)
      BY <2>0 DEF Done, FolderKept, KeptFile, IsOf
    <3>2. \A w \in Importers : Stored(step[w].cur.contact)' = Stored(step[w].cur.contact) /\ Hand(w)' = Hand(w)
      BY <2>0 DEF Stored, Hand
    <3> QED
      BY <2>0, <2>1, <3>1, <3>2 DEF StepsOK, StepOK, AtWork
  <2>6. LinksOK'
    BY <2>0, <2>1 DEF LinksOK, Linking, Hand
  <2>7. OneOK'
    BY <2>0, <2>1 DEF OneOK, AtWork, IsOf, Stored, Hand
  <2>8. RunningRuns' /\ IdleOK'
    BY <2>0, <2>1 DEF RunningRuns, IdleOK, AtWork
  <2> QED
    BY <2>2, <2>3, <2>4, <2>5, <2>6, <2>7, <2>8 DEF ImInv
<1> QED
  BY <1>1, <1>2

LEMMA ImInvImplies ==
    ASSUME ImInv
    PROVE  ImportedOnce
<1>0. ImRows /\ OwnersOK /\ ImportsOK /\ StepsOK /\ LinksOK /\ OneOK /\ RunningRuns
  BY DEF ImInv
<1>1. DOMAIN docs = (1 .. MaxContacts) \X Files
  BY <1>0 DEF ImRows
<1>2. \A cf \in DOMAIN docs : docs[cf] \in Nat /\ links[cf] \in Nat /\ Cardinality(Linking(cf)) \in Nat
  <2>1. \A cf : Linking(cf) \subseteq Importers
    BY DEF Linking
  <2>2. \A cf : Cardinality(Linking(cf)) \in Nat
    BY <2>1, PlanFacts, FS_Subset, FS_CardinalityType
  <2> QED
    BY <1>0, <1>1, <2>2 DEF ImRows
<1>3. \A cf \in DOMAIN docs : links[cf] <= docs[cf]
  <2>1. SUFFICES ASSUME NEW cf \in DOMAIN docs
                 PROVE  links[cf] <= docs[cf]
    OBVIOUS
  <2>2. PICK d \in Nat, l \in Nat, c \in Nat : d = docs[cf] /\ l = links[cf] /\ c = Cardinality(Linking(cf))
    BY <1>2
  <2>3. l + c <= d
    BY <1>0, <2>2 DEF LinksOK
  <2> QED
    BY <2>2, <2>3
<1>4. NothingDoubled
  BY <1>0, <1>3 DEF OneOK, NothingDoubled
<1>5. ASSUME NEW j \in Jobs, import[j].status = "done", NEW i \in DOMAIN Plan, NEW n \in DOMAIN Plan[i].files
      PROVE  <<j, Plan[i].files[n]>> \in missed
             \/ \E c \in DOMAIN contacts : IsOf(c, Plan[i]) /\ docs[<<c, Plan[i].files[n]>>] > 0
  BY <1>0, <1>5 DEF ImportsOK, FolderKept, KeptFile, FileOf
<1>6. ~torn => \A cf \in DOMAIN docs :
        docs[cf] = links[cf] + Cardinality({w \in Importers : step[w].pc = "link" /\ step[w].cur.contact = cf[1]
                                                /\ Plan[step[w].cur.pos].files[step[w].cur.n + 1] = cf[2]})
  BY <1>0 DEF LinksOK, Linking, Hand, FileOf
<1>7. DoneIsWhole
  BY <1>5, <1>6 DEF DoneIsWhole
<1> QED
  BY <1>0, <1>4, <1>7 DEF ImportedOnce

\* Importing again is safe (src/imports/folders.py:10): a client is one contact and a file one document unless
\* two imports ran at once, an import that is done is whole, and one that runs has somebody that ends it.
THEOREM ImportingIsSafe == ImportSpec => []ImportedOnce
<1>1. ImportInit => ImInv
  BY ImInvInit
<1>2. ImInv /\ [ImportNext]_importVars => ImInv'
  BY ImInvStep
<1>3. ImInv => ImportedOnce
  BY ImInvImplies
<1> QED
  BY <1>1, <1>2, <1>3, PTL DEF ImportSpec

-----------------------------------------------------------------------------
(***************************************************************************)
(* The types of the five.  A message of an import stands for one request   *)
(* that started it: the messages, the workers at it and the requests that  *)
(* are starting it are never more than the requests there are.             *)
(***************************************************************************)
Queued(j) == {q \in (1 .. MaxTries) \X Nat : q[2] \in 1 .. messages[<<j, q[1]>>]}
AtIt(j) == {w \in Importers : AtWork(w) /\ step[w].job = j}
Started(j) == {r \in Askers : request[r].pc \in {"start", "enqueue"} /\ request[r].job = j}
Unstarted(j) == Queued(j) = {} /\ AtIt(j) = {} /\ \A r \in Askers : ~(request[r].pc = "enqueue" /\ request[r].job = j)
LoadOK(j) ==
    /\ IsFiniteSet(Queued(j))
    /\ Cardinality(Queued(j)) + Cardinality(AtIt(j)) + Cardinality(Started(j)) <= Cardinality(Askers)
    /\ import[j].status = "listed" => Unstarted(j)
LoadsOK == \A j \in Jobs : LoadOK(j)
HistoryOK == abandoned \subseteq Jobs /\ missed \subseteq Jobs \X Files

\* A set with one element less, or one more.
LEMMA OneLess ==
    ASSUME NEW S, IsFiniteSet(S), NEW x \in S, NEW T, T \subseteq S \ {x}
    PROVE  IsFiniteSet(T) /\ Cardinality(T) \in Nat /\ Cardinality(T) + 1 <= Cardinality(S)
<1>1. IsFiniteSet(S \ {x}) /\ Cardinality(S \ {x}) = Cardinality(S) - 1
  BY FS_RemoveElement
<1>2. IsFiniteSet(T) /\ Cardinality(T) <= Cardinality(S \ {x})
  BY <1>1, FS_Subset
<1>3. Cardinality(S) \in Nat /\ Cardinality(T) \in Nat
  BY <1>2, FS_CardinalityType
<1> QED
  BY <1>1, <1>2, <1>3

LEMMA OneMore ==
    ASSUME NEW S, IsFiniteSet(S), NEW x, NEW T, T \subseteq S \cup {x}
    PROVE  IsFiniteSet(T) /\ Cardinality(T) \in Nat /\ Cardinality(T) <= Cardinality(S) + 1
<1>1. IsFiniteSet(S \cup {x}) /\ (Cardinality(S \cup {x}) = Cardinality(S) \/ Cardinality(S \cup {x}) = Cardinality(S) + 1)
  BY FS_AddElement
<1>2. IsFiniteSet(T) /\ Cardinality(T) <= Cardinality(S \cup {x})
  BY <1>1, FS_Subset
<1>3. Cardinality(S) \in Nat /\ Cardinality(T) \in Nat
  BY <1>2, FS_CardinalityType
<1> QED
  BY <1>1, <1>2, <1>3

LEMMA NoneMore ==
    ASSUME NEW S, IsFiniteSet(S), NEW T, T \subseteq S
    PROVE  IsFiniteSet(T) /\ Cardinality(T) \in Nat /\ Cardinality(S) \in Nat /\ Cardinality(T) <= Cardinality(S)
<1>1. IsFiniteSet(T) /\ Cardinality(T) <= Cardinality(S)
  BY FS_Subset
<1> QED
  BY <1>1, FS_CardinalityType

\* What is carried from one of three sets to another is not more than it was.
Within(Q, W, R, n) ==
    /\ IsFiniteSet(Q) /\ IsFiniteSet(W) /\ IsFiniteSet(R)
    /\ Cardinality(Q) + Cardinality(W) + Cardinality(R) <= n
CarriedTo(Q, W, R, Q1, W1, R1) ==
    \/ Q1 \subseteq Q /\ W1 \subseteq W /\ R1 \subseteq R
    \/ \E x, w : Q1 \subseteq Q \cup {x} /\ w \in W /\ W1 \subseteq W \ {w} /\ R1 \subseteq R
    \/ \E x, r : Q1 \subseteq Q \cup {x} /\ r \in R /\ W1 \subseteq W /\ R1 \subseteq R \ {r}
    \/ \E x, w : x \in Q /\ Q1 \subseteq Q \ {x} /\ W1 \subseteq W \cup {w} /\ R1 \subseteq R
LEMMA Carried ==
    ASSUME NEW Q, NEW W, NEW R, NEW n \in Nat, Within(Q, W, R, n), NEW Q1, NEW W1, NEW R1, CarriedTo(Q, W, R, Q1, W1, R1)
    PROVE  Within(Q1, W1, R1, n)
<1> USE DEF Within
<1>0. Cardinality(Q) \in Nat /\ Cardinality(W) \in Nat /\ Cardinality(R) \in Nat
  BY FS_CardinalityType
<1>1. CASE Q1 \subseteq Q /\ W1 \subseteq W /\ R1 \subseteq R
  <2>1. /\ IsFiniteSet(Q1) /\ Cardinality(Q1) \in Nat /\ Cardinality(Q1) <= Cardinality(Q)
        /\ IsFiniteSet(W1) /\ Cardinality(W1) \in Nat /\ Cardinality(W1) <= Cardinality(W)
        /\ IsFiniteSet(R1) /\ Cardinality(R1) \in Nat /\ Cardinality(R1) <= Cardinality(R)
    BY <1>1, NoneMore
  <2> QED
    BY <1>0, <2>1
<1>2. ASSUME NEW x, NEW w \in W, Q1 \subseteq Q \cup {x}, W1 \subseteq W \ {w}, R1 \subseteq R
      PROVE  Within(Q1, W1, R1, n)
  <2>1. IsFiniteSet(Q1) /\ Cardinality(Q1) \in Nat /\ Cardinality(Q1) <= Cardinality(Q) + 1
    BY <1>2, OneMore
  <2>2. IsFiniteSet(W1) /\ Cardinality(W1) \in Nat /\ Cardinality(W1) + 1 <= Cardinality(W)
    BY <1>2, OneLess
  <2>3. IsFiniteSet(R1) /\ Cardinality(R1) \in Nat /\ Cardinality(R1) <= Cardinality(R)
    BY <1>2, NoneMore
  <2> QED
    BY <1>0, <2>1, <2>2, <2>3
<1>3. ASSUME NEW x, NEW r \in R, Q1 \subseteq Q \cup {x}, W1 \subseteq W, R1 \subseteq R \ {r}
      PROVE  Within(Q1, W1, R1, n)
  <2>1. IsFiniteSet(Q1) /\ Cardinality(Q1) \in Nat /\ Cardinality(Q1) <= Cardinality(Q) + 1
    BY <1>3, OneMore
  <2>2. IsFiniteSet(R1) /\ Cardinality(R1) \in Nat /\ Cardinality(R1) + 1 <= Cardinality(R)
    BY <1>3, OneLess
  <2>3. IsFiniteSet(W1) /\ Cardinality(W1) \in Nat /\ Cardinality(W1) <= Cardinality(W)
    BY <1>3, NoneMore
  <2> QED
    BY <1>0, <2>1, <2>2, <2>3
<1>4. ASSUME NEW x \in Q, NEW w, Q1 \subseteq Q \ {x}, W1 \subseteq W \cup {w}, R1 \subseteq R
      PROVE  Within(Q1, W1, R1, n)
  <2>1. IsFiniteSet(Q1) /\ Cardinality(Q1) \in Nat /\ Cardinality(Q1) + 1 <= Cardinality(Q)
    BY <1>4, OneLess
  <2>2. IsFiniteSet(W1) /\ Cardinality(W1) \in Nat /\ Cardinality(W1) <= Cardinality(W) + 1
    BY <1>4, OneMore
  <2>3. IsFiniteSet(R1) /\ Cardinality(R1) \in Nat /\ Cardinality(R1) <= Cardinality(R)
    BY <1>4, NoneMore
  <2> QED
    BY <1>0, <2>1, <2>2, <2>3
<1> QED
  BY <1>1, <1>2, <1>3, <1>4 DEF CarriedTo

\* One message more of an import, or one less.
LEMMA QueuedMore ==
    ASSUME ImRows, NEW j \in Jobs, NEW a \in 1 .. MaxTries, messages' = [messages EXCEPT ![<<j, a>>] = messages[<<j, a>>] + 1]
    PROVE  (\E x : Queued(j)' \subseteq Queued(j) \cup {x}) /\ \A i \in Jobs \ {j} : Queued(i)' \subseteq Queued(i)
<1>1. PICK n \in Nat : n = messages[<<j, a>>]
  BY DEF ImRows
<1>2. n + 1 \in Nat /\ messages' = [messages EXCEPT ![<<j, a>>] = n + 1]
  BY <1>1
<1>3. /\ messages'[<<j, a>>] = n + 1
      /\ \A i \in Jobs, b \in 1 .. MaxTries : <<i, b>> # <<j, a>> => messages'[<<i, b>>] = messages[<<i, b>>]
  BY <1>2, MessageSet
<1>4. ASSUME NEW b \in 1 .. MaxTries, NEW k \in Nat, k \in 1 .. messages'[<<j, b>>]
      PROVE  k \in 1 .. messages[<<j, b>>] \/ <<b, k>> = <<a, n + 1>>
  <2>1. CASE b = a
    BY <1>1, <1>3, <1>4, <2>1
  <2>2. CASE b # a
    BY <1>3, <1>4, <2>2
  <2> QED
    BY <2>1, <2>2
<1>5. Queued(j)' \subseteq Queued(j) \cup {<<a, n + 1>>}
  BY <1>4 DEF Queued
<1>6. \A i \in Jobs \ {j} : Queued(i)' \subseteq Queued(i)
  BY <1>3 DEF Queued
<1> QED
  BY <1>5, <1>6

LEMMA QueuedLess ==
    ASSUME ImRows, NEW j \in Jobs, NEW a \in 1 .. MaxTries, messages[<<j, a>>] > 0,
           messages' = [messages EXCEPT ![<<j, a>>] = messages[<<j, a>>] - 1]
    PROVE  (\E x \in Queued(j) : Queued(j)' \subseteq Queued(j) \ {x}) /\ \A i \in Jobs \ {j} : Queued(i)' \subseteq Queued(i)
<1>1. PICK n \in Nat : n = messages[<<j, a>>]
  BY DEF ImRows
<1>2. n > 0 /\ n - 1 \in Nat /\ messages' = [messages EXCEPT ![<<j, a>>] = n - 1]
  BY <1>1
<1>3. /\ messages'[<<j, a>>] = n - 1
      /\ \A i \in Jobs, b \in 1 .. MaxTries : <<i, b>> # <<j, a>> => messages'[<<i, b>>] = messages[<<i, b>>]
  BY <1>2, MessageSet
<1>4. ASSUME NEW b \in 1 .. MaxTries, NEW k \in Nat, k \in 1 .. messages'[<<j, b>>]
      PROVE  k \in 1 .. messages[<<j, b>>] /\ <<b, k>> # <<a, n>>
  <2>1. CASE b = a
    BY <1>1, <1>3, <1>4, <2>1
  <2>2. CASE b # a
    BY <1>3, <1>4, <2>2
  <2> QED
    BY <2>1, <2>2
<1>5. <<a, n>> \in Queued(j)
  BY <1>1, <1>2 DEF Queued
<1>6. Queued(j)' \subseteq Queued(j) \ {<<a, n>>}
  BY <1>4 DEF Queued
<1>7. \A i \in Jobs \ {j} : Queued(i)' \subseteq Queued(i)
  BY <1>3 DEF Queued
<1> QED
  BY <1>5, <1>6, <1>7

\* What a step of a worker does to the messages ...
LEMMA WorkerMessages ==
    ASSUME ImRows, NEW w \in Importers, WorkerDoes(w)
    PROVE  \/ UNCHANGED messages /\ (\A j \in Jobs, a \in 1 .. MaxTries : ~Take(w, j, a))
           \/ \E j \in Jobs, a \in 1 .. MaxTries : Take(w, j, a)
           \/ /\ AtWork(w) /\ step[w].job \in Jobs /\ step' = [step EXCEPT ![w] = NoStep]
              /\ \E a \in 1 .. MaxTries : messages' = [messages EXCEPT ![<<step[w].job, a>>] = messages[<<step[w].job, a>>] + 1]
<1>1. AtWork(w) => step[w].job \in Jobs /\ step[w].attempt \in 1 .. MaxTries
  BY DEF ImRows
<1>2. CASE AtWork(w) /\ Redeliver(w)
  <2>1. step' = [step EXCEPT ![w] = NoStep]
    BY <1>2 DEF Redeliver
  <2>2. step[w].pc # "idle" => \A j \in Jobs, a \in 1 .. MaxTries : ~Take(w, j, a)
    BY DEF Take
  <2>3. CASE step[w].attempt < MaxTries
    <3>1. step[w].attempt + 1 \in 1 .. MaxTries
      BY <1>1, <1>2, <2>3, PlanFacts
    <3>2. PICK a \in 1 .. MaxTries : a = step[w].attempt + 1
      BY <3>1
    <3>3. messages' = [messages EXCEPT ![<<step[w].job, a>>] = messages[<<step[w].job, a>>] + 1]
      BY <1>2, <2>3, <3>2 DEF Redeliver
    <3> QED
      BY <1>1, <1>2, <2>1, <3>3
  <2>4. CASE ~(step[w].attempt < MaxTries)
    <3>1. UNCHANGED messages
      BY <1>2, <2>4 DEF Redeliver
    <3> QED
      BY <1>2, <2>2, <3>1 DEF AtWork
  <2> QED
    BY <2>3, <2>4
<1>3. CASE EnqueueNext(w) /\ ~Redeliver(w)
  <2>1. AtWork(w) /\ step' = [step EXCEPT ![w] = NoStep] /\ 1 \in 1 .. MaxTries
    BY <1>3, PlanFacts DEF EnqueueNext, AtWork
  <2>2. messages' = [messages EXCEPT ![<<step[w].job, 1>>] = messages[<<step[w].job, 1>>] + 1]
    BY <1>3 DEF EnqueueNext
  <2> QED
    BY <1>1, <2>1, <2>2
<1>4. \/ \E j \in Jobs, a \in 1 .. MaxTries : Take(w, j, a)
      \/ AtWork(w) /\ Redeliver(w)
      \/ EnqueueNext(w) /\ ~Redeliver(w)
      \/ UNCHANGED messages
  BY DEF WorkerDoes, Fetcher, OpenFolder, SkipFile, SaveDocument, LinkDocument, CloseFolder, Pause, EnqueueNext, Fails, Discard,
         SaveEnd, WorkerDies, AtWork
<1> QED
  BY <1>2, <1>3, <1>4

\* ... and to the import it is at: a worker that was at work stays with it.
LEMMA WorkerStays ==
    ASSUME ImRows, OwnersOK, StepsOK, NEW w \in Importers, WorkerDoes(w),
           \A j \in Jobs, a \in 1 .. MaxTries : ~Take(w, j, a), AtWork(w)'
    PROVE  AtWork(w) /\ step'[w].job = step[w].job
<1>1. CASE OpenFolder(w)
  BY <1>1, Opens DEF OpenFolder, AtWork
<1>2. CASE SkipFile(w)
  BY <1>2, Skips DEF SkipFile, Working, AtWork
<1>3. CASE LinkDocument(w)
  BY <1>3, Links DEF LinkDocument, AtWork
<1>4. CASE CloseFolder(w)
  <2>1. step[w].pc = "file"
    BY <1>4 DEF CloseFolder
  <2>2. step[w].cur.pos \in DOMAIN Plan
    BY <2>1, HandIsThere
  <2> QED
    BY <1>4, <2>1, <2>2, Closes DEF AtWork
<1>5. CASE AtWork(w) /\ \E point \in {"folder", "link", "next", "failed", "saveDone", "saveFailed"} : step' = [step EXCEPT ![w].pc = point]
  BY <1>5, Moves
<1> QED
  BY <1>1, <1>2, <1>3, <1>4, <1>5, WorkerRow

\* A step of a worker carries a message to it or back, or leaves them where they are.
LEMMA WorkerLoads ==
    ASSUME ImRows, OwnersOK, StepsOK, NEW w \in Importers, WorkerDoes(w), NEW j \in Jobs
    PROVE  \/ Queued(j)' \subseteq Queued(j) /\ AtIt(j)' \subseteq AtIt(j)
           \/ \E x : Queued(j)' \subseteq Queued(j) \cup {x} /\ w \in AtIt(j) /\ AtIt(j)' \subseteq AtIt(j) \ {w}
           \/ \E x \in Queued(j) : Queued(j)' \subseteq Queued(j) \ {x} /\ AtIt(j)' \subseteq AtIt(j) \cup {w}
<1>0. \A v \in Importers \ {w} : step'[v] = step[v]
  BY WorkersKeepSteps DEF OneStep
<1>1. CASE UNCHANGED messages /\ \A i \in Jobs, a \in 1 .. MaxTries : ~Take(w, i, a)
  <2>1. Queued(j)' \subseteq Queued(j)
    BY <1>1 DEF Queued
  <2>2. AtWork(w)' => AtWork(w) /\ step'[w].job = step[w].job
    BY <1>1, WorkerStays
  <2>3. AtIt(j)' \subseteq AtIt(j)
    BY <1>0, <2>2 DEF AtIt, AtWork
  <2> QED
    BY <2>1, <2>3
<1>2. ASSUME NEW i \in Jobs, NEW a \in 1 .. MaxTries, Take(w, i, a)
      PROVE  \/ Queued(j)' \subseteq Queued(j) /\ AtIt(j)' \subseteq AtIt(j)
             \/ \E x \in Queued(j) : Queued(j)' \subseteq Queued(j) \ {x} /\ AtIt(j)' \subseteq AtIt(j) \cup {w}
  <2>1. messages[<<i, a>>] > 0 /\ messages' = [messages EXCEPT ![<<i, a>>] = messages[<<i, a>>] - 1]
    BY <1>2 DEF Take
  <2>2. (\E x \in Queued(i) : Queued(i)' \subseteq Queued(i) \ {x}) /\ \A k \in Jobs \ {i} : Queued(k)' \subseteq Queued(k)
    BY <2>1, QueuedLess
  <2>3. AtWork(w)' => step'[w].job = i
    <3>1. CASE import[i].status = "running"
      BY <1>2, <3>1, Takes
    <3>2. CASE import[i].status # "running"
      BY <1>2, <3>2 DEF Take, AtWork
    <3> QED
      BY <3>1, <3>2
  <2>4. AtIt(j)' \subseteq AtIt(j) \cup {w}
    BY <1>0 DEF AtIt, AtWork
  <2>5. j # i => AtIt(j)' \subseteq AtIt(j)
    BY <1>0, <2>3 DEF AtIt, AtWork
  <2> QED
    BY <2>2, <2>4, <2>5
<1>3. ASSUME AtWork(w), step[w].job \in Jobs, step' = [step EXCEPT ![w] = NoStep], NEW a \in 1 .. MaxTries,
             messages' = [messages EXCEPT ![<<step[w].job, a>>] = messages[<<step[w].job, a>>] + 1]
      PROVE  \/ Queued(j)' \subseteq Queued(j) /\ AtIt(j)' \subseteq AtIt(j)
             \/ \E x : Queued(j)' \subseteq Queued(j) \cup {x} /\ w \in AtIt(j) /\ AtIt(j)' \subseteq AtIt(j) \ {w}
  <2>1. PICK i \in Jobs : i = step[w].job
    BY <1>3
  <2>2. (\E x : Queued(i)' \subseteq Queued(i) \cup {x}) /\ \A k \in Jobs \ {i} : Queued(k)' \subseteq Queued(k)
    BY <1>3, <2>1, QueuedMore
  <2>3. ~AtWork(w)'
    BY <1>3, Stops DEF AtWork
  <2>4. AtIt(j)' \subseteq AtIt(j) \ {w}
    BY <1>0, <2>3 DEF AtIt, AtWork
  <2>5. w \in AtIt(i)
    BY <1>3, <2>1 DEF AtIt
  <2> QED
    BY <2>2, <2>4, <2>5
<1> QED
  BY <1>1, <1>2, <1>3, WorkerMessages

LEMMA LoadSets ==
    ASSUME NEW j \in Jobs
    PROVE  /\ IsFiniteSet(AtIt(j)) /\ IsFiniteSet(Started(j)) /\ Started(j) \subseteq Askers
           /\ IsFiniteSet(Askers) /\ Cardinality(Askers) \in Nat
<1>1. AtIt(j) \subseteq Importers /\ Started(j) \subseteq Askers
  BY DEF AtIt, Started
<1> QED
  BY <1>1, ImportAssumption, FS_Subset, FS_CardinalityType DEF ImportAssumption

LEMMA WorkersKeepLoads ==
    ASSUME ImRows, OwnersOK, StepsOK, LoadsOK, NEW w \in Importers, WorkerDoes(w)
    PROVE  LoadsOK'
<1>0. UNCHANGED request
  BY DEF WorkerDoes, Take, Fetcher, OpenFolder, SkipFile, SaveDocument, LinkDocument, CloseFolder, Pause, EnqueueNext, Fails,
         Discard, SaveEnd, WorkerDies
<1>1. SUFFICES ASSUME NEW j \in Jobs
               PROVE  LoadOK(j)'
  BY DEF LoadsOK
<1>2. LoadOK(j)
  BY DEF LoadsOK
<1>3. \/ Queued(j)' \subseteq Queued(j) /\ AtIt(j)' \subseteq AtIt(j)
      \/ \E x : Queued(j)' \subseteq Queued(j) \cup {x} /\ w \in AtIt(j) /\ AtIt(j)' \subseteq AtIt(j) \ {w}
      \/ \E x \in Queued(j) : Queued(j)' \subseteq Queued(j) \ {x} /\ AtIt(j)' \subseteq AtIt(j) \cup {w}
  BY WorkerLoads
<1>4. Started(j)' = Started(j)
  BY <1>0 DEF Started
<1>5. IsFiniteSet(Queued(j)') /\ Cardinality(Queued(j)') + Cardinality(AtIt(j)') + Cardinality(Started(j)') <= Cardinality(Askers)
  <2>1. PICK n \in Nat : n = Cardinality(Askers)
    BY LoadSets
  <2>2. PICK Q, W, R, Q1, W1 : /\ Q = Queued(j) /\ W = AtIt(j) /\ R = Started(j)
                               /\ Q1 = Queued(j)' /\ W1 = AtIt(j)'
    OBVIOUS
  <2>3. Within(Q, W, R, n)
    BY <1>2, <2>1, <2>2, LoadSets DEF LoadOK, Within
  <2>4. CarriedTo(Q, W, R, Q1, W1, R)
    BY <1>3, <2>2 DEF CarriedTo
  <2>5. Within(Q1, W1, R, n)
    BY <2>3, <2>4, Carried
  <2> QED
    BY <1>4, <2>1, <2>2, <2>5 DEF Within
<1>6. import'[j].status = "listed" => import[j].status = "listed"
  <2>1. PICK k : k = step[w].job
    OBVIOUS
  <2>2. \/ UNCHANGED import
        \/ \E status, done, cur : k \in Jobs /\ SavedAs(k, status, done, cur) /\ (status = import[k].status \/ status # "listed")
    BY <2>1, WorkersSave
  <2> QED
    BY <2>2 DEF SavedAs
<1>7. import'[j].status = "listed" => Unstarted(j)'
  <2>1. ASSUME import[j].status = "listed"
        PROVE  Unstarted(j)'
    <3>1. Queued(j) = {} /\ AtIt(j) = {}
      BY <1>2, <2>1 DEF LoadOK, Unstarted
    <3>2. Queued(j)' = {} /\ AtIt(j)' = {}
      BY <1>3, <3>1
    <3>3. \A r \in Askers : ~(request'[r].pc = "enqueue" /\ request'[r].job = j)
      BY <1>0, <1>2, <2>1 DEF LoadOK, Unstarted
    <3> QED
      BY <3>2, <3>3 DEF Unstarted
  <2> QED
    BY <1>6, <2>1
<1> QED
  BY <1>5, <1>7 DEF LoadOK

LEMMA AsksKeepLoads ==
    ASSUME ImRows, LoadsOK, NEW r \in Askers,
           (\E j \in Jobs : AskImport(r, j) \/ AskDiscard(r, j)) \/ SaveStart(r) \/ EnqueueStart(r) \/ SaveDiscard(r) \/ RequestDies(r)
    PROVE  LoadsOK'
<1>0. /\ UNCHANGED step /\ request[r] \in AskRow /\ (request[r].pc # "idle" => request[r].job \in Jobs)
      /\ \A q \in Askers \ {r} : request'[q] = request[q]
  <2>1. UNCHANGED step
    BY AsksLeave
  <2>2. \A q \in Askers \ {r} : request'[q] = request[q]
    BY DEF ImRows, AskImport, AskDiscard, SaveStart, EnqueueStart, SaveDiscard, RequestDies
  <2> QED
    BY <2>1, <2>2 DEF ImRows
<1>1. SUFFICES ASSUME NEW j \in Jobs
               PROVE  LoadOK(j)'
  BY DEF LoadsOK
<1>2. LoadOK(j)
  BY DEF LoadsOK
<1>3. AtIt(j)' = AtIt(j)
  BY <1>0 DEF AtIt, AtWork
<1>4. /\ IsFiniteSet(Queued(j)) /\ IsFiniteSet(AtIt(j)) /\ IsFiniteSet(Started(j)) /\ Cardinality(Askers) \in Nat
      /\ Cardinality(Queued(j)) + Cardinality(AtIt(j)) + Cardinality(Started(j)) <= Cardinality(Askers)
  BY <1>2, LoadSets DEF LoadOK
<1>5. ASSUME \/ Queued(j)' \subseteq Queued(j) /\ Started(j)' \subseteq Started(j)
             \/ \E x : Queued(j)' \subseteq Queued(j) \cup {x} /\ r \in Started(j) /\ Started(j)' \subseteq Started(j) \ {r}
      PROVE  IsFiniteSet(Queued(j)') /\ Cardinality(Queued(j)') + Cardinality(AtIt(j)') + Cardinality(Started(j)') <= Cardinality(Askers)
  <2>1. PICK n \in Nat : n = Cardinality(Askers)
    BY <1>4
  <2>2. PICK Q, W, R, Q1, R1 : /\ Q = Queued(j) /\ W = AtIt(j) /\ R = Started(j)
                               /\ Q1 = Queued(j)' /\ R1 = Started(j)'
    OBVIOUS
  <2>3. Within(Q, W, R, n)
    BY <1>4, <2>1, <2>2 DEF Within
  <2>4. CarriedTo(Q, W, R, Q1, W, R1)
    BY <1>5, <2>2 DEF CarriedTo
  <2>5. Within(Q1, W, R1, n)
    BY <2>3, <2>4, Carried
  <2> QED
    BY <1>3, <2>1, <2>2, <2>5 DEF Within
\* Nothing was enqueued: an import that is listed still has nobody at it.
<1>6. ASSUME UNCHANGED messages, request'[r].pc # "enqueue", import'[j].status = "listed" => import[j].status = "listed"
      PROVE  import'[j].status = "listed" => Unstarted(j)'
  <2>1. SUFFICES ASSUME import[j].status = "listed"
                 PROVE  Unstarted(j)'
    BY <1>6
  <2>2. Unstarted(j)
    BY <1>2, <2>1 DEF LoadOK
  <2>3. Queued(j)' = {} /\ AtIt(j)' = {}
    BY <1>3, <1>6, <2>2 DEF Unstarted, Queued
  <2>4. \A q \in Askers : ~(request'[q].pc = "enqueue" /\ request'[q].job = j)
    BY <1>0, <1>6, <2>2 DEF Unstarted
  <2> QED
    BY <2>3, <2>4 DEF Unstarted
<1>7. UNCHANGED messages => Queued(j)' \subseteq Queued(j)
  BY DEF Queued
<1>8. ASSUME request'[r].pc \notin {"start", "enqueue"}
      PROVE  Started(j)' \subseteq Started(j) \ {r}
  BY <1>0, <1>8 DEF Started
<1>9. ASSUME NEW i \in Jobs, AskImport(r, i)
      PROVE  LoadOK(j)'
  <2>1. UNCHANGED <<import, messages>> /\ import[i].status = "listed" /\ request'[r] = [pc |-> "start", job |-> i]
    BY <1>9 DEF AskImport, ImRows
  <2>2. import'[j].status = "listed" => Unstarted(j)'
    BY <1>6, <2>1
  <2>3. CASE j = i
    <3>1. Queued(j)' = {} /\ AtIt(j)' = {}
      BY <2>1, <2>2, <2>3 DEF Unstarted
    <3>2. Cardinality(Queued(j)') = 0 /\ Cardinality(AtIt(j)') = 0 /\ IsFiniteSet(Queued(j)')
      BY <3>1, FS_EmptySet
    <3>3. Started(j)' \subseteq Askers
      BY DEF Started
    <3>4. Cardinality(Started(j)') \in Nat /\ Cardinality(Started(j)') <= Cardinality(Askers)
      BY <3>3, LoadSets, NoneMore
    <3> QED
      BY <2>2, <3>2, <3>4 DEF LoadOK
  <2>4. CASE j # i
    <3>1. Started(j)' \subseteq Started(j)
      BY <1>0, <2>1, <2>4 DEF Started
    <3> QED
      BY <1>5, <1>7, <2>1, <2>2, <3>1 DEF LoadOK
  <2> QED
    BY <2>3, <2>4
<1>10. ASSUME NEW i \in Jobs, AskDiscard(r, i)
       PROVE  LoadOK(j)'
  <2>1. UNCHANGED <<import, messages>> /\ request'[r] = [pc |-> "discard", job |-> i]
    BY <1>10 DEF AskDiscard, ImRows
  <2> QED
    BY <1>5, <1>6, <1>7, <1>8, <2>1 DEF LoadOK
<1>11. ASSUME SaveStart(r)
       PROVE  LoadOK(j)'
  <2>1. UNCHANGED messages /\ request[r].pc = "start" /\ request'[r] = [request[r] EXCEPT !.pc = "enqueue"]
    BY <1>11 DEF SaveStart, ImRows
  <2>2. request'[r].job = request[r].job /\ request'[r].pc = "enqueue"
    BY <1>0, <2>1 DEF AskRow
  <2>3. Started(j)' \subseteq Started(j)
    BY <1>0, <2>1, <2>2 DEF Started
  <2>4. SavedAs(request[r].job, "running", 0, NoFolder)
    BY <1>11, StartSaves
  <2>5. import'[j].status = "listed" => Unstarted(j)'
    <3>1. SUFFICES ASSUME import'[j].status = "listed"
                   PROVE  Unstarted(j)'
      OBVIOUS
    <3>2. j # request[r].job /\ import[j].status = "listed"
      BY <2>4, <3>1 DEF SavedAs
    <3>3. Unstarted(j)
      BY <1>2, <3>2 DEF LoadOK
    <3>4. Queued(j)' = {} /\ AtIt(j)' = {}
      BY <1>3, <2>1, <3>3 DEF Unstarted, Queued
    <3>5. \A q \in Askers : ~(request'[q].pc = "enqueue" /\ request'[q].job = j)
      BY <1>0, <2>2, <3>2, <3>3 DEF Unstarted
    <3> QED
      BY <3>4, <3>5 DEF Unstarted
  <2> QED
    BY <1>5, <1>7, <2>1, <2>3, <2>5 DEF LoadOK
<1>12. ASSUME EnqueueStart(r)
       PROVE  LoadOK(j)'
  <2>1. PICK k \in Jobs : k = request[r].job
    BY <1>0, <1>12 DEF EnqueueStart
  <2>2. request[r].pc = "enqueue" /\ UNCHANGED import /\ request'[r] = NoRequest
    BY <1>12 DEF EnqueueStart, ImRows
  <2>3. request'[r].pc = "idle" /\ Started(j)' \subseteq Started(j) \ {r}
    BY <1>8, <2>2 DEF NoRequest
  <2>4. CASE UNCHANGED messages
    BY <1>5, <1>6, <1>7, <2>2, <2>3, <2>4 DEF LoadOK
  <2>5. CASE messages' = [messages EXCEPT ![<<k, 1>>] = messages[<<k, 1>>] + 1]
    <3>1. 1 \in 1 .. MaxTries
      BY PlanFacts
    <3>2. (\E x : Queued(k)' \subseteq Queued(k) \cup {x}) /\ \A i \in Jobs \ {k} : Queued(i)' \subseteq Queued(i)
      BY <2>5, <3>1, QueuedMore
    <3>3. r \in Started(k)
      BY <2>1, <2>2 DEF Started
    <3>4. import'[j].status = "listed" => Unstarted(j)'
      <4>1. SUFFICES ASSUME import[j].status = "listed"
                     PROVE  Unstarted(j)'
        BY <2>2
      <4>2. Unstarted(j)
        BY <1>2, <4>1 DEF LoadOK
      <4>3. j # k
        BY <2>1, <2>2, <4>2 DEF Unstarted
      <4>4. Queued(j)' = {} /\ AtIt(j)' = {}
        BY <1>3, <3>2, <4>2, <4>3 DEF Unstarted
      <4>5. \A q \in Askers : ~(request'[q].pc = "enqueue" /\ request'[q].job = j)
        BY <1>0, <2>3, <4>2 DEF Unstarted
      <4> QED
        BY <4>4, <4>5 DEF Unstarted
    <3>5. \/ Queued(j)' \subseteq Queued(j) /\ Started(j)' \subseteq Started(j)
          \/ \E x : Queued(j)' \subseteq Queued(j) \cup {x} /\ r \in Started(j) /\ Started(j)' \subseteq Started(j) \ {r}
      BY <2>3, <3>2, <3>3
    <3> QED
      BY <1>5, <3>4, <3>5 DEF LoadOK
  <2> QED
    BY <1>12, <2>1, <2>4, <2>5 DEF EnqueueStart
<1>13. ASSUME SaveDiscard(r)
       PROVE  LoadOK(j)'
  <2>1. UNCHANGED messages /\ request'[r].pc = "idle"
    BY <1>13 DEF SaveDiscard, NoRequest, ImRows
  <2>2. import'[j].status = "listed" => import[j].status = "listed"
    BY <1>13, DiscardSaves DEF SavedAs
  <2> QED
    BY <1>5, <1>6, <1>7, <1>8, <2>1, <2>2 DEF LoadOK
<1>14. ASSUME RequestDies(r)
       PROVE  LoadOK(j)'
  <2>1. UNCHANGED <<import, messages>> /\ request'[r].pc = "idle"
    BY <1>14 DEF RequestDies, NoRequest, ImRows
  <2> QED
    BY <1>5, <1>6, <1>7, <1>8, <2>1 DEF LoadOK
<1> QED
  BY <1>9, <1>10, <1>11, <1>12, <1>13, <1>14

\* What is remembered of imports and files is of those there are.
LEMMA HistoryKept ==
    ASSUME ImRows, OwnersOK, StepsOK, HistoryOK, ImportNext
    PROVE  HistoryOK'
<1>1. abandoned \subseteq Jobs /\ missed \subseteq Jobs \X Files
  BY DEF HistoryOK
<1>2. ASSUME NEW r \in Askers,
             (\E j \in Jobs : AskImport(r, j) \/ AskDiscard(r, j)) \/ SaveStart(r) \/ EnqueueStart(r) \/ SaveDiscard(r) \/ RequestDies(r)
      PROVE  HistoryOK'
  <2>1. UNCHANGED missed
    BY <1>2, AsksLeave
  <2>2. request[r].pc # "idle" => request[r].job \in Jobs
    BY DEF ImRows
  <2>3. abandoned' = abandoned \/ (request[r].pc # "idle" /\ abandoned' = abandoned \cup {request[r].job})
    BY <1>2 DEF AskImport, AskDiscard, SaveStart, EnqueueStart, SaveDiscard, RequestDies
  <2> QED
    BY <1>1, <2>1, <2>2, <2>3 DEF HistoryOK
<1>3. ASSUME NEW w \in Importers, WorkerDoes(w)
      PROVE  HistoryOK'
  <2>1. AtWork(w) => step[w].job \in Jobs
    BY DEF ImRows
  <2>2. abandoned' = abandoned \/ (AtWork(w) /\ abandoned' = abandoned \cup {step[w].job})
    BY <1>3 DEF WorkerDoes, Take, Fetcher, OpenFolder, SkipFile, SaveDocument, LinkDocument, CloseFolder, Pause, EnqueueNext, Fails,
                Discard, SaveEnd, WorkerDies, Redeliver, AtWork
  <2>3. CASE SkipFile(w)
    <3>1. missed' = missed \/ missed' = missed \cup {<<step[w].job, NextFile(w)>>}
      BY <2>3 DEF SkipFile
    <3>2. step[w].pc = "file" /\ step[w].cur.n < Len(Plan[step[w].cur.pos].files)
      BY <2>3 DEF SkipFile, Working
    <3>3. NextFile(w) \in Files /\ step[w].job \in Jobs
      BY <2>1, <3>2, HandIsThere DEF NextFile, Hand, FileOf, AtWork
    <3> QED
      BY <1>1, <2>1, <2>2, <3>1, <3>3 DEF HistoryOK
  <2>4. CASE ~SkipFile(w)
    <3>1. UNCHANGED missed
      BY <1>3, <2>4 DEF WorkerDoes, Take, Fetcher, OpenFolder, SaveDocument, LinkDocument, CloseFolder, Pause, EnqueueNext, Fails,
                        Discard, SaveEnd, WorkerDies
    <3> QED
      BY <1>1, <2>1, <2>2, <3>1 DEF HistoryOK
  <2> QED
    BY <2>3, <2>4
<1> QED
  BY <1>2, <1>3, Steps

LEMMA TypedStep == ImInv /\ LoadsOK /\ HistoryOK /\ [ImportNext]_importVars => LoadsOK' /\ HistoryOK'
<1> SUFFICES ASSUME ImInv, LoadsOK, HistoryOK, [ImportNext]_importVars
             PROVE  LoadsOK' /\ HistoryOK'
  OBVIOUS
<1>1. ImRows /\ OwnersOK /\ StepsOK
  BY DEF ImInv
<1>2. CASE ImportNext
  BY <1>1, <1>2, Steps, WorkersKeepLoads, AsksKeepLoads, HistoryKept
<1>3. CASE UNCHANGED importVars
  BY <1>3 DEF importVars, LoadsOK, LoadOK, Unstarted, Queued, AtIt, AtWork, Started, HistoryOK
<1> QED
  BY <1>2, <1>3

LEMMA TypedStart == ImportInit => LoadsOK /\ HistoryOK
<1> SUFFICES ASSUME ImportInit
             PROVE  LoadsOK /\ HistoryOK
  OBVIOUS
<1>1. HistoryOK
  BY DEF ImportInit, HistoryOK
<1>2. ASSUME NEW j \in Jobs
      PROVE  LoadOK(j)
  <2>1. \A w \in Importers : step[w].pc = "idle"
    BY DEF ImportInit, NoStep
  <2>2. \A r \in Askers : request[r].pc = "idle"
    BY DEF ImportInit, NoRequest
  <2>3. \A a \in 1 .. MaxTries : messages[<<j, a>>] = 0
    BY DEF ImportInit
  <2>4. Queued(j) = {}
    BY <2>3 DEF Queued
  <2>5. AtIt(j) = {} /\ Started(j) = {}
    BY <2>1, <2>2 DEF AtIt, AtWork, Started
  <2>6. IsFiniteSet({}) /\ Cardinality({}) = 0 /\ Cardinality(Askers) \in Nat
    BY LoadSets, FS_EmptySet
  <2> QED
    BY <2>2, <2>4, <2>5, <2>6 DEF LoadOK, Unstarted
<1> QED
  BY <1>1, <1>2 DEF LoadsOK

LEMMA TypedImport == ImInv /\ LoadsOK /\ HistoryOK => ImportTypeOK
<1> SUFFICES ASSUME ImInv, LoadsOK, HistoryOK
             PROVE  ImportTypeOK
  OBVIOUS
<1>1. ImRows /\ OwnersOK
  BY DEF ImInv
<1>2. \A j \in Jobs : import[j].status \in {"listed", "running", "done", "failed", "canceled"} /\ import[j].done \in 0 .. Len(Plan)
  BY <1>1, ImportRows DEF Statuses
<1>3. Len(contacts) <= MaxContacts
  BY <1>1, Fits
<1>4. ASSUME NEW j \in Jobs, NEW a \in 1 .. MaxTries
      PROVE  messages[<<j, a>>] \in 0 .. Cardinality(Askers)
  <2>1. PICK n \in Nat : n = messages[<<j, a>>]
    BY <1>1 DEF ImRows
  <2>2. PICK g : g = [k \in 1 .. n |-> <<a, k>>]
    OBVIOUS
  <2>3. g \in Injection(1 .. n, Queued(j))
    <3>1. \A k \in 1 .. n : <<a, k>> \in Queued(j)
      BY <2>1 DEF Queued
    <3>2. g \in [1 .. n -> Queued(j)]
      BY <2>2, <3>1
    <3>3. \A k, l \in 1 .. n : g[k] = g[l] => k = l
      BY <2>2
    <3> QED
      BY <3>2, <3>3 DEF Injection, IsInjective
  <2>4. /\ IsFiniteSet(Queued(j)) /\ Cardinality(Queued(j)) + Cardinality(AtIt(j)) + Cardinality(Started(j)) <= Cardinality(Askers)
        /\ Cardinality(Queued(j)) \in Nat /\ Cardinality(AtIt(j)) \in Nat /\ Cardinality(Started(j)) \in Nat
        /\ Cardinality(Askers) \in Nat
    BY LoadSets, FS_CardinalityType DEF LoadsOK, LoadOK
  <2>5. Cardinality(1 .. n) = n
    BY UpTo
  <2>6. Cardinality(1 .. n) <= Cardinality(Queued(j))
    BY <2>3, <2>4, FS_Injection
  <2>7. n <= Cardinality(Askers)
    BY <2>4, <2>5, <2>6
  <2> QED
    BY <2>1, <2>4, <2>7
<1>5. \A m \in DOMAIN messages : messages[m] \in 0 .. Cardinality(Askers)
  <2>1. DOMAIN messages = Jobs \X (1 .. MaxTries)
    BY <1>1 DEF ImRows
  <2> QED
    BY <1>4, <2>1
<1> QED
  BY <1>2, <1>3, <1>5 DEF ImportTypeOK, HistoryOK

LEMMA ImportTyped == ImportSpec => []ImportTypeOK
<1>1. ImportInit => ImInv
  BY ImInvInit
<1>2. ImInv /\ [ImportNext]_importVars => ImInv'
  BY ImInvStep
<1> QED
  BY <1>1, <1>2, TypedStart, TypedStep, TypedImport, PTL DEF ImportSpec

\* While one of the five moves the others rest, so each of them keeps its own specification.
LEMMA OneMovesAlone == EditsSpec => Spec /\ AsSpec /\ ImportSpec /\ CustSpec /\ AuditSpec
<1>1. EditsInit => Init /\ AsInit /\ ImportInit /\ CustInit /\ AuditInit
  BY DEF EditsInit
<1>2. [EditsNext]_<<moves, vars, asVars, importVars, custVars, auditVars>> =>
          [Next]_vars /\ [AsNext]_asVars /\ [ImportNext]_importVars /\ [CustNext]_custVars /\ [AuditNext]_auditVars
  BY DEF EditsNext
<1> QED
  BY <1>1, <1>2, PTL DEF EditsSpec, Spec, AsSpec, ImportSpec, CustSpec, AuditSpec

\* Every variable of the five modules keeps to its range: no import has more messages than requests could start
\* it, there are no more contacts than folders and workers, and what is missed or abandoned is there.
THEOREM EditsTypesOK == EditsSpec => []TypesOK
<1>1. (Spec => []TypeOK) /\ (AuditSpec => []AuditTypeOK)
  BY TypeCorrect, AuditTypeCorrect
<1>2. (AsSpec => []AsTypeOK) /\ (CustSpec => []CustTypeOK)
  BY AsInvHolds, CustInvHolds, PTL
<1> QED
  BY <1>1, <1>2, ImportTyped, OneMovesAlone, PTL DEF TypesOK
=============================================================================
