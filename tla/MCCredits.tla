------------------------------ MODULE MCCredits ------------------------------
(***************************************************************************)
(* What the use of AI costs and may cost, and the e-mails it classifies:   *)
(* Credits, AICalls and EmailIntake on small sets.  They share no state;   *)
(* in this instance one moves while the others rest in an initial state,   *)
(* so TLC explores each completely.                                        *)
(***************************************************************************)
EXTENDS Credits, AICalls, EmailIntake, TLC

\* The platform pays the first provider of the chain.
CONSTANTS ours, other
TwoProviders == <<ours, other>>

\* A message to two people and one to the first of them.
CONSTANTS mine, yours, both, one
Copies == {<<mine, both>>, <<yours, both>>, <<mine, one>>}

VARIABLE moves  \* the component that moves in this behaviour

CreditsInit ==
    /\ moves \in {"credits", "calls", "mail"}
    /\ Init /\ (moves = "credits" \/ trial)
    /\ AiInit /\ (moves = "calls" \/ \A p \in Providers : ownKey[p] = "none")
    /\ MailInit

CreditsNext ==
    /\ UNCHANGED moves
    /\ \/ moves = "credits" /\ Next /\ UNCHANGED <<aiVars, mailVars>>
       \/ moves = "calls" /\ AiNext /\ UNCHANGED <<vars, mailVars>>
       \/ moves = "mail" /\ MailNext /\ UNCHANGED <<vars, aiVars>>

CreditsSpec == CreditsInit /\ [][CreditsNext]_<<moves, vars, aiVars, mailVars>>

\* Every variable of Credits, AICalls and EmailIntake keeps to its range.
TypesOK == TypeOK /\ AiTypeOK /\ MailTypeOK

\* The requests and the readers of mailboxes are the same model values: only one component moves.
RequestSymmetry == Permutations(Requests) \cup Permutations(Members) \cup Permutations(AiRequests)
=============================================================================
