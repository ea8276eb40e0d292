----------------------------- MODULE MCRuleRuns -----------------------------
(***************************************************************************)
(* Instances of RuleRuns: the rules whose steps the runs check.            *)
(***************************************************************************)
EXTENDS RuleRuns, TLC

\* An event in Google and then a message to the client.
EventThenMessage == <<"google", "envio">>
\* A message and then a call to the ERP, which always waits for a human.
MessageThenErp == <<"envio", "erp">>
OneMessage == <<"envio">>

\* A day is spent on one event that is delivered twice, to processes of which one may die, or on two
\* events, to an office whose client agreed and whose hours do not end.
OneDay ==
    \/ Cardinality({k \in Keys : deliveries[k] > 0}) <= 1
    \/ crashes = 0 /\ consent /\ open /\ \A k \in Keys : deliveries[k] <= 1 /\ age[k] = 0

Symmetric == Permutations(Workers) \cup Permutations(Keys)
WorkersSymmetric == Permutations(Workers)
=============================================================================
