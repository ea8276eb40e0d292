---------------------------- MODULE MCEmailIntake ----------------------------
(* EmailIntake with one message sent to two people of the platform. *)
EXTENDS EmailIntake

CONSTANTS mine, yours, both
Copies == {<<mine, both>>, <<yours, both>>}
=============================================================================
