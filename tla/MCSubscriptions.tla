-------------------------- MODULE MCSubscriptions --------------------------
(* Subscriptions with one subscription. *)
EXTENDS Subscriptions
=============================================================================
