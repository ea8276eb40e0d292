------------------------------ MODULE MCAICalls ------------------------------
(* AICalls with two providers: the platform pays the first. *)
EXTENDS AICalls

CONSTANTS ours, other
TwoProviders == <<ours, other>>
=============================================================================
