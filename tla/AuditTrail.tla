------------------------------ MODULE AuditTrail ------------------------------
(***************************************************************************)
(* What the audit promises its reader, whatever writers, transactions and  *)
(* retention do: entries are added after every entry there ever was, are   *)
(* never changed, and leave from the oldest end only.  After a hand from   *)
(* outside the application has touched it, nothing is promised any more.   *)
(***************************************************************************)
EXTENDS Naturals

VARIABLES
    kept,     \* the numbers of the entries that can be read
    top,      \* the number of the newest entry there ever was
    touched   \* somebody changed the table outside the application

trailVars == <<kept, top, touched>>

TrailInit == kept = {} /\ top = 0 /\ touched = FALSE

Grow ==
    /\ top' > top
    /\ \E new \in SUBSET (top + 1 .. top') : top' \in new /\ kept' = kept \cup new
    /\ UNCHANGED touched

Expire ==
    /\ \E until \in kept : kept' = {n \in kept : n > until}
    /\ UNCHANGED <<top, touched>>

Touch ==
    /\ touched' = TRUE
    /\ kept' \subseteq Nat
    /\ top' \in Nat

TrailNext == (~touched /\ (Grow \/ Expire)) \/ Touch

TrailSpec == TrailInit /\ [][TrailNext]_trailVars
=============================================================================
