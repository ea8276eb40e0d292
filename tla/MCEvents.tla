------------------------------- MODULE MCEvents -------------------------------
(***************************************************************************)
(* The money that comes in: the platform's (Subscriptions, the Coupons of  *)
(* a first payment, and the fiscal note of a payment, FiscalNotes) and the *)
(* office's (Portfolio), on small sets.  In this instance one moves while  *)
(* the others rest in their initial states, so TLC explores each of them   *)
(* completely.                                                             *)
(***************************************************************************)
EXTENDS Subscriptions, Portfolio, FiscalNotes, Coupons, TLC

VARIABLE moves  \* the component that moves in this behaviour

EventsInit ==
    /\ moves \in {"subscription", "portfolio", "notes", "coupons"}
    /\ Init /\ PfInit /\ FiscalInit /\ CouponsInit

EventsNext ==
    /\ UNCHANGED moves
    /\ \/ moves = "subscription" /\ Next /\ UNCHANGED <<pfVars, fiscalVars, couponVars>>
       \/ moves = "portfolio" /\ PfNext /\ UNCHANGED <<vars, fiscalVars, couponVars>>
       \/ moves = "notes" /\ FiscalNext /\ UNCHANGED <<vars, pfVars, couponVars>>
       \/ moves = "coupons" /\ CouponsNext /\ UNCHANGED <<vars, pfVars, fiscalVars>>

EventsSpec == EventsInit /\ [][EventsNext]_<<moves, vars, pfVars, fiscalVars, couponVars>>

\* Every variable of the four modules keeps to its range.
TypesOK == TypeOK /\ PfTypeOK /\ FiscalTypeOK /\ CouponsTypeOK

\* The components' processes are the same model values: only one component moves in a behaviour.
EventsSymmetry == Permutations(Workers) \cup Permutations(Instalments)
=============================================================================
