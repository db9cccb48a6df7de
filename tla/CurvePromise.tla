---------------------------- MODULE CurvePromise ----------------------------
(***************************************************************************)
(* What a bonding curve promises to the rest of the launchpad, prices and  *)
(* rounding left out: while it is open the amount sold moves freely below  *)
(* the allocation, and one final step sells the rest and pays exactly the  *)
(* raise.  BondingCurve implements it; Launchpad relies on it.             *)
(***************************************************************************)
EXTENDS Naturals

CONSTANTS allocation, raise

VARIABLES sold, closed, paid

vars == <<sold, closed, paid>>

Init == sold = 0 /\ closed = FALSE /\ paid = 0

\* A buy short of the allocation, or a sell.
Trade ==
    /\ ~closed
    /\ sold' \in 0..(allocation - 1)
    /\ UNCHANGED <<closed, paid>>

\* The buy that crosses, with the graduation it triggers.
Close ==
    /\ ~closed
    /\ sold' = allocation /\ closed' = TRUE /\ paid' = raise

Next == Trade \/ Close

Spec == Init /\ [][Next]_vars
============================================================================
