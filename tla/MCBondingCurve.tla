--------------------------- MODULE MCBondingCurve ---------------------------
(***************************************************************************)
(* BondingCurve for TLC.                                                   *)
(***************************************************************************)
EXTENDS BondingCurve, TLC

CONSTANTS w1, w2

Symmetry == Permutations(Wallets)
============================================================================
