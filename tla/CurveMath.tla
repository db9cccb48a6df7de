----------------------------- MODULE CurveMath -----------------------------
(***************************************************************************)
(* The integer arithmetic shared by the contracts: OpenZeppelin's          *)
(* Math.ceilDiv and the basis-point fee, both on naturals.  The contracts  *)
(* compute in uint256 with checked arithmetic; every quantity here is far  *)
(* below 2^256 for the parameters the factory accepts, so the width does   *)
(* not appear.                                                             *)
(***************************************************************************)
EXTENDS Integers

CeilDiv(a, b) == (a + b - 1) \div b

\* (amount * bps) / BPS, rounded down as Solidity divides.
BpsOf(amount, bps, BPS) == (amount * bps) \div BPS

MinOf(a, b) == IF a <= b THEN a ELSE b
============================================================================
