---------------------------- MODULE Calibration ----------------------------
(***************************************************************************)
(* How LaunchpadFactory derives one launch's curve from the owner's        *)
(* parameters and the creator's dev allocation: _solveCalibration and      *)
(* _curveConfigFor, the bounds the setters put on what goes into them, and *)
(* the requires of BondingCurve's constructor on what comes out.           *)
(***************************************************************************)
EXTENDS CurveMath

CONSTANTS
    CURVE_SUPPLY, GRADUATION_RESERVE, BPS,
    MAX_VIRTUAL_ETH_RESERVE, MAX_TRADE_FEE_BPS, MAX_DEV_ALLOCATION_BPS

\* The smallest curve allocation a creator can choose.
LeastAllocation ==
    CURVE_SUPPLY - (CURVE_SUPPLY * MAX_DEV_ALLOCATION_BPS) \div BPS

ASSUME FactoryConstants ==
    /\ CURVE_SUPPLY \in Nat /\ GRADUATION_RESERVE \in Nat \ {0} /\ BPS \in Nat \ {0}
    /\ MAX_VIRTUAL_ETH_RESERVE \in Nat
    /\ MAX_TRADE_FEE_BPS \in Nat /\ 2 * MAX_TRADE_FEE_BPS < BPS
    /\ MAX_DEV_ALLOCATION_BPS \in 0..BPS
    /\ GRADUATION_RESERVE < LeastAllocation

\* One million ETH of virtual reserve is small against 200M tokens of 18
\* decimals: the largest reserve the solve can return, times the whole supply,
\* stays below the square of the graduation reserve.
ASSUME VirtualEthIsSmall ==
    MAX_VIRTUAL_ETH_RESERVE * (CURVE_SUPPLY - GRADUATION_RESERVE)
        * (GRADUATION_RESERVE + CURVE_SUPPLY)
      <= GRADUATION_RESERVE * GRADUATION_RESERVE
           * (LeastAllocation - GRADUATION_RESERVE)

----------------------------------------------------------------------------
(* _solveCalibration. *)

\* bps of CURVE_SUPPLY, carved out of the curve and never out of the reserve.
DevAllocation(bps) == BpsOf(CURVE_SUPPLY, bps, BPS)
CurveAllocation(bps) == CURVE_SUPPLY - DevAllocation(bps)
Denom(bps) == CurveAllocation(bps) - GRADUATION_RESERVE

VirtualEth(base, bps) ==
    (base * (CURVE_SUPPLY - GRADUATION_RESERVE)) \div Denom(bps)
VirtualToken(bps) == (CurveAllocation(bps) * CurveAllocation(bps)) \div Denom(bps)

(* _curveConfigFor: shares of CURVE_SUPPLY rescaled onto this launch. *)

Rescaled(share, bps) == (share * CurveAllocation(bps)) \div CURVE_SUPPLY

Cap(maxBuy, bps) == IF Rescaled(maxBuy, bps) = 0 THEN 1 ELSE Rescaled(maxBuy, bps)

curveConfigFor(p, bps) ==
    [treasury |-> p.treasury,
     virtualEthReserve |-> VirtualEth(p.virtualEthReserve, bps),
     virtualTokenReserve |-> VirtualToken(bps),
     curveTokenAllocation |-> CurveAllocation(bps),
     tradeFeeBps |-> p.tradeFeeBps,
     maxBuyPerWallet |-> Cap(p.maxBuyPerWallet, bps),
     antiSnipeThreshold |-> Rescaled(p.antiSnipeThreshold, bps)]

----------------------------------------------------------------------------
(* What a curve makes of its configuration. *)

FinalTokenReserve(c) == c.virtualTokenReserve - c.curveTokenAllocation
FinalEthReserve(c) ==
    CeilDiv(c.virtualEthReserve * c.virtualTokenReserve, FinalTokenReserve(c))
Raise(c) == FinalEthReserve(c) - c.virtualEthReserve

\* The requires of BondingCurve's constructor.
ConstructorAccepts(c) ==
    /\ c.virtualTokenReserve > c.curveTokenAllocation
    /\ c.tradeFeeBps < BPS
    /\ c.maxBuyPerWallet > 0

(* Mutant: an antiSnipeThreshold equal to the supply let through. *)
CurveParamsWithThresholdAtSupply(virtualEth, tradeFee, maxBuy, threshold) ==
    /\ 0 < virtualEth /\ virtualEth <= MAX_VIRTUAL_ETH_RESERVE
    /\ tradeFee <= MAX_TRADE_FEE_BPS
    /\ 0 < maxBuy
    /\ threshold <= CURVE_SUPPLY

\* The guards of setCurveParams.
ValidCurveParams(virtualEth, tradeFee, maxBuy, threshold) ==
    /\ 0 < virtualEth /\ virtualEth <= MAX_VIRTUAL_ETH_RESERVE
    /\ tradeFee <= MAX_TRADE_FEE_BPS
    /\ 0 < maxBuy
    /\ threshold < CURVE_SUPPLY

----------------------------------------------------------------------------
(* What a configuration has to satisfy. *)

\* The constructor takes it, it can raise something, and everything
\* BondingCurve's properties assume of it holds.
Buildable(c) ==
    /\ ConstructorAccepts(c)
    /\ 0 < c.virtualEthReserve /\ 0 < c.curveTokenAllocation
    /\ 2 * c.tradeFeeBps < BPS
    /\ FinalEthReserve(c) <= FinalTokenReserve(c)
    /\ 0 < Raise(c)

\* The per-wallet cap lifts before the curve is sold out.
CapLifts(c) == c.antiSnipeThreshold < c.curveTokenAllocation

\* The pool is seeded with Raise and GRADUATION_RESERVE, and the curve closes
\* at FinalEthReserve over FinalTokenReserve.  Those two prices differ by less
\* than the rounding: the raise is less than one wei above what continuity
\* asks for, and less than Denom / FinalTokenReserve (about two) below.
PriceContinuous(c) ==
    LET raised == Raise(c) * FinalTokenReserve(c)
        exact == FinalEthReserve(c) * GRADUATION_RESERVE
        denom == c.curveTokenAllocation - GRADUATION_RESERVE
    IN  /\ raised < exact + FinalTokenReserve(c)
        /\ exact < raised + denom

\* Whatever the dev allocation, the raise is the owner's target
\* base * (CURVE_SUPPLY - GRADUATION_RESERVE) / GRADUATION_RESERVE, to
\* within the same rounding.
OnTarget(c, base) ==
    LET target == base * (CURVE_SUPPLY - GRADUATION_RESERVE)
        raised == Raise(c) * GRADUATION_RESERVE
        denom == c.curveTokenAllocation - GRADUATION_RESERVE
    IN  /\ target < raised + denom
        /\ raised < target + Raise(c) + GRADUATION_RESERVE
============================================================================
