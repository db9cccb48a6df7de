-------------------------- MODULE LaunchpadProofs --------------------------
(***************************************************************************)
(* Proofs about Launchpad, for any number of launches and every sequence   *)
(* of retunings.                                                           *)
(*                                                                         *)
(* The inductive invariant speaks of one token at a time: a token is       *)
(* untouched, trading or graduated, and its records are those derived from *)
(* the parameters in force when it was created (promised), which were      *)
(* valid ones.  What an action does not touch keeps its invariant (Frame); *)
(* what makes a graduation safe is then arithmetic on valid parameters.    *)
(***************************************************************************)
EXTENDS Launchpad, CurveMathProofs

----------------------------------------------------------------------------
(***************************************************************************)
(* Proofs about the calibration, for every parameter the setters accept    *)
(* and every dev allocation below the maximum.                             *)
(*                                                                         *)
(* Each division of the solve is replaced by its remainder: with C the     *)
(* curve allocation, G the reserve, D = C - G, m the remainder of          *)
(* C^2 / D, s that of the rescaled V_eth, r what the ceiling of k / F      *)
(* adds and R the raise,                                                   *)
(*      V_tok D = C^2 - m     V_eth D = base (S - G) - s                   *)
(*      F D = C G - m         R F = V_eth C + r                            *)
(* and both accuracy claims are exact identities in m, s and r.            *)
(***************************************************************************)

\* Division by a positive number, as an equation with its remainder.
LEMMA DivRemainder ==
    ASSUME NEW a \in Nat, NEW b \in Nat, b > 0
    PROVE  \E m \in Nat : m < b /\ (a \div b) * b = a - m
<1> DEFINE m == a - (a \div b) * b
<1>1. m \in Nat /\ m < b /\ (a \div b) * b = a - m
  BY DivBounds, SMT
<1> QED BY <1>1

\* The ceiling, as an equation with what it adds.
LEMMA CeilRemainder ==
    ASSUME NEW a \in Nat, NEW b \in Nat, b > 0
    PROVE  \E r \in Nat : r < b /\ CeilDiv(a, b) * b = a + r
<1> DEFINE q == CeilDiv(a, b)
           r == q * b - a
<1>1. q \in Nat /\ q * b >= a /\ (q - 1) * b < a
  BY CeilDivBounds
<1>2. (q - 1) * b = q * b - b
  BY <1>1, SMT
<1>3. r \in Nat /\ r < b /\ q * b = a + r
  BY <1>1, <1>2, SMT
<1> QED BY <1>3

\* Products compare as their factors do.
LEMMA CancelLess ==
    ASSUME NEW p \in Int, NEW q \in Int, NEW c \in Nat, c > 0, c * p < c * q
    PROVE  p < q
  BY SMT

LEMMA CancelLeq ==
    ASSUME NEW p \in Int, NEW q \in Int, NEW c \in Nat, c > 0, c * p <= c * q
    PROVE  p <= q
  BY SMT

----------------------------------------------------------------------------
(* The solve, over plain numbers. *)

\* F D = C G - m, F is at least G, and G V_tok = C F + m.
LEMMA FinalTokenFacts ==
    ASSUME NEW C \in Nat, NEW G \in Nat, NEW D \in Nat, NEW m \in Nat,
           NEW Vt \in Nat, G > 0, D > 0, C = D + G, m < D, Vt * D = C * C - m
    PROVE  /\ Vt - C \in Nat /\ G <= Vt - C
           /\ (Vt - C) * D = C * G - m
           /\ Vt * G = C * (Vt - C) + m
<1> DEFINE F == Vt - C
<1>1. F * D = C * G - m
  <2>1. F * D = Vt * D - C * D
    BY SMT
  <2>2. C * C = C * D + C * G
    BY SMT
  <2> QED BY <2>1, <2>2, SMT
<1>2. G <= F
  <2>1. SUFFICES ASSUME F + 1 <= G PROVE FALSE
    BY SMT
  <2>2. (F + 1) * D <= G * D
    BY <2>1, MulMono
  <2>3. (F + 1) * D = F * D + D
    BY SMT
  <2>4. C * G = G * D + G * G
    BY SMT
  <2>5. G * G >= 0
    BY SMT
  <2> QED BY <1>1, <2>2, <2>3, <2>4, <2>5, SMT
<1>3. Vt * G = C * F + m
  <2>1. Vt * C = Vt * D + Vt * G
    BY SMT
  <2>2. C * F = Vt * C - C * C
    BY SMT
  <2> QED BY <2>1, <2>2, SMT
<1> QED BY <1>1, <1>2, <1>3, SMT

\* The virtual reserve is at least one, and small against G.
LEMMA VirtualEthFacts ==
    ASSUME NEW S \in Nat, NEW C \in Nat, NEW G \in Nat, NEW D \in Nat,
           NEW L \in Nat, NEW base \in Nat, NEW M \in Nat, NEW s \in Nat,
           NEW Ve \in Nat,
           G > 0, D > 0, C = D + G, C <= S, L <= C, G < L, 0 < base, base <= M,
           s < D, Ve * D = base * (S - G) - s,
           M * (S - G) * (G + S) <= G * G * (L - G)
    PROVE  0 < Ve /\ Ve * (G + C) <= G * G /\ Ve <= G
<1> DEFINE X == S - G
<1>0. X \in Nat /\ D <= X
  BY SMT
<1>1. 0 < Ve
  <2>1. X <= base * X
    BY <1>0, SMT
  <2>2. Ve = 0 => Ve * D = 0
    BY SMT
  <2> QED BY <1>0, <2>1, <2>2, SMT
<1>2. Ve * (G + C) <= G * G
  <2>1. Ve * D <= M * X
    <3>1. base * X <= M * X
      BY <1>0, MulMono
    <3> QED BY <3>1, SMT
  <2>2. Ve * D \in Nat /\ M * X \in Nat /\ G + C \in Nat /\ G + S \in Nat
    BY <1>0, SMT
  <2>3. (Ve * D) * (G + C) <= (M * X) * (G + C)
    BY <2>1, <2>2, MulMono
  <2>4. (M * X) * (G + C) <= (M * X) * (G + S)
    BY <2>2, SMT
  <2>5. (G * G) * (L - G) <= (G * G) * D
    BY SMT
  <2>6. (Ve * D) * (G + C) <= (G * G) * D
    BY <1>0, <2>2, <2>3, <2>4, <2>5, SMT
  <2>7. (Ve * D) * (G + C) = D * (Ve * (G + C)) /\ (G * G) * D = D * (G * G)
    BY SMT
  <2>8. Ve * (G + C) \in Int /\ G * G \in Int
    BY SMT
  <2> QED BY <2>6, <2>7, <2>8, CancelLeq
<1>3. Ve <= G
  <2>1. SUFFICES ASSUME G + 1 <= Ve PROVE FALSE
    BY SMT
  <2>2. (G + 1) * (G + C) <= Ve * (G + C)
    BY <2>1, MulMono
  <2>3. (G + 1) * (G + C) > G * G
    <3>1. (G + 1) * (G + C) = G * G + G * C + G + C
      BY SMT
    <3>2. G * C >= 0
      BY SMT
    <3> QED BY <3>1, <3>2, SMT
  <2> QED BY <1>2, <2>2, <2>3, SMT
<1> QED BY <1>1, <1>2, <1>3

\* The curve closes at less than one wei a unit.
LEMMA ClosingPriceFacts ==
    ASSUME NEW C \in Nat, NEW G \in Nat, NEW F \in Nat, NEW Ve \in Nat,
           0 < G, G <= F, Ve * (G + C) <= G * G, Ve <= G
    PROVE  Ve * (F + C) <= F * F
<1> DEFINE d == F - G
<1>1. d \in Nat /\ F = G + d
  BY SMT
<1>2. Ve * (F + C) = Ve * (G + C) + Ve * d
  BY <1>1, SMT
<1>3. F * F = G * G + d * (F + G)
  BY <1>1, SMT
<1>4. Ve * d <= (F + G) * d
  BY <1>1, MulMono, SMT
<1>5. (F + G) * d = d * (F + G)
  BY <1>1, SMT
<1> QED BY <1>2, <1>3, <1>4, <1>5, SMT

\* R F = V_eth C + r, so the raise is positive.
LEMMA RaiseFacts ==
    ASSUME NEW C \in Nat, NEW F \in Nat, NEW Ve \in Nat, NEW E \in Nat,
           NEW r \in Nat,
           0 < C, 0 < F, 0 < Ve, E * F = Ve * (F + C) + r
    PROVE  /\ E - Ve \in Nat /\ 0 < E - Ve
           /\ (E - Ve) * F = Ve * C + r
<1>1. (E - Ve) * F = Ve * C + r
  <2>1. (E - Ve) * F = E * F - Ve * F
    BY SMT
  <2>2. Ve * (F + C) = Ve * F + Ve * C
    BY SMT
  <2> QED BY <2>1, <2>2, SMT
<1>2. 0 < Ve * C
  BY SMT
<1>3. 0 * F < (E - Ve) * F
  BY <1>1, <1>2, SMT
<1>4. 0 < E - Ve
  <2>1. SUFFICES ASSUME E - Ve <= 0 PROVE FALSE
    BY SMT
  <2>2. (E - Ve) * F <= 0 * F
    BY <2>1, MulMono
  <2> QED BY <1>3, <2>2, SMT
<1> QED BY <1>1, <1>4, SMT

\* F (R F - E G) = r (F - G) - V_eth m: the prices differ by rounding only.
LEMMA ContinuityFacts ==
    ASSUME NEW C \in Nat, NEW G \in Nat, NEW F \in Nat, NEW D \in Nat,
           NEW Ve \in Nat, NEW E \in Nat, NEW R \in Nat, NEW r \in Nat,
           NEW m \in Nat,
           0 < G, G <= F, m < D, r < F, Ve <= F,
           (F + C) * G = C * F + m, E * F = Ve * (F + C) + r, R * F = Ve * C + r
    PROVE  R * F < E * G + F /\ E * G < R * F + D
<1> DEFINE diff == R * F - E * G
<1>1. F * diff = r * (F - G) - Ve * m
  <2>1. F * (R * F) = (R * F) * F /\ F * (E * G) = (E * F) * G
    BY SMT
  <2>2. (R * F) * F = Ve * C * F + r * F
    BY SMT
  <2>3. (E * F) * G = Ve * ((F + C) * G) + r * G
    BY SMT
  <2>4. Ve * ((F + C) * G) = Ve * C * F + Ve * m
    BY SMT
  <2>5. F * diff = F * (R * F) - F * (E * G)
    BY SMT
  <2>6. r * (F - G) = r * F - r * G
    BY SMT
  <2> QED BY <2>1, <2>2, <2>3, <2>4, <2>5, <2>6, SMT
<1>2. diff < F
  <2>1. r * (F - G) <= r * F /\ r * F < F * F
    <3>1. r * (F - G) = r * F - r * G /\ r * G >= 0
      BY SMT
    <3>2. r * F < F * F
      BY MulStrict
    <3> QED BY <3>1, <3>2, SMT
  <2>2. Ve * m >= 0
    BY SMT
  <2>3. F * diff < F * F
    BY <1>1, <2>1, <2>2, SMT
  <2> QED BY <2>3, CancelLess, SMT
<1>3. -diff < D
  <2>1. Ve * m <= F * m /\ m * F < D * F
    BY MulMono, MulStrict, SMT
  <2>2. r * (F - G) >= 0
    BY SMT
  <2>3. F * (-diff) = -(F * diff) /\ F * m = m * F /\ D * F = F * D
    BY SMT
  <2>4. F * (-diff) < F * D
    BY <1>1, <2>1, <2>2, <2>3, SMT
  <2> QED BY <2>4, CancelLess, SMT
<1> QED BY <1>2, <1>3, SMT

\* C (R G - target) = R m - s C + r D: the raise is the target up to rounding.
LEMMA TargetFacts ==
    ASSUME NEW C \in Nat, NEW G \in Nat, NEW F \in Nat, NEW D \in Nat,
           NEW Ve \in Nat, NEW R \in Nat, NEW r \in Nat, NEW m \in Nat,
           NEW s \in Nat, NEW target \in Nat,
           0 < G, 0 < D, C = D + G, m < D, r < F, s < D, 0 < R,
           F * D = C * G - m, Ve * D = target - s, R * F = Ve * C + r
    PROVE  target < R * G + D /\ R * G < target + R + G
<1> DEFINE diff == R * G - target
<1>1. C * diff = R * m - s * C + r * D
  <2>1. (R * F) * D = R * (F * D) /\ R * (F * D) = R * (C * G) - R * m
    BY SMT
  <2>2. (R * F) * D = C * (Ve * D) + r * D
    BY SMT
  <2>3. C * (Ve * D) = C * target - C * s
    BY SMT
  <2>4. C * diff = R * (C * G) - C * target /\ C * s = s * C
    BY SMT
  <2> QED BY <2>1, <2>2, <2>3, <2>4, SMT
<1>2. -diff < D
  <2>1. s * C < D * C
    BY MulStrict, SMT
  <2>2. R * m >= 0 /\ r * D >= 0
    BY SMT
  <2>3. C * (-diff) = -(C * diff) /\ D * C = C * D
    BY SMT
  <2>4. C * (-diff) < C * D
    BY <1>1, <2>1, <2>2, <2>3, SMT
  <2> QED BY <2>4, CancelLess, SMT
<1>3. diff < R + G
  <2>1. R * m < R * C
    BY SMT
  <2>2. r * D < F * D /\ F * D <= C * G
    BY MulStrict, SMT
  <2>3. s * C >= 0
    BY SMT
  <2>4. C * (R + G) = R * C + C * G
    BY SMT
  <2>5. C * diff < C * (R + G)
    BY <1>1, <2>1, <2>2, <2>3, <2>4, SMT
  <2> QED BY <2>5, CancelLess, SMT
<1> QED BY <1>2, <1>3, SMT

----------------------------------------------------------------------------
(* The factory's configurations. *)

\* Whatever the creator takes, the curve keeps more than the reserve.
LEMMA AllocationFacts ==
    ASSUME NEW bps \in 0..MAX_DEV_ALLOCATION_BPS
    PROVE  /\ DevAllocation(bps) \in Nat /\ CurveAllocation(bps) \in Nat
           /\ LeastAllocation \in Nat /\ GRADUATION_RESERVE < LeastAllocation
           /\ DevAllocation(bps) <= DevAllocation(MAX_DEV_ALLOCATION_BPS)
           /\ LeastAllocation <= CurveAllocation(bps)
           /\ CurveAllocation(bps) <= CURVE_SUPPLY
           /\ Denom(bps) \in Nat /\ 0 < Denom(bps)
           /\ CurveAllocation(bps) = Denom(bps) + GRADUATION_RESERVE
<1> USE FactoryConstants
<1> DEFINE most == MAX_DEV_ALLOCATION_BPS
<1>1. /\ CURVE_SUPPLY * bps \in Nat /\ CURVE_SUPPLY * most \in Nat
      /\ CURVE_SUPPLY * bps <= CURVE_SUPPLY * most
  BY SMT
<1>2. /\ DevAllocation(bps) \in Nat /\ DevAllocation(most) \in Nat
      /\ DevAllocation(bps) <= DevAllocation(most)
  BY <1>1, DivBounds, DivMono DEF DevAllocation, BpsOf
<1>3. LeastAllocation = CURVE_SUPPLY - DevAllocation(most)
  BY DEF LeastAllocation, DevAllocation, BpsOf
<1>4. LeastAllocation \in Nat
  BY <1>2, <1>3, SMT
<1> QED BY <1>2, <1>3, <1>4, SMT DEF CurveAllocation, Denom

\* Everything the solve returns for a configuration, by its remainders.
SolvedAs(c, base, m, s, r) ==
    LET D == c.curveTokenAllocation - GRADUATION_RESERVE
        C == c.curveTokenAllocation
        F == FinalTokenReserve(c)
        Ve == c.virtualEthReserve
    IN  /\ m < D /\ s < D /\ r < F
        /\ GRADUATION_RESERVE <= F /\ F \in Nat
        /\ F * D = C * GRADUATION_RESERVE - m
        /\ c.virtualTokenReserve * GRADUATION_RESERVE = C * F + m
        /\ Ve \in Nat /\ 0 < Ve /\ Ve <= GRADUATION_RESERVE
        /\ Ve * D = base * (CURVE_SUPPLY - GRADUATION_RESERVE) - s
        /\ FinalEthReserve(c) \in Nat /\ FinalEthReserve(c) <= F
        /\ FinalEthReserve(c) * F = Ve * (F + C) + r
        /\ Raise(c) \in Nat /\ 0 < Raise(c)
        /\ Raise(c) * F = Ve * C + r

ValidParams(p) ==
    /\ p.virtualEthReserve \in Nat /\ p.tradeFeeBps \in Nat
    /\ p.maxBuyPerWallet \in Nat /\ p.antiSnipeThreshold \in Nat
    /\ ValidCurveParams(p.virtualEthReserve, p.tradeFeeBps,
                        p.maxBuyPerWallet, p.antiSnipeThreshold)

\* The fields of the configuration.
LEMMA ConfigFields ==
    ASSUME NEW p, NEW bps
    PROVE  LET c == curveConfigFor(p, bps) IN
             /\ c.treasury = p.treasury
             /\ c.virtualEthReserve = VirtualEth(p.virtualEthReserve, bps)
             /\ c.virtualTokenReserve = VirtualToken(bps)
             /\ c.curveTokenAllocation = CurveAllocation(bps)
             /\ c.tradeFeeBps = p.tradeFeeBps
             /\ c.maxBuyPerWallet = Cap(p.maxBuyPerWallet, bps)
             /\ c.antiSnipeThreshold = Rescaled(p.antiSnipeThreshold, bps)
  BY DEF curveConfigFor

LEMMA Solved ==
    ASSUME NEW p, ValidParams(p), NEW bps \in 0..MAX_DEV_ALLOCATION_BPS
    PROVE  \E m, s, r \in Nat :
             SolvedAs(curveConfigFor(p, bps), p.virtualEthReserve, m, s, r)
<1> USE FactoryConstants
<1> DEFINE c == curveConfigFor(p, bps)
           S == CURVE_SUPPLY
           G == GRADUATION_RESERVE
           C == CurveAllocation(bps)
           D == Denom(bps)
           base == p.virtualEthReserve
           Ve == VirtualEth(base, bps)
           Vt == VirtualToken(bps)
           F == Vt - C
           E == CeilDiv(Ve * Vt, F)
<1>1. /\ C \in Nat /\ D \in Nat /\ 0 < D /\ C = D + G /\ C <= S
      /\ LeastAllocation \in Nat /\ G < LeastAllocation /\ LeastAllocation <= C
      /\ G \in Nat /\ 0 < G /\ S \in Nat
  BY AllocationFacts
<1>2. /\ base \in Nat /\ 0 < base /\ base <= MAX_VIRTUAL_ETH_RESERVE
      /\ base * (S - G) \in Nat /\ C * C \in Nat
  BY <1>1, SMT DEF ValidParams, ValidCurveParams
<1>3. Ve \in Nat /\ Vt \in Nat
  BY <1>1, <1>2, DivBounds DEF VirtualEth, VirtualToken
<1>4. PICK s \in Nat : s < D /\ Ve * D = base * (S - G) - s
  BY <1>1, <1>2, DivRemainder DEF VirtualEth
<1>5. PICK m \in Nat : m < D /\ Vt * D = C * C - m
  BY <1>1, <1>2, DivRemainder DEF VirtualToken
<1>6. F \in Nat /\ G <= F /\ F * D = C * G - m /\ Vt * G = C * F + m
  BY <1>1, <1>3, <1>5, FinalTokenFacts
<1>7. 0 < Ve /\ Ve * (G + C) <= G * G /\ Ve <= G
  <2>1. MAX_VIRTUAL_ETH_RESERVE * (S - G) * (G + S) <= G * G * (LeastAllocation - G)
    BY VirtualEthIsSmall
  <2>2. MAX_VIRTUAL_ETH_RESERVE \in Nat
    OBVIOUS
  <2> HIDE DEF C, D, G, S, base, Ve
  <2> HIDE FactoryConstants
  <2> QED BY <1>1, <1>2, <1>3, <1>4, <2>1, <2>2, VirtualEthFacts
<1>8. Vt = F + C /\ Ve * Vt \in Nat /\ Ve * (F + C) <= F * F
  <2>1. Vt = F + C
    BY <1>1, <1>3, SMT
  <2>2. Ve * Vt \in Nat
    BY <1>3, SMT
  <2> QED BY <1>1, <1>3, <1>6, <1>7, <2>1, <2>2, ClosingPriceFacts
<1>9. PICK r \in Nat : r < F /\ E * F = Ve * Vt + r
  <2>1. F \in Nat /\ 0 < F /\ Ve * Vt \in Nat
    BY <1>1, <1>6, <1>8, SMT
  <2> HIDE DEF F, Ve, Vt
  <2> QED BY <2>1, CeilRemainder
<1>10. E \in Nat /\ E <= F
  <2>1. F * F >= Ve * Vt /\ 0 < F
    BY <1>1, <1>6, <1>8, SMT
  <2> QED BY <1>6, <1>8, <2>1, CeilDivBounds, CeilDivLeast
<1>11. E * F = Ve * (F + C) + r
  BY <1>8, <1>9
<1>12. E - Ve \in Nat /\ 0 < E - Ve /\ (E - Ve) * F = Ve * C + r
  <2>1. 0 < C /\ 0 < F
    BY <1>1, <1>6, SMT
  <2> QED BY <1>1, <1>3, <1>6, <1>7, <1>10, <1>11, <2>1, RaiseFacts
<1>13. /\ c.curveTokenAllocation = C /\ c.virtualTokenReserve = Vt
       /\ c.virtualEthReserve = Ve /\ FinalTokenReserve(c) = F
       /\ FinalEthReserve(c) = E /\ Raise(c) = E - Ve
  BY ConfigFields DEF FinalTokenReserve, FinalEthReserve, Raise
<1>14. C - G = D
  BY <1>1, SMT
<1>15. SolvedAs(c, base, m, s, r)
  <2> HIDE DEF c, C, D, E, F, Ve, Vt, base
  <2> QED BY <1>3, <1>4, <1>5, <1>6, <1>7, <1>9, <1>10, <1>11, <1>12, <1>13, <1>14
        DEF SolvedAs
<1> QED BY <1>15

\* Every launch that can be offered can be built, raises something, and meets
\* what BondingCurve assumes of its constants.
THEOREM EveryOfferBuildable ==
    ASSUME NEW p, ValidParams(p), NEW bps \in 0..MAX_DEV_ALLOCATION_BPS
    PROVE  Buildable(curveConfigFor(p, bps)) /\ CapLifts(curveConfigFor(p, bps))
<1> USE FactoryConstants
<1> DEFINE c == curveConfigFor(p, bps)
<1>1. PICK m \in Nat, s \in Nat, r \in Nat : SolvedAs(c, p.virtualEthReserve, m, s, r)
  BY Solved
<1>2. /\ CurveAllocation(bps) \in Nat /\ 0 < CurveAllocation(bps)
      /\ GRADUATION_RESERVE < CurveAllocation(bps) /\ 0 < CURVE_SUPPLY
  BY AllocationFacts, SMT
<1>3. /\ 0 < c.virtualEthReserve /\ 0 < Raise(c)
      /\ FinalEthReserve(c) <= FinalTokenReserve(c) /\ 0 < FinalTokenReserve(c)
  BY <1>1, SMT DEF SolvedAs
<1>4. c.virtualTokenReserve > c.curveTokenAllocation
  <2>1. VirtualToken(bps) \in Nat
    <3>1. CurveAllocation(bps) * CurveAllocation(bps) \in Nat
      BY <1>2, SMT
    <3> QED BY <3>1, AllocationFacts, DivBounds DEF VirtualToken
  <2> QED BY <1>2, <1>3, <2>1, ConfigFields, SMT DEF FinalTokenReserve
<1>5. c.tradeFeeBps < BPS /\ 2 * c.tradeFeeBps < BPS
  <2>1. c.tradeFeeBps = p.tradeFeeBps
    BY ConfigFields
  <2>2. p.tradeFeeBps \in Nat /\ p.tradeFeeBps <= MAX_TRADE_FEE_BPS
    BY DEF ValidParams, ValidCurveParams
  <2> QED BY <2>1, <2>2
<1>6. c.maxBuyPerWallet > 0
  <2>1. p.maxBuyPerWallet * CurveAllocation(bps) \in Nat
    BY <1>2, SMT DEF ValidParams
  <2>2. Rescaled(p.maxBuyPerWallet, bps) \in Nat
    BY <1>2, <2>1, DivBounds DEF Rescaled
  <2> QED BY <2>2, ConfigFields DEF Cap
<1>7. CapLifts(c)
  <2> DEFINE T == p.antiSnipeThreshold
             C == CurveAllocation(bps)
             q == (T * C) \div CURVE_SUPPLY
  <2>1. T \in Nat /\ T < CURVE_SUPPLY
    BY DEF ValidParams, ValidCurveParams
  <2>2. T * C \in Nat /\ T * C < CURVE_SUPPLY * C
    BY <1>2, <2>1, MulStrict, SMT
  <2>3. q \in Nat /\ q * CURVE_SUPPLY <= T * C
    BY <1>2, <2>2, DivBounds
  <2>4. CURVE_SUPPLY * q < CURVE_SUPPLY * C
    <3>1. CURVE_SUPPLY * q = q * CURVE_SUPPLY
      BY <2>3, SMT
    <3>2. CURVE_SUPPLY * C \in Nat
      BY <1>2, SMT
    <3> HIDE DEF q, C, T
    <3> QED BY <2>2, <2>3, <3>1, <3>2, SMT
  <2>5. q < C
    BY <1>2, <2>3, <2>4, CancelLess
  <2> QED BY <2>5, ConfigFields DEF CapLifts, Rescaled
<1> QED BY <1>2, <1>3, <1>4, <1>5, <1>6, <1>7, ConfigFields DEF Buildable, ConstructorAccepts

\* The pool opens at the price the curve closed at and the raise is the owner's
\* target, both to within the rounding of the divisions, for every virtual
\* reserve and every dev allocation that can be reached.
THEOREM EveryOfferCalibrated ==
    ASSUME NEW p, ValidParams(p), NEW bps \in 0..MAX_DEV_ALLOCATION_BPS
    PROVE  /\ PriceContinuous(curveConfigFor(p, bps))
           /\ OnTarget(curveConfigFor(p, bps), p.virtualEthReserve)
<1> USE FactoryConstants
<1> DEFINE c == curveConfigFor(p, bps)
           G == GRADUATION_RESERVE
           C == CurveAllocation(bps)
           D == C - G
           F == FinalTokenReserve(c)
           Ve == c.virtualEthReserve
           E == FinalEthReserve(c)
           R == Raise(c)
           target == p.virtualEthReserve * (CURVE_SUPPLY - G)
<1>1. c.curveTokenAllocation = C
  BY ConfigFields
<1>2. /\ C \in Nat /\ D \in Nat /\ 0 < D /\ C = D + G /\ G \in Nat /\ 0 < G
      /\ C <= CURVE_SUPPLY
  BY AllocationFacts, SMT DEF Denom
<1>3. PICK m \in Nat, s \in Nat, r \in Nat : SolvedAs(c, p.virtualEthReserve, m, s, r)
  BY Solved
<1>4. /\ m < D /\ s < D /\ r < F /\ G <= F /\ F \in Nat
      /\ F * D = C * G - m
      /\ c.virtualTokenReserve * G = C * F + m
      /\ Ve \in Nat /\ 0 < Ve /\ Ve <= G
      /\ Ve * D = target - s
      /\ E \in Nat /\ E * F = Ve * (F + C) + r
      /\ R \in Nat /\ 0 < R /\ R * F = Ve * C + r
  BY <1>1, <1>3 DEF SolvedAs
<1>5. (F + C) * G = C * F + m
  <2>1. VirtualToken(bps) \in Nat
    <3>1. C * C \in Nat
      BY <1>2, SMT
    <3> QED BY <3>1, AllocationFacts, DivBounds DEF VirtualToken
  <2>2. c.virtualTokenReserve = F + C
    BY <1>1, <1>2, <2>1, ConfigFields, SMT DEF FinalTokenReserve
  <2> QED BY <1>4, <2>2
<1>6. Ve <= F /\ target \in Nat
  BY <1>2, <1>4, SMT DEF ValidParams
<1>7. R * F < E * G + F /\ E * G < R * F + D
  <2> HIDE DEF C, D, E, F, R, Ve, G
  <2> QED BY <1>2, <1>4, <1>5, <1>6, ContinuityFacts
<1>8. target < R * G + D /\ R * G < target + R + G
  <2> HIDE DEF C, D, E, F, R, Ve, G, target
  <2> QED BY <1>2, <1>4, <1>6, TargetFacts
<1>9. PriceContinuous(c)
  BY <1>1, <1>7 DEF PriceContinuous
<1>10. OnTarget(c, p.virtualEthReserve)
  BY <1>1, <1>8 DEF OnTarget
<1> QED BY <1>9, <1>10

----------------------------------------------------------------------------
(* The launchpad. *)

ParamsInv == params \in Parameters /\ ValidParams(params)

Clock == now \in 1..MaxTime

Untouched(t) ==
    /\ creatorOf[t] = NoOne /\ graduatedAt[t] = 0
    /\ grants[t].total = 0 /\ tokensSold[t] = 0
    /\ lockOf[t] = NoLock /\ pools[t].price = NoPool.price

Created(t) ==
    LET p == promised[t] IN
    /\ creatorOf[t] # NoOne
    /\ p \in Parameters /\ ValidParams(p)
    /\ \E bps \in 0..MAX_DEV_ALLOCATION_BPS : curveOf[t] = curveConfigFor(p, bps)
    /\ lockConfigOf[t].lockDuration = p.defaultLockDuration
    /\ lockConfigOf[t].creatorFeeBps = p.creatorFeeBps
    /\ lockConfigOf[t].permanent \in BOOLEAN
    /\ held[t].factory = 0
    /\ curveOf[t].curveTokenAllocation + GRADUATION_RESERVE + grants[t].total
         = TOTAL_SUPPLY
    /\ devAllocationOf[t] = grants[t].total
    /\ grants[t].total # 0 => grants[t].duration = p.vestingDuration

OnCurve(t) ==
    /\ graduatedAt[t] = 0
    /\ held[t].curve + tokensSold[t] = curveOf[t].curveTokenAllocation
    /\ held[t].manager \in Nat /\ GRADUATION_RESERVE <= held[t].manager
    /\ lockOf[t] = NoLock
    /\ pools[t].price \in {NoPool.price, OtherPrice}

InPool(t) ==
    /\ graduatedAt[t] \in Nat \ {0}
    /\ lockOf[t].creatorFeeBps = promised[t].creatorFeeBps
    /\ lockConfigOf[t].permanent => lockOf[t].lockUntil = PERMANENT
    /\ ~lockConfigOf[t].permanent =>
         /\ lockOf[t].lockUntil = graduatedAt[t] + promised[t].defaultLockDuration
         /\ lockOf[t].lockUntil < PERMANENT
    /\ graduatedAt[t] + MIN_LOCK_DURATION <= lockOf[t].lockUntil
    /\ pools[t].price # OtherPrice =>
         /\ held[t].pool = GRADUATION_RESERVE
         /\ weth[t] = [manager |-> 0, pool |-> Raise(curveOf[t])]
         /\ pools[t].price = [tokens |-> GRADUATION_RESERVE,
                              weth |-> Raise(curveOf[t])]

TokenInv(t) == Untouched(t) \/ (Created(t) /\ (OnCurve(t) \/ InPool(t)))

\* Every table is a function on the tokens, of records where it holds records.
Shape ==
    /\ DOMAIN creatorOf = Tokens /\ DOMAIN curveOf = Tokens
    /\ DOMAIN lockConfigOf = Tokens /\ DOMAIN devAllocationOf = Tokens
    /\ DOMAIN promised = Tokens /\ DOMAIN tokensSold = Tokens
    /\ DOMAIN held = Tokens /\ DOMAIN weth = Tokens /\ DOMAIN pools = Tokens
    /\ DOMAIN lockOf = Tokens /\ DOMAIN graduatedAt = Tokens
    /\ DOMAIN grants = Tokens
    /\ \A t \in Tokens :
         /\ DOMAIN held[t] = {"factory", "curve", "manager", "pool"}
         /\ DOMAIN pools[t] = {"price", "feeProtocol", "accrued"}
         /\ DOMAIN grants[t] = {"creator", "duration", "total", "claimed"}

Inv == ParamsInv /\ Clock /\ Shape /\ \A t \in Tokens : TokenInv(t)

\* Everything TokenInv(t) reads.
Local(t) ==
    <<creatorOf[t], curveOf[t], lockConfigOf[t], devAllocationOf[t], promised[t],
      tokensSold[t], held[t], weth[t], pools[t].price, lockOf[t], graduatedAt[t],
      grants[t].total, grants[t].duration>>

LEMMA Frame ==
    ASSUME NEW t \in Tokens, TokenInv(t), UNCHANGED Local(t)
    PROVE  TokenInv(t)'
<1>1. Untouched(t) => Untouched(t)'
  BY DEF Local, Untouched
<1>2. Created(t) => Created(t)'
  BY DEF Local, Created
<1>3. OnCurve(t) => OnCurve(t)'
  BY DEF Local, OnCurve
<1>4. InPool(t) => InPool(t)'
  BY DEF Local, InPool
<1> QED BY <1>1, <1>2, <1>3, <1>4 DEF TokenInv

\* Updating a table at one token.
LEMMA UpdateFacts ==
    ASSUME NEW f, DOMAIN f = Tokens, NEW t \in Tokens, NEW e
    PROVE  LET g == [f EXCEPT ![t] = e] IN
             /\ DOMAIN g = Tokens /\ g[t] = e
             /\ \A u \in Tokens \ {t} : g[u] = f[u]
  OBVIOUS

\* A step that leaves every other token alone.
LEMMA OneToken ==
    ASSUME Inv, NEW t \in Tokens, ParamsInv', Clock', Shape', TokenInv(t)',
           \A u \in Tokens \ {t} : UNCHANGED Local(u)
    PROVE  Inv'
<1>1. ASSUME NEW u \in Tokens PROVE TokenInv(u)'
  <2>1. CASE u = t
    BY <2>1
  <2>2. CASE u # t
    BY <2>2, Frame DEF Inv
  <2> QED BY <2>1, <2>2
<1> QED BY <1>1 DEF Inv

\* A step that touches no token.
LEMMA NoToken ==
    ASSUME Inv, ParamsInv', Clock', UNCHANGED <<records, market, grants, graduatedAt>>
    PROVE  Inv'
<1>1. Shape'
  BY DEF Inv, Shape, records, market
<1>2. ASSUME NEW u \in Tokens PROVE TokenInv(u)'
  <2>1. UNCHANGED Local(u)
    BY DEF Local, records, market
  <2> QED BY <2>1, Frame DEF Inv
<1> QED BY <1>1, <1>2 DEF Inv

----------------------------------------------------------------------------
(* The initial state and the owner's steps. *)

LEMMA InitInv == Init => Inv
<1> SUFFICES ASSUME Init PROVE Inv
  OBVIOUS
<1> USE Terms, Defaults
<1>1. ParamsInv
  <2>1. (CHOOSE x \in Treasuries : TRUE) \in Treasuries
    OBVIOUS
  <2>2. (CHOOSE x \in CreationFees : TRUE) \in Nat
    BY Arguments
  <2>3. MAX_DEV_ALLOCATION_BPS \in 0..MAX_DEV_ALLOCATION_BPS
    BY FactoryConstants
  <2>4. DefaultParams \in Parameters
    BY <2>1, <2>2, <2>3 DEF DefaultParams, Parameters, ValidLockParams, ValidVestingDuration
  <2>5. ValidParams(DefaultParams)
    BY DEF DefaultParams, ValidParams
  <2> QED BY <2>4, <2>5 DEF Init, ParamsInv
<1>2. Clock
  BY DEF Init, Clock, Vesting!Init
<1>3. Shape
  BY DEF Init, Shape, Vesting!Init, Vesting!ZeroGrant, NoPool
<1>4. \A t \in Tokens : Untouched(t)
  BY DEF Init, Untouched, Vesting!Init, Vesting!ZeroGrant
<1> QED BY <1>1, <1>2, <1>3, <1>4 DEF Inv, TokenInv

\* The parameters stay valid, whatever the owner does; nothing else changes.
LEMMA SetterInv ==
    ASSUME Inv, NEW by \in Owners, ParamsInv', Retune(by)
    PROVE  Inv'
<1>1. UNCHANGED <<records, market, grants, graduatedAt, now>>
  BY DEF Retune, vestingVars
<1> QED BY <1>1, NoToken DEF Inv, Clock

LEMMA SettersKeepParamsValid ==
    ASSUME ParamsInv, NEW by \in Owners
    PROVE  /\ \A fee \in CreationFees : SetCreationFee(by, fee) => ParamsInv'
           /\ \A x \in Treasuries : SetTreasury(by, x) => ParamsInv'
           /\ \A v \in VirtualEths, f \in TradeFees, m \in MaxBuys, s \in Thresholds :
                 SetCurveParams(by, v, f, m, s) => ParamsInv'
           /\ \A d \in LockDurations, f \in CreatorFees :
                 SetLockParams(by, d, f) => ParamsInv'
           /\ \A bps \in DevAllocations : SetMaxDevAllocationBps(by, bps) => ParamsInv'
           /\ \A d \in VestingDurations : SetVestingDuration(by, d) => ParamsInv'
           /\ \A f \in ProtocolFees : SetProtocolFee(by, f) => ParamsInv'
<1> USE Arguments, Terms, FactoryConstants
<1>1. ASSUME NEW fee \in CreationFees, SetCreationFee(by, fee) PROVE ParamsInv'
  BY <1>1 DEF SetCreationFee, ParamsInv, Parameters, ValidParams
<1>2. ASSUME NEW x \in Treasuries, SetTreasury(by, x) PROVE ParamsInv'
  BY <1>2 DEF SetTreasury, ParamsInv, Parameters, ValidParams
<1>3. ASSUME NEW v \in VirtualEths, NEW f \in TradeFees, NEW m \in MaxBuys,
             NEW s \in Thresholds, SetCurveParams(by, v, f, m, s)
      PROVE  ParamsInv'
  <2>1. v \in Nat /\ f \in Nat /\ m \in Nat /\ s \in Nat
    OBVIOUS
  <2>2. params \in Parameters /\ ValidCurveParams(v, f, m, s)
    BY <1>3 DEF SetCurveParams, ParamsInv
  <2>3. params' = [params EXCEPT !.virtualEthReserve = v, !.tradeFeeBps = f,
                                 !.maxBuyPerWallet = m, !.antiSnipeThreshold = s]
    BY <1>3 DEF SetCurveParams
  <2>4. params' \in Parameters
    BY <2>1, <2>2, <2>3 DEF Parameters
  <2>5. /\ params'.virtualEthReserve = v /\ params'.tradeFeeBps = f
        /\ params'.maxBuyPerWallet = m /\ params'.antiSnipeThreshold = s
    BY <2>2, <2>3 DEF Parameters
  <2>6. ValidParams(params')
    BY <2>1, <2>2, <2>5, Zenon DEF ValidParams
  <2> QED BY <2>4, <2>6 DEF ParamsInv
<1>4. ASSUME NEW d \in LockDurations, NEW f \in CreatorFees, SetLockParams(by, d, f)
      PROVE  ParamsInv'
  <2>1. d \in MIN_LOCK_DURATION..MAX_LOCK_DURATION /\ f \in 0..MAX_CREATOR_FEE_BPS
    BY <1>4 DEF SetLockParams, ValidLockParams
  <2>2. /\ params \in Parameters /\ ValidParams(params)
        /\ params' = [params EXCEPT !.defaultLockDuration = d, !.creatorFeeBps = f]
    BY <1>4 DEF SetLockParams, ParamsInv
  <2>3. params' \in Parameters
    BY <2>1, <2>2 DEF Parameters
  <2>4. ValidParams(params')
    BY <2>2 DEF Parameters, ValidParams
  <2> QED BY <2>3, <2>4 DEF ParamsInv
<1>5. ASSUME NEW bps \in DevAllocations, SetMaxDevAllocationBps(by, bps)
      PROVE  ParamsInv'
  BY <1>5 DEF SetMaxDevAllocationBps, ParamsInv, Parameters, ValidParams
<1>6. ASSUME NEW d \in VestingDurations, SetVestingDuration(by, d) PROVE ParamsInv'
  BY <1>6 DEF SetVestingDuration, ValidVestingDuration, ParamsInv, Parameters, ValidParams
<1>7. ASSUME NEW f \in ProtocolFees, SetProtocolFee(by, f) PROVE ParamsInv'
  BY <1>7 DEF SetProtocolFee, ValidProtocolFee, ParamsInv, Parameters, ValidParams
<1> QED BY <1>1, <1>2, <1>3, <1>4, <1>5, <1>6, <1>7

LEMMA OwnershipInv ==
    ASSUME Inv, NEW by \in Owners
    PROVE  /\ \A o \in Owners : TransferOwnership(by, o) => Inv'
           /\ AcceptOwnership(by) => Inv'
           /\ RenounceOwnership(by) => Inv'
<1>1. UNCHANGED <<params, records, market, grants, graduatedAt, now>> => Inv'
  <2> SUFFICES ASSUME UNCHANGED <<params, records, market, grants, graduatedAt, now>>
               PROVE  Inv'
    OBVIOUS
  <2>1. ParamsInv' /\ Clock'
    BY DEF Inv, ParamsInv, Clock
  <2> QED BY <2>1, NoToken
<1> QED BY <1>1 DEF TransferOwnership, AcceptOwnership, RenounceOwnership, vestingVars

----------------------------------------------------------------------------
(* Steps that change nothing the token invariants read. *)

LEMMA NoLocal ==
    ASSUME Inv, ParamsInv', Clock', Shape', \A u \in Tokens : UNCHANGED Local(u)
    PROVE  Inv'
  BY Frame DEF Inv

\* A pool's protocol fee, or what it accrued, changes; its price does not.
LEMMA PoolInv ==
    ASSUME Inv, NEW t \in Tokens, NEW r,
           DOMAIN r = {"price", "feeProtocol", "accrued"}, r.price = pools[t].price,
           pools' = [pools EXCEPT ![t] = r],
           UNCHANGED <<params, records, tokensSold, held, weth, lockOf, grants,
                       graduatedAt, now>>
    PROVE  Inv'
<1>1. DOMAIN pools' = Tokens /\ pools'[t] = r /\ \A u \in Tokens \ {t} : pools'[u] = pools[u]
  BY UpdateFacts DEF Inv, Shape
<1>2. Shape'
  BY <1>1 DEF Inv, Shape, records
<1>3. \A u \in Tokens : UNCHANGED Local(u)
  BY <1>1 DEF Local, records
<1>4. ParamsInv' /\ Clock'
  BY DEF Inv, ParamsInv, Clock
<1> QED BY <1>2, <1>3, <1>4, NoLocal

LEMMA SetPoolProtocolFeeInv ==
    ASSUME Inv, NEW t \in Tokens, NEW by, NEW fee, SetPoolProtocolFee(by, t, fee)
    PROVE  Inv'
<1> DEFINE r == [pools[t] EXCEPT !.feeProtocol = fee]
<1>1. DOMAIN r = {"price", "feeProtocol", "accrued"} /\ r.price = pools[t].price
  BY DEF Inv, Shape
<1>2. pools' = [pools EXCEPT ![t] = r]
  BY Zenon DEF SetPoolProtocolFee
<1>3. UNCHANGED <<params, records, tokensSold, held, weth, lockOf, grants, graduatedAt, now>>
  BY DEF SetPoolProtocolFee, vestingVars
<1> HIDE DEF r
<1> QED BY <1>1, <1>2, <1>3, PoolInv

LEMMA SwapInv ==
    ASSUME Inv, NEW t \in Tokens, Swap(t)
    PROVE  Inv'
<1> DEFINE r == [pools[t] EXCEPT !.accrued = @ + 1]
<1>1. DOMAIN r = {"price", "feeProtocol", "accrued"} /\ r.price = pools[t].price
  BY DEF Inv, Shape
<1>2. pools' = [pools EXCEPT ![t] = r]
  BY Zenon DEF Swap
<1>3. UNCHANGED <<params, records, tokensSold, held, weth, lockOf, grants, graduatedAt, now>>
  BY DEF Swap, vestingVars
<1> HIDE DEF r
<1> QED BY <1>1, <1>2, <1>3, PoolInv

LEMMA CollectProtocolFeesInv ==
    ASSUME Inv, NEW t \in Tokens, CollectProtocolFees(t)
    PROVE  Inv'
<1> DEFINE r == [pools[t] EXCEPT !.accrued = 1]
<1>1. DOMAIN r = {"price", "feeProtocol", "accrued"} /\ r.price = pools[t].price
  BY DEF Inv, Shape
<1>2. pools' = [pools EXCEPT ![t] = r]
  BY Zenon DEF CollectProtocolFees
<1>3. UNCHANGED <<params, records, tokensSold, held, weth, lockOf, grants, graduatedAt, now>>
  BY DEF CollectProtocolFees, vestingVars
<1> HIDE DEF r
<1> QED BY <1>1, <1>2, <1>3, PoolInv

LEMMA HandOverInv == ASSUME Inv, HandOverV3Factory PROVE Inv'
<1>1. UNCHANGED <<params, records, market, grants, graduatedAt, now>>
  BY DEF HandOverV3Factory, vestingVars
<1>2. ParamsInv' /\ Clock'
  BY <1>1 DEF Inv, ParamsInv, Clock
<1> QED BY <1>1, <1>2, NoToken

LEMMA TickInv ==
    ASSUME Inv, Vesting!Tick, UNCHANGED <<params, records, market>>
    PROVE  Inv'
<1>1. Clock'
  BY Terms DEF Inv, Clock, Vesting!Tick
<1>2. ParamsInv'
  BY DEF Inv, ParamsInv
<1> QED BY <1>1, <1>2, NoToken DEF Vesting!Tick

LEMMA ClaimInv ==
    ASSUME Inv, NEW t \in Tokens, NEW caller, Vesting!Claim(caller, t),
           UNCHANGED <<params, records, market>>
    PROVE  Inv'
<1> DEFINE r == [grants[t] EXCEPT !.claimed = @ + Vesting!claimable(t)]
<1>1. /\ DOMAIN r = {"creator", "duration", "total", "claimed"}
      /\ r.total = grants[t].total /\ r.duration = grants[t].duration
  BY DEF Inv, Shape
<1>2. grants' = [grants EXCEPT ![t] = r]
  BY Zenon DEF Vesting!Claim
<1>3. UNCHANGED <<graduatedAt, now>>
  BY DEF Vesting!Claim
<1>4. DOMAIN grants' = Tokens /\ grants'[t] = r /\ \A u \in Tokens \ {t} : grants'[u] = grants[u]
  <2> HIDE DEF r
  <2> QED BY <1>2, UpdateFacts DEF Inv, Shape
<1> HIDE DEF r
<1>5. Shape'
  BY <1>1, <1>3, <1>4 DEF Inv, Shape, records, market
<1>6. \A u \in Tokens : UNCHANGED Local(u)
  BY <1>1, <1>3, <1>4 DEF Local, records, market
<1>7. ParamsInv' /\ Clock'
  BY <1>3 DEF Inv, ParamsInv, Clock
<1> QED BY <1>5, <1>6, <1>7, NoLocal

LEMMA VestingStepInv == ASSUME Inv, VestingStep PROVE Inv'
<1>1. UNCHANGED <<params, records, market>>
  BY DEF VestingStep
<1>2. CASE Vesting!Tick
  BY <1>1, <1>2, TickInv
<1>3. CASE \E t \in Tokens : Vesting!Claim(creatorOf[t], t)
  BY <1>1, <1>3, ClaimInv
<1>4. CASE \E t \in Tokens : Vesting!Donate(t)
  <2>1. UNCHANGED <<grants, graduatedAt, now>>
    BY <1>4 DEF Vesting!Donate
  <2>2. ParamsInv' /\ Clock'
    BY <1>1, <2>1 DEF Inv, ParamsInv, Clock
  <2> QED BY <1>1, <2>1, <2>2, NoToken
<1> QED BY <1>2, <1>3, <1>4 DEF VestingStep

----------------------------------------------------------------------------
(* A launch on its curve. *)

LEMMA OnlyOnCurve ==
    ASSUME Inv, NEW t \in Tokens, Trading(t)
    PROVE  Created(t) /\ OnCurve(t)
  BY DEF Inv, TokenInv, Untouched, InPool, Trading, Launched

\* What a launch's curve is made of.
LEMMA CurveFacts ==
    ASSUME NEW t \in Tokens, Created(t)
    PROVE  /\ curveOf[t].curveTokenAllocation \in Nat
           /\ Raise(curveOf[t]) \in Nat /\ 0 < Raise(curveOf[t])
           /\ PriceContinuous(curveOf[t])
<1>1. PICK bps \in 0..MAX_DEV_ALLOCATION_BPS :
        curveOf[t] = curveConfigFor(promised[t], bps)
  BY DEF Created
<1>2. ValidParams(promised[t])
  BY DEF Created
<1>3. curveOf[t].curveTokenAllocation \in Nat
  BY <1>1, ConfigFields, AllocationFacts
<1>4. \E m, s, r \in Nat :
        SolvedAs(curveConfigFor(promised[t], bps), promised[t].virtualEthReserve, m, s, r)
  BY <1>2, Solved
<1>5. Raise(curveOf[t]) \in Nat /\ 0 < Raise(curveOf[t])
  BY <1>1, <1>4 DEF SolvedAs
<1>6. PriceContinuous(curveOf[t])
  BY <1>1, <1>2, EveryOfferCalibrated
<1> QED BY <1>3, <1>5, <1>6

LEMMA CreatePoolInv ==
    ASSUME Inv, NEW t \in Tokens, CreatePool(t)
    PROVE  Inv'
<1> DEFINE r == [pools[t] EXCEPT !.price = OtherPrice]
<1>1. DOMAIN r = {"price", "feeProtocol", "accrued"} /\ r.price = OtherPrice
  BY DEF Inv, Shape
<1>2. pools' = [pools EXCEPT ![t] = r]
  BY Zenon DEF CreatePool
<1>3. UNCHANGED <<params, records, tokensSold, held, weth, lockOf, grants, graduatedAt, now>>
  BY DEF CreatePool, vestingVars
<1> HIDE DEF r
<1>4. DOMAIN pools' = Tokens /\ pools'[t] = r /\ \A u \in Tokens \ {t} : pools'[u] = pools[u]
  BY <1>2, UpdateFacts DEF Inv, Shape
<1>5. Shape'
  BY <1>1, <1>3, <1>4 DEF Inv, Shape, records
<1>6. Created(t) /\ OnCurve(t)
  BY OnlyOnCurve DEF CreatePool
<1>7. Created(t)' /\ OnCurve(t)'
  BY <1>1, <1>3, <1>4, <1>6 DEF Created, OnCurve, records
<1>8. \A u \in Tokens \ {t} : UNCHANGED Local(u)
  BY <1>3, <1>4 DEF Local, records
<1>9. ParamsInv' /\ Clock'
  BY <1>3 DEF Inv, ParamsInv, Clock
<1> QED BY <1>5, <1>7, <1>8, <1>9, OneToken DEF TokenInv

\* A token's balances change, on the curve.
LEMMA BalanceInv ==
    ASSUME Inv, NEW t \in Tokens, Trading(t), NEW r,
           DOMAIN r = {"factory", "curve", "manager", "pool"},
           r.factory = held[t].factory,
           r.curve + tokensSold'[t] = curveOf[t].curveTokenAllocation,
           r.manager \in Nat, GRADUATION_RESERVE <= r.manager,
           held' = [held EXCEPT ![t] = r],
           DOMAIN tokensSold' = Tokens,
           \A u \in Tokens \ {t} : tokensSold'[u] = tokensSold[u],
           UNCHANGED <<params, records, weth, pools, lockOf, grants, graduatedAt, now>>
    PROVE  Inv'
<1>1. DOMAIN held' = Tokens /\ held'[t] = r /\ \A u \in Tokens \ {t} : held'[u] = held[u]
  BY UpdateFacts DEF Inv, Shape
<1>2. Shape'
  BY <1>1 DEF Inv, Shape, records
<1>3. Created(t) /\ OnCurve(t)
  BY OnlyOnCurve
<1>4. Created(t)' /\ OnCurve(t)'
  BY <1>1, <1>3 DEF Created, OnCurve, records
<1>5. \A u \in Tokens \ {t} : UNCHANGED Local(u)
  BY <1>1 DEF Local, records
<1>6. ParamsInv' /\ Clock'
  BY DEF Inv, ParamsInv, Clock
<1> QED BY <1>2, <1>4, <1>5, <1>6, OneToken DEF TokenInv

LEMMA TradeInv ==
    ASSUME Inv, NEW t \in Tokens, NEW sold \in SoldLevels(curveOf[t]), Trade(t, sold)
    PROVE  Inv'
<1> DEFINE r == [held[t] EXCEPT !.curve = curveOf[t].curveTokenAllocation - sold]
<1>1. Trading(t)
  BY DEF Trade
<1>2. Created(t) /\ OnCurve(t)
  BY <1>1, OnlyOnCurve
<1>3. curveOf[t].curveTokenAllocation \in Nat
  BY <1>2, CurveFacts
<1>4. sold \in Int
  BY <1>3 DEF SoldLevels
<1>5. /\ DOMAIN r = {"factory", "curve", "manager", "pool"}
      /\ r.factory = held[t].factory /\ r.manager = held[t].manager
      /\ r.curve = curveOf[t].curveTokenAllocation - sold
  BY DEF Inv, Shape
<1>6. held' = [held EXCEPT ![t] = r]
  BY Zenon DEF Trade
<1>7. /\ DOMAIN tokensSold' = Tokens /\ tokensSold'[t] = sold
      /\ \A u \in Tokens \ {t} : tokensSold'[u] = tokensSold[u]
  BY DEF Trade, Inv, Shape
<1>8. UNCHANGED <<params, records, weth, pools, lockOf, grants, graduatedAt, now>>
  BY DEF Trade, vestingVars
<1>9. r.curve + tokensSold'[t] = curveOf[t].curveTokenAllocation
  BY <1>3, <1>4, <1>5, <1>7
<1>10. r.manager \in Nat /\ GRADUATION_RESERVE <= r.manager
  BY <1>2, <1>5 DEF OnCurve
<1> HIDE DEF r
<1> QED BY <1>1, <1>5, <1>6, <1>7, <1>8, <1>9, <1>10, BalanceInv

LEMMA DonateToManagerInv ==
    ASSUME Inv, NEW t \in Tokens, DonateToManager(t)
    PROVE  Inv'
<1> DEFINE r == [held[t] EXCEPT !.manager = @ + 1]
<1>1. Trading(t) /\ UNCHANGED tokensSold
  BY DEF DonateToManager
<1>2. Created(t) /\ OnCurve(t)
  BY <1>1, OnlyOnCurve
<1>3. /\ DOMAIN r = {"factory", "curve", "manager", "pool"}
      /\ r.factory = held[t].factory /\ r.manager = held[t].manager + 1
      /\ r.curve = held[t].curve
  BY DEF Inv, Shape
<1>4. held' = [held EXCEPT ![t] = r]
  BY Zenon DEF DonateToManager
<1>5. UNCHANGED <<params, records, weth, pools, lockOf, grants, graduatedAt, now>>
  BY DEF DonateToManager, vestingVars
<1>6. r.curve + tokensSold'[t] = curveOf[t].curveTokenAllocation
  BY <1>1, <1>2, <1>3 DEF OnCurve
<1>7. r.manager \in Nat /\ GRADUATION_RESERVE <= r.manager
  BY <1>2, <1>3, FactoryConstants DEF OnCurve
<1>8. DOMAIN tokensSold' = Tokens
  BY <1>1 DEF Inv, Shape
<1> HIDE DEF r
<1> QED BY <1>1, <1>3, <1>4, <1>5, <1>6, <1>7, <1>8, BalanceInv

----------------------------------------------------------------------------
(* createLaunch. *)

\* The terms of a launch about to be created.
LEMMA NewCurveFacts ==
    ASSUME Inv, NEW bps \in DevAllocations, bps <= params.maxDevAllocationBps
    PROVE  LET c == curveConfigFor(params, bps)
               carve == DevCarve(c, bps)
           IN  /\ bps \in 0..MAX_DEV_ALLOCATION_BPS
               /\ c.curveTokenAllocation = CurveAllocation(bps)
               /\ CurveAllocation(bps) \in Nat
               /\ carve = DevAllocation(bps) /\ carve \in Nat
               /\ TOTAL_SUPPLY - c.curveTokenAllocation - GRADUATION_RESERVE - carve = 0
               /\ c.curveTokenAllocation + GRADUATION_RESERVE + carve = TOTAL_SUPPLY
<1> DEFINE c == curveConfigFor(params, bps)
<1> USE FactoryConstants
<1>1. bps \in Nat /\ params.maxDevAllocationBps \in 0..MAX_DEV_ALLOCATION_BPS
  BY Arguments DEF Inv, ParamsInv, Parameters
<1>2. bps \in 0..MAX_DEV_ALLOCATION_BPS
  BY <1>1
<1>3. c.curveTokenAllocation = CurveAllocation(bps)
  BY ConfigFields
<1>4. DevAllocation(bps) \in Nat /\ CurveAllocation(bps) \in Nat
  BY <1>2, AllocationFacts
<1>5. DevCarve(c, bps) = DevAllocation(bps)
  BY <1>3, <1>4 DEF DevCarve, CurveAllocation
<1> HIDE DEF c
<1> QED BY <1>2, <1>3, <1>4, <1>5 DEF TOTAL_SUPPLY, CurveAllocation, c
\* What registerGrant writes.
LEMMA GrantUpdate ==
    ASSUME NEW f, DOMAIN f = Tokens, NEW t \in Tokens,
           DOMAIN f[t] = {"creator", "duration", "total", "claimed"},
           NEW creator, NEW duration, NEW total
    PROVE  LET g == [f EXCEPT ![t].creator = creator, ![t].duration = duration,
                              ![t].total = total]
           IN  /\ DOMAIN g = Tokens
               /\ DOMAIN g[t] = {"creator", "duration", "total", "claimed"}
               /\ g[t].total = total /\ g[t].duration = duration
               /\ \A u \in Tokens \ {t} : g[u] = f[u]
  OBVIOUS

LEMMA CreateLaunchInv ==
    ASSUME Inv, NEW t \in Tokens, NEW creator \in Creators,
           NEW bps \in DevAllocations, NEW permanent \in BOOLEAN,
           CreateLaunch(creator, t, bps, permanent)
    PROVE  Inv'
<1> DEFINE c == curveConfigFor(params, bps)
           carve == DevCarve(c, bps)
           r == [factory |-> TOTAL_SUPPLY - c.curveTokenAllocation
                               - GRADUATION_RESERVE - carve,
                 curve |-> c.curveTokenAllocation,
                 manager |-> GRADUATION_RESERVE, pool |-> 0]
           k == [lockDuration |-> params.defaultLockDuration,
                 creatorFeeBps |-> params.creatorFeeBps, permanent |-> permanent]
<1>1. /\ bps \in 0..MAX_DEV_ALLOCATION_BPS
      /\ c.curveTokenAllocation \in Nat /\ carve \in Nat
      /\ r.factory = 0
      /\ c.curveTokenAllocation + GRADUATION_RESERVE + carve = TOTAL_SUPPLY
  BY NewCurveFacts DEF CreateLaunch
<1>2. Untouched(t)
  BY DEF Inv, TokenInv, Created, CreateLaunch, Launched
<1>3. /\ creatorOf' = [creatorOf EXCEPT ![t] = creator]
      /\ curveOf' = [curveOf EXCEPT ![t] = c]
      /\ lockConfigOf' = [lockConfigOf EXCEPT ![t] = k]
      /\ devAllocationOf' = [devAllocationOf EXCEPT ![t] = carve]
      /\ held' = [held EXCEPT ![t] = r]
      /\ promised' = [promised EXCEPT ![t] = params]
      /\ UNCHANGED <<params, tokensSold, weth, pools, lockOf>>
  BY Zenon DEF CreateLaunch
<1>4. UNCHANGED <<graduatedAt, now>>
  BY DEF CreateLaunch, vestingVars, Vesting!RegisterGrant
<1>5. /\ DOMAIN grants' = Tokens
      /\ DOMAIN grants'[t] = {"creator", "duration", "total", "claimed"}
      /\ grants'[t].total = carve
      /\ carve # 0 => grants'[t].duration = params.vestingDuration
      /\ \A u \in Tokens \ {t} : grants'[u] = grants[u]
  <2>1. DOMAIN grants = Tokens
        /\ DOMAIN grants[t] = {"creator", "duration", "total", "claimed"}
    BY DEF Inv, Shape
  <2>2. CASE carve = 0
    <3>1. UNCHANGED grants
      BY <2>2 DEF CreateLaunch, vestingVars
    <3>2. grants[t].total = 0
      BY <1>2 DEF Untouched
    <3> QED BY <2>1, <2>2, <3>1, <3>2
  <2>3. CASE carve # 0
    <3>1. grants' = [grants EXCEPT ![t].creator = creator,
                                   ![t].duration = params.vestingDuration,
                                   ![t].total = carve]
      BY <2>3 DEF CreateLaunch, Vesting!RegisterGrant
    <3> HIDE DEF carve
    <3> QED BY <2>1, <3>1, GrantUpdate
  <2> QED BY <2>2, <2>3
<1>6. /\ c.curveTokenAllocation = r.curve /\ r.manager = GRADUATION_RESERVE
      /\ DOMAIN r = {"factory", "curve", "manager", "pool"}
      /\ k.lockDuration = params.defaultLockDuration
      /\ k.creatorFeeBps = params.creatorFeeBps /\ k.permanent = permanent
  OBVIOUS
<1>7. \E b \in 0..MAX_DEV_ALLOCATION_BPS : c = curveConfigFor(params, b)
  BY <1>1
<1> HIDE DEF c, carve, r, k
<1>8. /\ DOMAIN creatorOf' = Tokens /\ creatorOf'[t] = creator
      /\ DOMAIN curveOf' = Tokens /\ curveOf'[t] = c
      /\ DOMAIN lockConfigOf' = Tokens /\ lockConfigOf'[t] = k
      /\ DOMAIN devAllocationOf' = Tokens /\ devAllocationOf'[t] = carve
      /\ DOMAIN held' = Tokens /\ held'[t] = r
      /\ DOMAIN promised' = Tokens /\ promised'[t] = params
      /\ \A u \in Tokens \ {t} :
           /\ creatorOf'[u] = creatorOf[u] /\ curveOf'[u] = curveOf[u]
           /\ lockConfigOf'[u] = lockConfigOf[u]
           /\ devAllocationOf'[u] = devAllocationOf[u]
           /\ held'[u] = held[u] /\ promised'[u] = promised[u]
  BY <1>3, UpdateFacts DEF Inv, Shape
<1>9. Shape'
  BY <1>3, <1>4, <1>5, <1>6, <1>8 DEF Inv, Shape
<1>10. Created(t)'
  <2>1. creator # NoOne
    BY Signers DEF NoOne
  <2>2. params \in Parameters /\ ValidParams(params)
    BY DEF Inv, ParamsInv
  <2> QED BY <1>1, <1>5, <1>6, <1>7, <1>8, <2>1, <2>2 DEF Created
<1>11. OnCurve(t)'
  <2>1. /\ graduatedAt[t] = 0 /\ tokensSold[t] = 0
        /\ lockOf[t] = NoLock /\ pools[t].price = NoPool.price
    BY <1>2 DEF Untouched
  <2> QED BY <1>1, <1>3, <1>4, <1>6, <1>8, <2>1, FactoryConstants DEF OnCurve
<1>12. \A u \in Tokens \ {t} : UNCHANGED Local(u)
  BY <1>3, <1>4, <1>5, <1>8 DEF Local
<1>13. ParamsInv' /\ Clock'
  BY <1>3, <1>4 DEF Inv, ParamsInv, Clock
<1> QED BY <1>9, <1>10, <1>11, <1>12, <1>13, OneToken DEF TokenInv

----------------------------------------------------------------------------
(* Graduation. *)

\* The lock's terms, for a launch on its curve.
LEMMA LockFacts ==
    ASSUME Inv, NEW t \in Tokens, Created(t)
    PROVE  /\ LockTerms(t).creatorFeeBps = promised[t].creatorFeeBps
           /\ LockTerms(t).creatorFeeBps <= MAX_CREATOR_FEE_BPS
           /\ LockTerms(t).permanent = lockConfigOf[t].permanent
           /\ LockUntil(t) \in Nat /\ LockUntil(t) <= PERMANENT
           /\ lockConfigOf[t].permanent => LockUntil(t) = PERMANENT
           /\ ~lockConfigOf[t].permanent =>
                /\ LockUntil(t) = now + promised[t].defaultLockDuration
                /\ LockUntil(t) < PERMANENT
           /\ now + MIN_LOCK_DURATION <= LockUntil(t)
<1> DEFINE p == promised[t]
<1>1. /\ p.defaultLockDuration \in MIN_LOCK_DURATION..MAX_LOCK_DURATION
      /\ p.creatorFeeBps \in 0..MAX_CREATOR_FEE_BPS
  BY DEF Created, Parameters
<1>2. /\ lockConfigOf[t].lockDuration = p.defaultLockDuration
      /\ lockConfigOf[t].creatorFeeBps = p.creatorFeeBps
      /\ lockConfigOf[t].permanent \in BOOLEAN
  BY DEF Created
<1>3. now \in Nat /\ now <= MaxTime
  BY Terms DEF Inv, Clock
<1> HIDE DEF p
<1> QED BY <1>1, <1>2, <1>3, Terms, Widths DEF LockTerms, LockUntil, p

LEMMA TradingCanGraduate ==
    ASSUME Inv, NEW t \in Tokens, Trading(t)
    PROVE  CanGraduate(t)
<1>1. Created(t) /\ OnCurve(t)
  BY OnlyOnCurve
<1>2. 0 < Raise(curveOf[t])
  BY <1>1, CurveFacts
<1>3. LockUntil(t) <= PERMANENT /\ LockTerms(t).creatorFeeBps <= MAX_CREATOR_FEE_BPS
  BY <1>1, LockFacts
<1>4. Seed(t) <= held[t].manager /\ lockOf[t] = NoLock
  BY <1>1 DEF OnCurve, Seed
<1>5. PoolAcceptsFee(params.protocolFee)
  BY DEF Inv, ParamsInv, Parameters, PoolAcceptsFee
<1> QED BY <1>2, <1>3, <1>4, <1>5 DEF CanGraduate

\* Offered amounts in the pool's own ratio are taken in full.
LEMMA UsedInFull ==
    ASSUME NEW x \in Nat, NEW y \in Nat, 0 < x, 0 < y
    PROVE  MinOf(x, CeilDiv(y * x, y)) = x
<1>1. y * x \in Nat /\ x * y = y * x /\ (x - 1) * y = y * x - y
  BY SMT
<1>2. x = CeilDiv(y * x, y)
  BY <1>1, CeilDivUnique
<1> QED BY <1>2 DEF MinOf

\* What graduate writes to the token's balances.
LEMMA HeldUpdate ==
    ASSUME NEW f, DOMAIN f = Tokens, NEW t \in Tokens,
           DOMAIN f[t] = {"factory", "curve", "manager", "pool"}, NEW x, NEW y, NEW z
    PROVE  LET g == [f EXCEPT ![t].curve = x, ![t].manager = y, ![t].pool = z]
           IN  /\ DOMAIN g = Tokens
               /\ DOMAIN g[t] = {"factory", "curve", "manager", "pool"}
               /\ g[t].factory = f[t].factory /\ g[t].pool = z
               /\ \A u \in Tokens \ {t} : g[u] = f[u]
  OBVIOUS

LEMMA GraduateInv ==
    ASSUME Inv, NEW t \in Tokens, Graduate(t)
    PROVE  Inv'
<1> DEFINE raise == Raise(curveOf[t])
           price == OpeningPrice(t)
           tokens == UsedTokens(price, Seed(t), raise)
           eth == UsedWeth(price, Seed(t), raise)
           w == [manager |-> raise - eth, pool |-> eth]
           q == [pools[t] EXCEPT !.price = price, !.feeProtocol = FeeAtOpening(t)]
           k == [lockUntil |-> LockUntil(t), creatorFeeBps |-> LockTerms(t).creatorFeeBps]
<1>1. Created(t) /\ OnCurve(t)
  BY OnlyOnCurve DEF Graduate
<1>2. UNCHANGED <<params, records, grants, now>> /\ graduatedAt' = [graduatedAt EXCEPT ![t] = now]
  BY DEF Graduate, Vesting!Graduate
<1>3. /\ tokensSold' = [tokensSold EXCEPT ![t] = curveOf[t].curveTokenAllocation]
      /\ weth' = [weth EXCEPT ![t] = w]
      /\ lockOf' = [lockOf EXCEPT ![t] = k]
  BY Zenon DEF Graduate
<1>4. pools' = [pools EXCEPT ![t] = q]
  BY Zenon DEF Graduate
<1>5. held' = [held EXCEPT ![t].curve = 0, ![t].manager = held[t].manager - tokens,
                           ![t].pool = tokens]
  BY DEF Graduate, Inv, Shape
<1>6. /\ DOMAIN q = {"price", "feeProtocol", "accrued"} /\ q.price = price
  BY DEF Inv, Shape
<1>7. k.lockUntil = LockUntil(t) /\ k.creatorFeeBps = LockTerms(t).creatorFeeBps
  OBVIOUS
<1>8. price # OtherPrice =>
        /\ price = [tokens |-> GRADUATION_RESERVE, weth |-> raise]
        /\ tokens = GRADUATION_RESERVE
        /\ w = [manager |-> 0, pool |-> raise]
  <2> SUFFICES ASSUME price # OtherPrice
               PROVE  /\ price = [tokens |-> GRADUATION_RESERVE, weth |-> raise]
                      /\ tokens = GRADUATION_RESERVE
                      /\ w = [manager |-> 0, pool |-> raise]
    OBVIOUS
  <2>1. price = [tokens |-> GRADUATION_RESERVE, weth |-> raise]
    BY <1>1 DEF OnCurve, OpeningPrice, HasPool, Seed
  <2>2. price.tokens = GRADUATION_RESERVE /\ price.weth = raise
    BY <2>1
  <2>3. raise \in Nat /\ 0 < raise /\ GRADUATION_RESERVE \in Nat /\ 0 < GRADUATION_RESERVE
    BY <1>1, CurveFacts, FactoryConstants
  <2> HIDE DEF raise, price
  <2>4. tokens = GRADUATION_RESERVE
    BY <2>2, <2>3, UsedInFull DEF UsedTokens, Seed
  <2>5. eth = raise
    BY <2>2, <2>3, UsedInFull DEF UsedWeth, Seed
  <2> QED BY <2>1, <2>3, <2>4, <2>5
<1> HIDE DEF raise, price, tokens, eth, w, q, k
<1>9. /\ DOMAIN tokensSold' = Tokens
      /\ DOMAIN weth' = Tokens /\ weth'[t] = w
      /\ DOMAIN lockOf' = Tokens /\ lockOf'[t] = k
      /\ DOMAIN pools' = Tokens /\ pools'[t] = q
      /\ DOMAIN graduatedAt' = Tokens /\ graduatedAt'[t] = now
      /\ \A u \in Tokens \ {t} :
           /\ tokensSold'[u] = tokensSold[u] /\ weth'[u] = weth[u]
           /\ lockOf'[u] = lockOf[u] /\ pools'[u] = pools[u]
           /\ graduatedAt'[u] = graduatedAt[u]
  BY <1>2, <1>3, <1>4, UpdateFacts DEF Inv, Shape
<1>10. /\ DOMAIN held' = Tokens
       /\ DOMAIN held'[t] = {"factory", "curve", "manager", "pool"}
       /\ held'[t].factory = held[t].factory /\ held'[t].pool = tokens
       /\ \A u \in Tokens \ {t} : held'[u] = held[u]
  <2>1. DOMAIN held = Tokens /\ DOMAIN held[t] = {"factory", "curve", "manager", "pool"}
    BY DEF Inv, Shape
  <2> QED BY <1>5, <2>1, HeldUpdate
<1>11. Shape'
  BY <1>2, <1>6, <1>9, <1>10 DEF Inv, Shape, records
<1>12. Created(t)'
  BY <1>1, <1>2, <1>10 DEF Created, records
<1>13. InPool(t)'
  <2>1. now \in Nat \ {0}
    BY Terms DEF Inv, Clock
  <2>2. UNCHANGED <<promised, lockConfigOf, curveOf>>
    BY <1>2 DEF records
  <2>3. /\ LockTerms(t).creatorFeeBps = promised[t].creatorFeeBps
        /\ lockConfigOf[t].permanent => LockUntil(t) = PERMANENT
        /\ ~lockConfigOf[t].permanent =>
             /\ LockUntil(t) = now + promised[t].defaultLockDuration
             /\ LockUntil(t) < PERMANENT
        /\ now + MIN_LOCK_DURATION <= LockUntil(t)
    BY <1>1, LockFacts
  <2>4. pools'[t].price # OtherPrice =>
          /\ held'[t].pool = GRADUATION_RESERVE
          /\ weth'[t] = [manager |-> 0, pool |-> Raise(curveOf[t])]
          /\ pools'[t].price = [tokens |-> GRADUATION_RESERVE, weth |-> Raise(curveOf[t])]
    BY <1>6, <1>8, <1>9, <1>10 DEF raise
  <2> QED BY <1>7, <1>9, <2>1, <2>2, <2>3, <2>4 DEF InPool
<1>14. \A u \in Tokens \ {t} : UNCHANGED Local(u)
  BY <1>2, <1>9, <1>10 DEF Local, records
<1>15. ParamsInv' /\ Clock'
  BY <1>2 DEF Inv, ParamsInv, Clock
<1> QED BY <1>11, <1>12, <1>13, <1>14, <1>15, OneToken DEF TokenInv
----------------------------------------------------------------------------
(* Every step, and the theorems. *)

LEMMA OwnerStepInv ==
    ASSUME Inv, NEW by \in Owners, OwnerStep(by)
    PROVE  Inv'
<1> USE SettersKeepParamsValid, SetterInv DEF Inv
<1>1. CASE \E fee \in CreationFees : SetCreationFee(by, fee)
  BY <1>1 DEF SetCreationFee
<1>2. CASE \E x \in Treasuries : SetTreasury(by, x)
  BY <1>2 DEF SetTreasury
<1>3. CASE \E v \in VirtualEths, f \in TradeFees, m \in MaxBuys, s \in Thresholds :
             SetCurveParams(by, v, f, m, s)
  BY <1>3 DEF SetCurveParams
<1>4. CASE \E d \in LockDurations, f \in CreatorFees : SetLockParams(by, d, f)
  BY <1>4 DEF SetLockParams
<1>5. CASE \E bps \in DevAllocations : SetMaxDevAllocationBps(by, bps)
  BY <1>5 DEF SetMaxDevAllocationBps
<1>6. CASE \E d \in VestingDurations : SetVestingDuration(by, d)
  BY <1>6 DEF SetVestingDuration
<1>7. CASE \E f \in ProtocolFees : SetProtocolFee(by, f)
  BY <1>7 DEF SetProtocolFee
<1>8. CASE \E t \in Tokens, f \in ProtocolFees : SetPoolProtocolFee(by, t, f)
  BY <1>8, SetPoolProtocolFeeInv
<1>9. CASE \E o \in Owners : TransferOwnership(by, o)
  BY <1>9, OwnershipInv
<1>10. CASE AcceptOwnership(by) \/ RenounceOwnership(by)
  BY <1>10, OwnershipInv
<1> QED BY <1>1, <1>2, <1>3, <1>4, <1>5, <1>6, <1>7, <1>8, <1>9, <1>10 DEF OwnerStep

LEMMA LaunchStepInv ==
    ASSUME Inv, NEW t \in Tokens, LaunchStep(t)
    PROVE  Inv'
<1>1. CASE \E c \in Creators, bps \in DevAllocations, permanent \in BOOLEAN :
             CreateLaunch(c, t, bps, permanent)
  BY <1>1, CreateLaunchInv
<1>2. CASE \E sold \in SoldLevels(curveOf[t]) : Trade(t, sold)
  BY <1>2, TradeInv
<1>3. CASE DonateToManager(t)
  BY <1>3, DonateToManagerInv
<1>4. CASE CreatePool(t)
  BY <1>4, CreatePoolInv
<1>5. CASE Graduate(t)
  BY <1>5, GraduateInv
<1>6. CASE Swap(t)
  BY <1>6, SwapInv
<1>7. CASE CollectProtocolFees(t)
  BY <1>7, CollectProtocolFeesInv
<1> QED BY <1>1, <1>2, <1>3, <1>4, <1>5, <1>6, <1>7 DEF LaunchStep

LEMMA NextInv == Inv /\ [Next]_vars => Inv'
<1> SUFFICES ASSUME Inv, [Next]_vars PROVE Inv'
  OBVIOUS
<1>1. CASE \E by \in Owners : OwnerStep(by)
  BY <1>1, OwnerStepInv
<1>2. CASE \E t \in Tokens : LaunchStep(t)
  BY <1>2, LaunchStepInv
<1>3. CASE HandOverV3Factory
  BY <1>3, HandOverInv
<1>4. CASE VestingStep
  BY <1>4, VestingStepInv
<1>5. CASE UNCHANGED vars
  <2>1. UNCHANGED <<params, records, market, grants, graduatedAt, now>>
    BY <1>5 DEF vars, vestingVars
  <2>2. ParamsInv' /\ Clock'
    BY <2>1 DEF Inv, ParamsInv, Clock
  <2> QED BY <2>1, <2>2, NoToken
<1> QED BY <1>1, <1>2, <1>3, <1>4, <1>5 DEF Next

LEMMA SpecInv == Spec => []Inv
  BY InitInv, NextInv, PTL DEF Spec

\* No sequence of retunings leaves parameters under which a launch could not be
\* created, traded or vested (LaunchpadFactory's setters against
\* BondingCurve's constructor and DevVesting.registerGrant).
THEOREM ParametersSafe == Spec => []NoParameterBricksALaunch
<1>1. Inv => NoParameterBricksALaunch
  <2> SUFFICES ASSUME Inv, NEW bps \in 0..params.maxDevAllocationBps
               PROVE  LET c == curveConfigFor(params, bps)
                          carve == CURVE_SUPPLY - c.curveTokenAllocation
                      IN  /\ Buildable(c) /\ CapLifts(c)
                          /\ carve # 0 => /\ Vesting!IsGrant(carve)
                                          /\ 0 < params.vestingDuration
    BY DEF NoParameterBricksALaunch, Offered
  <2> DEFINE c == curveConfigFor(params, bps)
             carve == CURVE_SUPPLY - c.curveTokenAllocation
  <2>1. /\ ValidParams(params) /\ params.maxDevAllocationBps \in 0..MAX_DEV_ALLOCATION_BPS
        /\ params.vestingDuration \in MIN_VESTING_DURATION..MAX_VESTING_DURATION
    BY DEF Inv, ParamsInv, Parameters
  <2>2. bps \in 0..MAX_DEV_ALLOCATION_BPS
    BY <2>1, FactoryConstants
  <2>3. Buildable(c) /\ CapLifts(c)
    BY <2>1, <2>2, EveryOfferBuildable
  <2>4. /\ carve = DevAllocation(bps) /\ DevAllocation(bps) \in Nat
        /\ DevAllocation(bps) <= DevAllocation(MAX_DEV_ALLOCATION_BPS)
    BY <2>2, ConfigFields, AllocationFacts, FactoryConstants DEF CurveAllocation
  <2>5. DevAllocation(MAX_DEV_ALLOCATION_BPS) \in Nat
    BY FactoryConstants, AllocationFacts
  <2>6. carve # 0 => Vesting!IsGrant(carve)
    <3> HIDE DEF carve
    <3> QED BY <2>4, <2>5, Widths, Terms DEF Vesting!IsGrant
  <2>7. 0 < params.vestingDuration
    BY <2>1, Terms
  <2> QED BY <2>3, <2>6, <2>7
<1> QED BY <1>1, SpecInv, PTL

\* Every launch that can ever be offered is calibrated: it opens its pool at
\* the curve's closing price and raises the owner's target, to the rounding
\* (LaunchpadFactory._solveCalibration).
THEOREM OffersCalibrated == Spec => []EveryOfferIsCalibrated
<1>1. Inv => EveryOfferIsCalibrated
  <2> SUFFICES ASSUME Inv, NEW bps \in 0..params.maxDevAllocationBps
               PROVE  LET c == curveConfigFor(params, bps)
                      IN  PriceContinuous(c) /\ OnTarget(c, params.virtualEthReserve)
    BY DEF EveryOfferIsCalibrated, Offered
  <2>1. ValidParams(params) /\ params.maxDevAllocationBps \in 0..MAX_DEV_ALLOCATION_BPS
    BY DEF Inv, ParamsInv, Parameters
  <2>2. bps \in 0..MAX_DEV_ALLOCATION_BPS
    BY <2>1, FactoryConstants
  <2> QED BY <2>1, <2>2, EveryOfferCalibrated
<1> QED BY <1>1, SpecInv, PTL

\* What is for sale, in escrow and granted is the whole supply of each launch
\* (createLaunch, _grantDevCarve).
THEOREM SupplyIsAccounted == Spec => []SupplyAccounted
<1>1. Inv => SupplyAccounted
  <2> SUFFICES ASSUME Inv, NEW t \in Tokens, Launched(t)
               PROVE  /\ held[t].factory = 0
                      /\ curveOf[t].curveTokenAllocation + GRADUATION_RESERVE
                           + grants[t].total = TOTAL_SUPPLY
                      /\ devAllocationOf[t] = grants[t].total
                      /\ Trading(t) =>
                           /\ held[t].curve + tokensSold[t]
                                = curveOf[t].curveTokenAllocation
                           /\ GRADUATION_RESERVE <= held[t].manager
    BY DEF SupplyAccounted
  <2>1. Created(t)
    BY DEF Inv, TokenInv, Untouched, Launched
  <2>2. Trading(t) => OnCurve(t)
    BY OnlyOnCurve
  <2> QED BY <2>1, <2>2 DEF Created, OnCurve
<1> QED BY <1>1, SpecInv, PTL

\* A launch that trades can always graduate, whatever happens around it
\* (GraduationManager.graduate, LPLock.registerLock, applyProtocolFee).
THEOREM GraduationIsSafe == Spec => []GraduationNeverReverts
<1>1. Inv => GraduationNeverReverts
  BY TradingCanGraduate DEF GraduationNeverReverts
<1> QED BY <1>1, SpecInv, PTL

LEMMA GraduatedInPool ==
    ASSUME Inv, NEW t \in Tokens, Graduated(t)
    PROVE  Created(t) /\ InPool(t)
  BY DEF Inv, TokenInv, Untouched, OnCurve, Graduated

\* A pool that graduation opened holds reserve and raise entire and opens where
\* the curve closed (GraduationManager.graduate).
THEOREM PoolOpensRight == Spec => []PoolOpensAtTheClose
<1>1. Inv => PoolOpensAtTheClose
  <2> SUFFICES ASSUME Inv, NEW t \in Tokens, Graduated(t), pools[t].price # OtherPrice
               PROVE  /\ held[t].pool = GRADUATION_RESERVE
                      /\ weth[t] = [manager |-> 0, pool |-> Raise(curveOf[t])]
                      /\ pools[t].price = [tokens |-> held[t].pool, weth |-> weth[t].pool]
                      /\ PriceContinuous(curveOf[t])
    BY DEF PoolOpensAtTheClose
  <2>1. Created(t) /\ InPool(t)
    BY GraduatedInPool
  <2>2. PriceContinuous(curveOf[t])
    BY <2>1, CurveFacts
  <2>3. /\ held[t].pool = GRADUATION_RESERVE
        /\ weth[t] = [manager |-> 0, pool |-> Raise(curveOf[t])]
        /\ pools[t].price = [tokens |-> GRADUATION_RESERVE, weth |-> Raise(curveOf[t])]
    BY <2>1 DEF InPool
  <2> QED BY <2>2, <2>3
<1> QED BY <1>1, SpecInv, PTL

\* A launch lives under the parameters it was created under, however the owner
\* retunes (the "future-only" promise of every setter).
THEOREM TermsFrozen == Spec => []TermsAreThoseAtCreation
<1>1. Inv => TermsAreThoseAtCreation
  <2> SUFFICES ASSUME Inv, NEW t \in Tokens
               PROVE  /\ Launched(t) =>
                           /\ grants[t].total # 0 =>
                                grants[t].duration = promised[t].vestingDuration
                           /\ curveOf[t].treasury = promised[t].treasury
                           /\ curveOf[t].tradeFeeBps = promised[t].tradeFeeBps
                      /\ Graduated(t) =>
                           /\ lockOf[t].creatorFeeBps = promised[t].creatorFeeBps
                           /\ lockConfigOf[t].permanent
                              \/ lockOf[t].lockUntil
                                   = graduatedAt[t] + promised[t].defaultLockDuration
    BY DEF TermsAreThoseAtCreation
  <2>1. Launched(t) => Created(t)
    BY DEF Inv, TokenInv, Untouched, Launched
  <2>2. Graduated(t) => InPool(t)
    BY GraduatedInPool
  <2>3. Created(t) => /\ curveOf[t].treasury = promised[t].treasury
                      /\ curveOf[t].tradeFeeBps = promised[t].tradeFeeBps
    BY ConfigFields DEF Created
  <2> QED BY <2>1, <2>2, <2>3 DEF Created, InPool
<1> QED BY <1>1, SpecInv, PTL

\* Only a creator's choice makes a lock permanent, and no lock is shorter than
\* the minimum (GraduationManager._registerLock).
THEOREM PermanenceIsChosen == Spec => []PermanentOnlyByChoice
<1>1. Inv => PermanentOnlyByChoice
  <2> SUFFICES ASSUME Inv, NEW t \in Tokens, Graduated(t)
               PROVE  /\ (lockOf[t].lockUntil = PERMANENT) <=> lockConfigOf[t].permanent
                      /\ graduatedAt[t] + MIN_LOCK_DURATION <= lockOf[t].lockUntil
    BY DEF PermanentOnlyByChoice
  <2>1. Created(t) /\ InPool(t)
    BY GraduatedInPool
  <2>2. lockConfigOf[t].permanent \in BOOLEAN /\ PERMANENT \in Nat
    BY <2>1, Terms DEF Created
  <2>3. lockConfigOf[t].permanent => lockOf[t].lockUntil = PERMANENT
    BY <2>1 DEF InPool
  <2>4. ~lockConfigOf[t].permanent => lockOf[t].lockUntil # PERMANENT
    <3>1. SUFFICES ASSUME ~lockConfigOf[t].permanent
                   PROVE  lockOf[t].lockUntil # PERMANENT
      OBVIOUS
    <3>2. lockOf[t].lockUntil < PERMANENT
      BY <2>1, <3>1 DEF InPool
    <3> QED BY <2>2, <3>2
  <2>5. graduatedAt[t] + MIN_LOCK_DURATION <= lockOf[t].lockUntil
    BY <2>1 DEF InPool
  <2> QED BY <2>2, <2>3, <2>4, <2>5
<1> QED BY <1>1, SpecInv, PTL
============================================================================
