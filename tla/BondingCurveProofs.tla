------------------------- MODULE BondingCurveProofs -------------------------
(***************************************************************************)
(* Proofs about BondingCurve for every configuration the factory accepts.  *)
(*                                                                         *)
(* The inductive invariant is Inv.  Its heart is that ethReserve is exactly *)
(* ceil(k / tokenReserve): a buy rounds the token reserve up and a sell the *)
(* ETH reserve up, and as long as one token unit costs less than one wei   *)
(* (Calibrated) both land on that same value.                              *)
(***************************************************************************)
EXTENDS BondingCurve, CurveMathProofs

Inv ==
    /\ TypeOK
    /\ ReservesPathIndependent
    /\ OpenOrCalibrated
    /\ Backed
    /\ TallyWithinCap

----------------------------------------------------------------------------
(* Constants. *)

LEMMA ConstantFacts ==
    /\ k \in Nat /\ k > 0
    /\ finalTokenReserve \in Nat /\ finalTokenReserve > 0
    /\ finalTokenReserve < virtualTokenReserve
    /\ finalEthReserve \in Nat
    /\ finalEthReserve * finalTokenReserve >= k
    /\ virtualEthReserve < finalEthReserve
    /\ virtualEthReserve = CeilDiv(k, virtualTokenReserve)
    /\ raise \in Nat
<1> USE ConstructorRequires
<1>1. k \in Nat /\ k > 0
  BY SMT DEF k
<1>2. /\ finalTokenReserve \in Nat /\ finalTokenReserve > 0
      /\ finalTokenReserve < virtualTokenReserve
  BY DEF finalTokenReserve
<1>3. finalEthReserve \in Nat /\ finalEthReserve * finalTokenReserve >= k
  BY <1>1, <1>2, CeilDivBounds DEF finalEthReserve
<1>4. virtualEthReserve < finalEthReserve
  <2>1. SUFFICES ASSUME finalEthReserve <= virtualEthReserve PROVE FALSE
    BY <1>3
  <2>2. finalEthReserve * finalTokenReserve
          <= virtualEthReserve * finalTokenReserve
    BY <1>2, <1>3, <2>1, MulMono
  <2>3. virtualEthReserve * finalTokenReserve
          < virtualEthReserve * virtualTokenReserve
    BY <1>2, SMT
  <2> QED BY <1>2, <1>3, <2>2, <2>3, SMT DEF k
<1>5. virtualEthReserve = CeilDiv(k, virtualTokenReserve)
  <2>1. virtualEthReserve * virtualTokenReserve >= k
    BY SMT DEF k
  <2>2. (virtualEthReserve - 1) * virtualTokenReserve < k
    BY SMT DEF k
  <2> QED BY <1>1, <2>1, <2>2, CeilDivUnique
<1> QED BY <1>1, <1>2, <1>3, <1>4, <1>5 DEF raise

\* The price of a token unit stays below one wei while the curve is open.
LEMMA OpenFacts ==
    ASSUME TypeOK, ReservesPathIndependent, OpenOrCalibrated, ~graduated
    PROVE  /\ ethReserve > 0 /\ tokenReserve > 0
           /\ ethReserve < tokenReserve
           /\ finalTokenReserve < tokenReserve
           /\ tokenReserve <= virtualTokenReserve
           /\ ethReserve * tokenReserve >= k
           /\ remaining = tokenReserve - finalTokenReserve
           /\ netNeeded \in Nat
<1> USE ConstructorRequires
<1>1. /\ tokensSold < curveTokenAllocation /\ virtualEthReserve <= ethReserve
      /\ ethReserve < finalEthReserve
      /\ tokenReserve + tokensSold = virtualTokenReserve
      /\ ethReserve = CeilDiv(k, tokenReserve)
  BY DEF OpenOrCalibrated, ReservesPathIndependent
<1>2. finalTokenReserve < tokenReserve /\ tokenReserve <= virtualTokenReserve
  BY <1>1 DEF TypeOK, finalTokenReserve
<1>3. ethReserve > 0 /\ tokenReserve > 0 /\ ethReserve < tokenReserve
  BY <1>1, <1>2, ConstantFacts, Calibrated DEF TypeOK
<1>4. ethReserve * tokenReserve >= k
  BY <1>1, <1>3, ConstantFacts, CeilDivBounds DEF TypeOK
<1> QED
  BY <1>1, <1>2, <1>3, <1>4, ConstantFacts
     DEF TypeOK, remaining, finalTokenReserve, netNeeded

LEMMA FeeFacts ==
    ASSUME NEW x \in Nat
    PROVE  Fee(x) \in Nat /\ Fee(x) <= x /\ (x > 0 => Fee(x) < x)
  BY ConstructorRequires, BpsOfBounds DEF Fee

----------------------------------------------------------------------------
(* What _previewBuy and _previewSell return on an open curve. *)

LEMMA PreviewBuyFacts ==
    ASSUME TypeOK, ReservesPathIndependent, OpenOrCalibrated, ~graduated,
           NEW v \in Nat, v > 0
    PROVE  /\ BuyEthReserve(v) \in Nat /\ ethReserve < BuyEthReserve(v)
           /\ BuyTokenReserve(v) \in Nat
           /\ BuyEthReserve(v) * BuyTokenReserve(v) >= k
           /\ (BuyTokenReserve(v) - 1) * BuyEthReserve(v) < k
           /\ PreviewTokens(v) \in Nat /\ PreviewTokens(v) > 0
<1> DEFINE e2 == BuyEthReserve(v)
           t2 == BuyTokenReserve(v)
<1>1. e2 \in Nat /\ e2 >= ethReserve + 1
  BY FeeFacts DEF TypeOK, BuyEthReserve
<1>2. t2 \in Nat /\ t2 * e2 >= k /\ (t2 - 1) * e2 < k
  BY <1>1, ConstantFacts, OpenFacts, CeilDivBounds DEF BuyTokenReserve, TypeOK
<1>3. t2 <= tokenReserve - 1
  <2>1. tokenReserve - 1 \in Nat
    BY OpenFacts DEF TypeOK
  <2>2. (ethReserve + 1) * (tokenReserve - 1) <= e2 * (tokenReserve - 1)
    BY <1>1, <2>1, MulMono DEF TypeOK
  <2>3. (ethReserve + 1) * (tokenReserve - 1)
          = ethReserve * tokenReserve + (tokenReserve - ethReserve - 1)
    BY SMT DEF TypeOK
  <2>4. (tokenReserve - 1) * e2 >= k
    BY <1>1, <2>1, <2>2, <2>3, OpenFacts, ConstantFacts, SMT DEF TypeOK
  <2> QED BY <1>1, <2>1, <2>4, ConstantFacts, CeilDivLeast, OpenFacts
             DEF BuyTokenReserve, TypeOK
<1>4. e2 * t2 = t2 * e2
  BY <1>1, <1>2, SMT
<1> QED
  BY <1>1, <1>2, <1>3, <1>4, ConstantFacts DEF PreviewTokens, TypeOK

\* A buy that does not cross leaves the curve strictly open and on ceil(k/t).
LEMMA OrdinaryBuyFacts ==
    ASSUME TypeOK, ReservesPathIndependent, OpenOrCalibrated, ~graduated,
           NEW v \in Nat, v > 0, ~Crosses(v)
    PROVE  /\ BuyEthReserve(v) < finalEthReserve
           /\ BuyEthReserve(v) = CeilDiv(k, BuyTokenReserve(v))
           /\ tokensSold + PreviewTokens(v) < curveTokenAllocation
<1> USE ConstructorRequires
<1> DEFINE e2 == BuyEthReserve(v)
           t2 == BuyTokenReserve(v)
<1>1. /\ e2 \in Nat /\ t2 \in Nat /\ e2 * t2 >= k /\ (t2 - 1) * e2 < k
      /\ e2 > 0
  BY PreviewBuyFacts DEF TypeOK
<1>2. PreviewTokens(v) < remaining
  BY PreviewBuyFacts, OpenFacts, ConstantFacts DEF Crosses, TypeOK
<1>3. finalTokenReserve <= t2 - 1
  BY <1>1, <1>2, OpenFacts, ConstantFacts DEF PreviewTokens, TypeOK
<1>4. e2 < finalEthReserve
  <2>1. SUFFICES ASSUME finalEthReserve <= e2 PROVE FALSE
    BY <1>1, ConstantFacts
  <2>2. finalEthReserve * finalTokenReserve <= e2 * finalTokenReserve
    BY <1>1, <2>1, ConstantFacts, MulMono
  <2>3. finalTokenReserve * e2 <= (t2 - 1) * e2
    BY <1>1, <1>3, ConstantFacts, MulMono
  <2>4. e2 * finalTokenReserve = finalTokenReserve * e2
    BY <1>1, ConstantFacts, SMT
  <2> QED BY <1>1, <2>2, <2>3, <2>4, ConstantFacts, SMT
<1>5. e2 = CeilDiv(k, t2)
  <2>1. e2 <= t2
    BY <1>1, <1>3, <1>4, ConstantFacts, Calibrated
  <2>2. (e2 - 1) * t2 = e2 * t2 - t2 /\ (t2 - 1) * e2 = e2 * t2 - e2
    BY <1>1, SMT
  <2>3. (e2 - 1) * t2 < k
    BY <1>1, <2>1, <2>2, ConstantFacts, SMT
  <2> QED BY <1>1, <1>3, <2>3, ConstantFacts, CeilDivUnique
<1>6. tokensSold + PreviewTokens(v) < curveTokenAllocation
  BY <1>2, PreviewBuyFacts DEF remaining, TypeOK
<1> QED BY <1>4, <1>5, <1>6

\* A crossing buy pays at least the ETH the final reserve still needs, so the
\* clamp cannot push the fee below zero.
LEMMA CrossingFacts ==
    ASSUME TypeOK, ReservesPathIndependent, OpenOrCalibrated, ~graduated,
           NEW v \in Nat, v > 0, Crosses(v)
    PROVE  /\ netNeeded <= v - Fee(v)
           /\ grossNeeded \in Nat /\ netNeeded <= grossNeeded
           /\ Charged(v) \in Nat /\ Charged(v) <= v /\ netNeeded <= Charged(v)
           /\ Charged(v) <= grossNeeded
           /\ grossNeeded <= v + 2
<1> USE ConstructorRequires
<1> DEFINE e2 == BuyEthReserve(v)
           t2 == BuyTokenReserve(v)
           n == netNeeded
           net == BPS - tradeFeeBps
           f == Fee(v)
<1>1. e2 \in Nat /\ t2 \in Nat /\ e2 * t2 >= k /\ PreviewTokens(v) \in Nat
  BY PreviewBuyFacts
<1>2. t2 <= finalTokenReserve
  BY <1>1, OpenFacts, ConstantFacts DEF Crosses, PreviewTokens, TypeOK
<1>3. finalEthReserve <= e2
  <2>1. t2 * e2 <= finalTokenReserve * e2
    BY <1>1, <1>2, ConstantFacts, MulMono
  <2>2. t2 * e2 = e2 * t2 /\ finalTokenReserve * e2 = e2 * finalTokenReserve
    BY <1>1, ConstantFacts, SMT
  <2>3. e2 * finalTokenReserve >= k
    BY <1>1, <2>1, <2>2, ConstantFacts, SMT
  <2> QED BY <1>1, <2>3, ConstantFacts, CeilDivLeast DEF finalEthReserve
<1>4. f \in Nat /\ n \in Nat /\ n <= v - f /\ net \in Nat /\ net > 0
  BY <1>1, <1>3, FeeFacts, OpenFacts, ConstantFacts
     DEF BuyEthReserve, netNeeded, TypeOK
<1>5. n * BPS \in Nat
  BY <1>4, SMT
<1>6. /\ grossNeeded \in Nat /\ grossNeeded * net >= n * BPS
      /\ (grossNeeded - 1) * net < n * BPS
  BY <1>4, <1>5, CeilDivBounds DEF grossNeeded
<1>7. n <= grossNeeded
  <2>1. n * net <= n * BPS
    BY <1>4, SMT
  <2>2. SUFFICES ASSUME grossNeeded < n PROVE FALSE
    BY <1>4, <1>6
  <2>3. grossNeeded * net < n * net
    BY <1>4, <1>6, <2>2, MulStrict
  <2> QED BY <1>4, <1>5, <1>6, <2>1, <2>3, SMT
<1>8. grossNeeded <= v + 2
  <2>1. v * tradeFeeBps \in Nat
    BY SMT
  <2>2. v * tradeFeeBps < f * BPS + BPS
    BY <2>1, DivBounds DEF Fee, BpsOf
  <2>3. n * BPS <= (v - f) * BPS
    BY <1>4, MulMono
  <2>4. SUFFICES ASSUME v + 2 <= grossNeeded - 1 PROVE FALSE
    BY <1>6
  <2>5. (v + 2) * net <= (grossNeeded - 1) * net
    BY <1>4, <1>6, <2>4, MulMono
  <2>6. (v + 2) * net = v * BPS - v * tradeFeeBps + 2 * BPS - 2 * tradeFeeBps
    BY SMT
  <2>7. (v - f) * BPS = v * BPS - f * BPS
    BY <1>4, SMT
  <2> QED
    BY <1>4, <1>5, <1>6, <2>1, <2>2, <2>3, <2>5, <2>6, <2>7, TradeFeeCapped, SMT
<1> QED
  BY <1>4, <1>6, <1>7, <1>8, FeeFacts DEF Charged, MinOf

LEMMA PreviewSellFacts ==
    ASSUME TypeOK, ReservesPathIndependent, OpenOrCalibrated, ~graduated,
           NEW x \in Nat, x <= tokensSold
    PROVE  /\ SellEthReserve(x) \in Nat
           /\ virtualEthReserve <= SellEthReserve(x)
           /\ SellEthReserve(x) <= ethReserve
           /\ GrossEthOut(x) \in Nat /\ EthOut(x) \in Nat
           /\ EthOut(x) + Fee(GrossEthOut(x)) = GrossEthOut(x)
<1> USE ConstructorRequires
<1> DEFINE e2 == SellEthReserve(x)
           t2 == tokenReserve + x
<1>1. t2 \in Nat /\ t2 > 0 /\ t2 <= virtualTokenReserve
  BY OpenFacts DEF TypeOK, ReservesPathIndependent
<1>2. e2 \in Nat /\ e2 * t2 >= k
  BY <1>1, ConstantFacts, CeilDivBounds DEF SellEthReserve, EthReserveAt
<1>3. virtualEthReserve <= e2
  <2>1. virtualEthReserve * t2 <= virtualEthReserve * virtualTokenReserve
    BY <1>1, SMT
  <2>2. SUFFICES ASSUME e2 < virtualEthReserve PROVE FALSE
    BY <1>2
  <2>3. e2 * t2 < virtualEthReserve * t2
    BY <1>1, <1>2, <2>2, MulStrict
  <2> QED BY <1>1, <1>2, <2>1, <2>3, SMT DEF k
<1>4. e2 <= ethReserve
  <2>1. ethReserve * tokenReserve <= ethReserve * t2
    BY <1>1, SMT DEF TypeOK
  <2>2. ethReserve * t2 >= k
    BY <1>1, <2>1, OpenFacts, ConstantFacts, SMT DEF TypeOK
  <2> QED BY <1>1, <2>2, ConstantFacts, CeilDivLeast DEF SellEthReserve, EthReserveAt, TypeOK
<1> QED
  BY <1>2, <1>3, <1>4, FeeFacts DEF GrossEthOut, EthOut, TypeOK

----------------------------------------------------------------------------
(* Inv is inductive. *)

LEMMA InitInv == Init => Inv
<1> SUFFICES ASSUME Init PROVE Inv
  OBVIOUS
<1> USE ConstructorRequires, AccountsDistinct
<1>1. TypeOK
  BY DEF Init, initialTokens, TypeOK, Accounts
<1>2. ReservesPathIndependent
  BY ConstantFacts DEF Init, ReservesPathIndependent
<1>3. OpenOrCalibrated
  BY ConstantFacts DEF Init, OpenOrCalibrated
<1>4. Backed
  BY DEF Init, Backed, Accounts
<1>5. TallyWithinCap
  BY DEF Init, TallyWithinCap
<1> QED BY <1>1, <1>2, <1>3, <1>4, <1>5 DEF Inv

LEMMA TallyFacts ==
    ASSUME TypeOK, TallyWithinCap, NEW w \in Wallets, NEW n \in Nat,
           WithinBuyCap(w, n), purchasedOf' = Tally(w, n)
    PROVE  purchasedOf' \in [Wallets -> Nat] /\ TallyWithinCap'
  BY DEF TypeOK, TallyWithinCap, WithinBuyCap, Tally

LEMMA BuyInv ==
    ASSUME Inv, NEW w \in Wallets, NEW v \in Nat, NEW m \in Nat, Buy(w, v, m)
    PROVE  Inv'
<1> USE ConstructorRequires, AccountsDistinct
<1>0. /\ TypeOK /\ ReservesPathIndependent /\ OpenOrCalibrated /\ Backed
      /\ TallyWithinCap /\ ~graduated /\ v > 0 /\ ~Crosses(v)
  BY DEF Inv, Buy
<1>1. /\ BuyEthReserve(v) \in Nat /\ BuyTokenReserve(v) \in Nat
      /\ PreviewTokens(v) \in Nat /\ Fee(v) \in Nat /\ Fee(v) <= v
      /\ ethReserve < BuyEthReserve(v)
  BY <1>0, PreviewBuyFacts, FeeFacts
<1>2. /\ BuyEthReserve(v) < finalEthReserve
      /\ BuyEthReserve(v) = CeilDiv(k, BuyTokenReserve(v))
      /\ tokensSold + PreviewTokens(v) < curveTokenAllocation
  BY <1>0, OrdinaryBuyFacts
<1>3. purchasedOf' \in [Wallets -> Nat] /\ TallyWithinCap'
  BY <1>0, <1>1, TallyFacts DEF Buy
<1>4. eth' \in [Accounts -> Nat] /\ tok' \in [Wallets \cup {curve} -> Nat]
  BY <1>0, <1>1 DEF Buy, TypeOK, Accounts
<1>5. TypeOK'
  BY <1>0, <1>1, <1>3, <1>4 DEF Buy, TypeOK
<1>6. ReservesPathIndependent'
  <2>1. tokenReserve' + tokensSold' = virtualTokenReserve
    BY <1>0, <1>1 DEF Buy, ReservesPathIndependent, PreviewTokens, TypeOK
  <2>2. ethReserve' = CeilDiv(k, tokenReserve')
    BY <1>2 DEF Buy
  <2> QED BY <2>1, <2>2 DEF ReservesPathIndependent, k
<1>7. OpenOrCalibrated'
  BY <1>0, <1>1, <1>2, ConstantFacts
     DEF Buy, OpenOrCalibrated, TypeOK, finalEthReserve, finalTokenReserve, k
<1>8. Backed'
  <2>1. eth'[curve] = eth[curve] + (v - Fee(v))
    BY <1>0, <1>1 DEF Buy, TypeOK, Accounts
  <2> QED BY <1>0, <1>1, <2>1 DEF Buy, Backed, TypeOK, BuyEthReserve, Accounts
<1> QED BY <1>3, <1>5, <1>6, <1>7, <1>8 DEF Inv

LEMMA CrossingBuyInv ==
    ASSUME Inv, NEW w \in Wallets, NEW v \in Nat, NEW m \in Nat,
           CrossingBuy(w, v, m)
    PROVE  Inv'
<1> USE ConstructorRequires, AccountsDistinct
<1>0. /\ TypeOK /\ ReservesPathIndependent /\ OpenOrCalibrated /\ Backed
      /\ TallyWithinCap /\ ~graduated /\ v > 0 /\ Crosses(v)
  BY DEF Inv, CrossingBuy
<1> DEFINE c == Charged(v)
           fee == c - netNeeded
           refund == v - c
<1>1. /\ c \in Nat /\ netNeeded \in Nat /\ fee \in Nat /\ refund \in Nat
      /\ remaining \in Nat /\ raise \in Nat /\ refund <= v
  BY <1>0, CrossingFacts, OpenFacts, ConstantFacts DEF TypeOK
<1>2. /\ eth' = [eth EXCEPT ![w] = @ - v + refund, ![treasury] = @ + fee,
                            ![curve] = @ + (v - fee - refund) - raise,
                            ![graduationManager] = @ + raise]
      /\ tok' = [tok EXCEPT ![w] = @ + remaining, ![curve] = @ - remaining]
      /\ v <= eth[w] /\ remaining <= tok[curve]
      /\ raise <= eth[curve] + (v - fee - refund)
  BY DEF CrossingBuy
<1>3. v - fee - refund = netNeeded
  BY <1>1
<1> HIDE DEF fee, refund, c
<1>4. purchasedOf' \in [Wallets -> Nat] /\ TallyWithinCap'
  BY <1>0, <1>1, TallyFacts DEF CrossingBuy
<1>5. eth' \in [Accounts -> Nat] /\ tok' \in [Wallets \cup {curve} -> Nat]
  BY <1>0, <1>1, <1>2, <1>3 DEF TypeOK, Accounts
<1>6. TypeOK'
  BY <1>0, <1>4, <1>5, ConstantFacts DEF CrossingBuy, TypeOK
<1>7. ReservesPathIndependent'
  <2>1. tokenReserve' + tokensSold' = virtualTokenReserve
    BY DEF CrossingBuy, finalTokenReserve
  <2>2. ethReserve' = CeilDiv(k, tokenReserve')
    BY DEF CrossingBuy, finalEthReserve
  <2> QED BY <2>1, <2>2 DEF ReservesPathIndependent, k
<1>8. OpenOrCalibrated'
  BY DEF CrossingBuy, OpenOrCalibrated, finalEthReserve, finalTokenReserve, k
<1>9. Backed'
  <2>1. eth'[curve] = eth[curve] + netNeeded - raise
    BY <1>0, <1>1, <1>2, <1>3 DEF TypeOK, Accounts
  <2>2. eth[curve] = strayEth + (ethReserve - virtualEthReserve)
    BY <1>0 DEF Backed
  <2>3. eth'[curve] = strayEth
    BY <1>0, <2>1, <2>2, ConstantFacts DEF raise, netNeeded, TypeOK
  <2>4. graduated' /\ strayEth' = strayEth
    BY DEF CrossingBuy
  <2> QED BY <1>0, <2>3, <2>4 DEF Backed, TypeOK
<1> QED BY <1>4, <1>6, <1>7, <1>8, <1>9 DEF Inv

LEMMA SellInv ==
    ASSUME Inv, NEW w \in Wallets, NEW x \in Nat, NEW m \in Nat, Sell(w, x, m)
    PROVE  Inv'
<1> USE ConstructorRequires, AccountsDistinct
<1>0. /\ TypeOK /\ ReservesPathIndependent /\ OpenOrCalibrated /\ Backed
      /\ TallyWithinCap /\ ~graduated /\ x > 0 /\ x <= tokensSold
  BY DEF Inv, Sell
<1> DEFINE fee == Fee(GrossEthOut(x))
<1>1. /\ SellEthReserve(x) \in Nat /\ SellEthReserve(x) <= ethReserve
      /\ virtualEthReserve <= SellEthReserve(x)
      /\ GrossEthOut(x) \in Nat /\ EthOut(x) \in Nat /\ fee \in Nat
  BY <1>0, PreviewSellFacts, FeeFacts
<1>2. /\ eth' = [eth EXCEPT ![w] = @ + EthOut(x), ![treasury] = @ + fee,
                            ![curve] = @ - GrossEthOut(x)]
      /\ GrossEthOut(x) <= eth[curve]
      /\ tok' = [tok EXCEPT ![w] = @ - x, ![curve] = @ + x] /\ x <= tok[w]
  BY DEF Sell
<1> HIDE DEF fee
<1>3. eth' \in [Accounts -> Nat] /\ tok' \in [Wallets \cup {curve} -> Nat]
  BY <1>0, <1>1, <1>2 DEF TypeOK, Accounts
<1>4. TypeOK'
  BY <1>0, <1>1, <1>3 DEF Sell, TypeOK
<1>5. ReservesPathIndependent'
  <2>1. tokenReserve' + tokensSold' = virtualTokenReserve
    BY <1>0 DEF Sell, ReservesPathIndependent, TypeOK
  <2>2. ethReserve' = CeilDiv(k, tokenReserve')
    BY DEF Sell, SellEthReserve, EthReserveAt
  <2> QED BY <2>1, <2>2 DEF ReservesPathIndependent, k
<1>6. OpenOrCalibrated'
  BY <1>0, <1>1, ConstantFacts
     DEF Sell, OpenOrCalibrated, TypeOK, finalEthReserve, finalTokenReserve, k
<1>7. Backed'
  <2>1. eth'[curve] = eth[curve] - GrossEthOut(x)
    BY <1>0, <1>1, <1>2 DEF TypeOK, Accounts
  <2> QED BY <1>0, <1>1, <2>1 DEF Sell, Backed, TypeOK, GrossEthOut, Accounts
<1>8. TallyWithinCap'
  BY <1>0 DEF Sell, TallyWithinCap
<1> QED BY <1>4, <1>5, <1>6, <1>7, <1>8 DEF Inv

LEMMA TransferInv ==
    ASSUME Inv, NEW w \in Wallets, NEW to \in Wallets \cup {curve},
           NEW x \in Nat, Transfer(w, to, x)
    PROVE  Inv'
<1> USE ConstructorRequires, AccountsDistinct
<1>1. TypeOK'
  BY DEF Inv, Transfer, TypeOK, curveVars
<1>2. ReservesPathIndependent' /\ OpenOrCalibrated' /\ TallyWithinCap'
  BY DEF Inv, Transfer, curveVars, ReservesPathIndependent, OpenOrCalibrated,
         TallyWithinCap, k, finalEthReserve, finalTokenReserve
<1>3. Backed'
  BY DEF Inv, Transfer, curveVars, Backed
<1> QED BY <1>1, <1>2, <1>3 DEF Inv

LEMMA ForceEthInv ==
    ASSUME Inv, NEW w \in Wallets, NEW x \in Nat, ForceEth(w, x)
    PROVE  Inv'
<1> USE ConstructorRequires, AccountsDistinct
<1>0. TypeOK /\ Backed
  BY DEF Inv
<1>1. eth' \in [Accounts -> Nat] /\ eth'[curve] = eth[curve] + x
  BY <1>0 DEF ForceEth, TypeOK, Accounts
<1>2. TypeOK'
  BY <1>0, <1>1 DEF ForceEth, TypeOK, curveVars
<1>3. ReservesPathIndependent' /\ OpenOrCalibrated' /\ TallyWithinCap'
  BY DEF Inv, ForceEth, curveVars, ReservesPathIndependent, OpenOrCalibrated,
         TallyWithinCap, k, finalEthReserve, finalTokenReserve
<1>4. Backed'
  BY <1>0, <1>1 DEF ForceEth, curveVars, Backed, TypeOK, Accounts
<1> QED BY <1>2, <1>3, <1>4 DEF Inv

LEMMA NextInv == Inv /\ [Next]_vars => Inv'
<1> SUFFICES ASSUME Inv, [Next]_vars PROVE Inv'
  OBVIOUS
<1> USE AccountsDistinct
<1>1. CASE Next
  <2>1. PICK w \in Wallets :
          \/ \E v \in 1..eth[w], m \in MinOuts : Buy(w, v, m)
          \/ \E v \in 1..eth[w], m \in MinOuts : CrossingBuy(w, v, m)
          \/ \E x \in 1..tok[w], m \in MinOuts : Sell(w, x, m)
          \/ \E x \in 1..tok[w], to \in Wallets \cup {curve} : Transfer(w, to, x)
          \/ \E x \in 1..eth[w] : ForceEth(w, x)
    BY <1>1 DEF Next
  <2>2. eth[w] \in Nat /\ tok[w] \in Nat
    BY DEF Inv, TypeOK, Accounts
  <2>3. \A i \in Nat : 1..i \subseteq Nat
    OBVIOUS
  <2> QED
    BY <2>1, <2>2, <2>3, BuyInv, CrossingBuyInv, SellInv, TransferInv,
       ForceEthInv
<1>2. CASE UNCHANGED vars
  BY <1>2 DEF vars, curveVars, Inv, TypeOK, ReservesPathIndependent,
     OpenOrCalibrated, Backed, TallyWithinCap, k, finalEthReserve,
     finalTokenReserve
<1> QED BY <1>1, <1>2

LEMMA SpecInv == Spec => []Inv
  BY InitInv, NextInv, PTL DEF Spec

----------------------------------------------------------------------------
(* The tokens in circulation. *)

Circulating == SumFunctionOnSet(tok, Wallets)

\* x tokens move from one ledger entry to another.
LEMMA CirculatingAfterMove ==
    ASSUME TypeOK, NEW a \in Wallets \cup {curve}, NEW b \in Wallets \cup {curve}, a # b,
           NEW x \in Nat, x <= tok[a],
           tok' = [tok EXCEPT ![a] = @ - x, ![b] = @ + x]
    PROVE  /\ Circulating \in Nat
           /\ Circulating' = Circulating - (IF a \in Wallets THEN x ELSE 0)
                                         + (IF b \in Wallets THEN x ELSE 0)
<1>1. PICK D : D = Wallets \cup {curve}
  OBVIOUS
<1>2. /\ tok \in [D -> Nat] /\ Wallets \subseteq D /\ a \in D /\ b \in D
      /\ IsFiniteSet(Wallets)
  BY <1>1, WalletsFinite DEF TypeOK
<1>3. PICK t, u : t = tok /\ u = tok'
  OBVIOUS
<1>4. /\ SumFunctionOnSet(t, Wallets) \in Nat
      /\ SumFunctionOnSet(u, Wallets)
           = SumFunctionOnSet(t, Wallets) - (IF a \in Wallets THEN x ELSE 0)
                                          + (IF b \in Wallets THEN x ELSE 0)
  <2>1. Moved(u, t, D, Wallets, a, b, x)
    BY <1>2, <1>3 DEF Moved
  <2> QED BY <1>2, <2>1, SumAfterMove
<1> QED BY <1>3, <1>4 DEF Circulating

\* The tokens a buyer receives, written in the order of buy.
LEMMA CirculatingAfterBuy ==
    ASSUME TypeOK, NEW w \in Wallets, NEW n \in Nat, n <= tok[curve],
           tok' = [tok EXCEPT ![w] = @ + n, ![curve] = @ - n]
    PROVE  Circulating' = Circulating + n /\ Circulating \in Nat
<1>1. w # curve /\ curve \notin Wallets
  BY AccountsDistinct
<1>2. tok' = [tok EXCEPT ![curve] = @ - n, ![w] = @ + n]
  BY <1>1 DEF TypeOK
<1>3. curve \in Wallets \cup {curve} /\ w \in Wallets \cup {curve}
  OBVIOUS
<1>4. /\ Circulating \in Nat
      /\ Circulating' = Circulating - (IF curve \in Wallets THEN n ELSE 0)
                                    + (IF w \in Wallets THEN n ELSE 0)
  BY <1>1, <1>2, <1>3, CirculatingAfterMove, Zenon
<1> QED BY <1>1, <1>4

SoldInv == Circulating <= tokensSold

LEMMA InitSoldInv == Init => SoldInv
<1> SUFFICES ASSUME Init PROVE SoldInv
  OBVIOUS
<1>1. \A w \in Wallets : tok[w] = 0
  BY AccountsDistinct DEF Init, initialTokens
<1>2. Circulating = 0 /\ tokensSold = 0
  BY <1>1, WalletsFinite, SumOfZeros DEF Init, Circulating
<1> QED BY <1>2 DEF SoldInv

LEMMA NextSoldInv == Inv /\ SoldInv /\ [Next]_vars => SoldInv'
<1> SUFFICES ASSUME Inv, SoldInv, [Next]_vars PROVE SoldInv'
  OBVIOUS
<1>0. TypeOK /\ tokensSold \in Nat /\ curve \notin Wallets
  BY AccountsDistinct DEF Inv, TypeOK
<1>1. ASSUME NEW w \in Wallets, NEW v \in Nat, NEW m, Buy(w, v, m) PROVE SoldInv'
  <2>1. PreviewTokens(v) \in Nat
    BY <1>1, PreviewBuyFacts DEF Inv, Buy
  <2>2. /\ tok' = [tok EXCEPT ![w] = @ + PreviewTokens(v), ![curve] = @ - PreviewTokens(v)]
        /\ PreviewTokens(v) <= tok[curve] /\ tokensSold' = tokensSold + PreviewTokens(v)
    BY <1>1 DEF Buy
  <2>3. Circulating' = Circulating + PreviewTokens(v) /\ Circulating \in Nat
    BY <1>0, <2>1, <2>2, CirculatingAfterBuy
  <2> QED BY <1>0, <2>1, <2>2, <2>3 DEF SoldInv
<1>2. ASSUME NEW w \in Wallets, NEW v \in Nat, NEW m, CrossingBuy(w, v, m) PROVE SoldInv'
  <2>1. remaining \in Nat /\ curveTokenAllocation = tokensSold + remaining
    BY <1>2, ConstructorRequires DEF Inv, TypeOK, OpenOrCalibrated, CrossingBuy, remaining
  <2>2. /\ tok' = [tok EXCEPT ![w] = @ + remaining, ![curve] = @ - remaining]
        /\ remaining <= tok[curve] /\ tokensSold' = curveTokenAllocation
    BY <1>2 DEF CrossingBuy
  <2>3. Circulating' = Circulating + remaining /\ Circulating \in Nat
    BY <1>0, <2>1, <2>2, CirculatingAfterBuy
  <2> QED BY <1>0, <2>1, <2>2, <2>3 DEF SoldInv
<1>3. ASSUME NEW w \in Wallets, NEW x \in Nat, NEW m, Sell(w, x, m) PROVE SoldInv'
  <2>1. /\ tok' = [tok EXCEPT ![w] = @ - x, ![curve] = @ + x] /\ x <= tok[w]
        /\ tokensSold' = tokensSold - x
    BY <1>3 DEF Sell
  <2>2. w \in Wallets \cup {curve} /\ curve \in Wallets \cup {curve} /\ w # curve
    BY <1>0
  <2>3. /\ Circulating \in Nat
        /\ Circulating' = Circulating - (IF w \in Wallets THEN x ELSE 0)
                                      + (IF curve \in Wallets THEN x ELSE 0)
    BY <1>0, <2>1, <2>2, CirculatingAfterMove, Zenon
  <2> QED BY <1>0, <2>1, <2>3 DEF SoldInv
<1>4. ASSUME NEW w \in Wallets, NEW to \in Wallets \cup {curve}, NEW x \in Nat,
             Transfer(w, to, x)
      PROVE  SoldInv'
  <2>1. /\ tok' = [tok EXCEPT ![w] = @ - x, ![to] = @ + x] /\ x <= tok[w] /\ to # w
        /\ tokensSold' = tokensSold
    BY <1>4 DEF Transfer, curveVars
  <2>2. w \in Wallets \cup {curve} /\ w # to
    BY <2>1
  <2>3. /\ Circulating \in Nat
        /\ Circulating' = Circulating - (IF w \in Wallets THEN x ELSE 0)
                                      + (IF to \in Wallets THEN x ELSE 0)
    BY <1>0, <2>1, <2>2, CirculatingAfterMove, Zenon
  <2> QED BY <1>0, <2>1, <2>3 DEF SoldInv
<1>5. ASSUME tok' = tok, tokensSold' = tokensSold PROVE SoldInv'
  BY <1>5 DEF SoldInv, Circulating
<1>6. CASE Next
  <2>1. PICK w \in Wallets :
          \/ \E v \in 1..eth[w], m \in MinOuts : Buy(w, v, m)
          \/ \E v \in 1..eth[w], m \in MinOuts : CrossingBuy(w, v, m)
          \/ \E x \in 1..tok[w], m \in MinOuts : Sell(w, x, m)
          \/ \E x \in 1..tok[w], to \in Wallets \cup {curve} : Transfer(w, to, x)
          \/ \E x \in 1..eth[w] : ForceEth(w, x)
    BY <1>6 DEF Next
  <2>2. eth[w] \in Nat /\ tok[w] \in Nat
    BY DEF Inv, TypeOK, Accounts
  <2>3. \A i \in Nat : 1..i \subseteq Nat
    OBVIOUS
  <2>4. ASSUME NEW x, ForceEth(w, x) PROVE SoldInv'
    BY <1>5, <2>4 DEF ForceEth, curveVars
  <2> QED BY <1>1, <1>2, <1>3, <1>4, <2>1, <2>2, <2>3, <2>4
<1>7. CASE UNCHANGED vars
  BY <1>5, <1>7 DEF vars, curveVars
<1> QED BY <1>6, <1>7

----------------------------------------------------------------------------
(* The theorems. *)

\* Every variable keeps its type; in particular no balance, reserve or
\* checked subtraction of buy and sell ever goes below zero.
THEOREM TypeCorrect == Spec => []TypeOK
  BY SpecInv, PTL DEF Inv

\* The ETH reserve is exactly ceil(k / tokenReserve) in every reachable
\* state: the order and the sizes of the trades leave no trace in it.
THEOREM PathIndependence == Spec => []ReservesPathIndependent
  BY SpecInv, PTL DEF Inv

\* A curve is open and strictly short of its target, or graduated with
\* exactly the calibrated reserves.
THEOREM OpenXorCalibrated == Spec => []OpenOrCalibrated
  BY SpecInv, PTL DEF Inv

\* The curve's ETH balance backs its reserve to the wei.
THEOREM ExactBacking == Spec => []Backed
  BY SpecInv, PTL DEF Inv

\* The anti-snipe tally never exceeds the cap.
THEOREM CapRespected == Spec => []TallyWithinCap
  BY SpecInv, PTL DEF Inv

\* The launch tokens in the wallets are never more than the curve has sold, so
\* the checked tokensSold -= amount of sell (BondingCurve.sol) never underflows,
\* however the tokens change hands in between.
THEOREM SoldTokensCirculate == Spec => []OnlySoldTokensCirculate
<1>1. SoldInv => OnlySoldTokensCirculate
  BY DEF SoldInv, Circulating, OnlySoldTokensCirculate
<1> QED BY <1>1, SpecInv, InitSoldInv, NextSoldInv, InitInv, NextInv, PTL DEF Spec

\* All outstanding tokens, or any part of them, can always be sold back.
THEOREM ExitAlwaysPayable == Spec => []EveryoneCanExit
<1>1. Inv => EveryoneCanExit
  <2> SUFFICES ASSUME Inv, ~graduated, NEW x \in 1..tokensSold
               PROVE  /\ 0 <= GrossEthOut(x) /\ GrossEthOut(x) <= eth[curve]
                      /\ Fee(GrossEthOut(x)) <= GrossEthOut(x)
    BY DEF EveryoneCanExit
  <2>1. x \in Nat /\ x <= tokensSold
    BY DEF Inv, TypeOK
  <2>2. /\ SellEthReserve(x) \in Nat /\ virtualEthReserve <= SellEthReserve(x)
        /\ GrossEthOut(x) \in Nat
    BY <2>1, PreviewSellFacts DEF Inv
  <2>3. GrossEthOut(x) <= eth[curve]
    BY <2>2, ConstructorRequires DEF Inv, Backed, TypeOK, GrossEthOut
  <2> QED BY <2>2, <2>3, FeeFacts
<1> QED BY <1>1, SpecInv, PTL

\* The crossing buy never underflows, whatever was sent and whatever the
\* trade fee below one half, and the clamp costs at most two wei.
THEOREM CrossingIsSafe == Spec => []CrossingNeverUnderflows
<1>1. Inv => CrossingNeverUnderflows
  <2> SUFFICES ASSUME Inv, ~graduated, NEW w \in Wallets, NEW v \in 1..eth[w],
                      Crosses(v)
               PROVE  /\ 0 <= netNeeded /\ netNeeded <= Charged(v)
                      /\ Charged(v) <= v /\ grossNeeded <= v + 2
    BY DEF CrossingNeverUnderflows
  <2>1. v \in Nat /\ v > 0
    BY DEF Inv, TypeOK, Accounts
  <2> QED BY <2>1, CrossingFacts, OpenFacts DEF Inv
<1> QED BY <1>1, SpecInv, PTL

\* No ordinary buy rounds to zero tokens or overruns the allocation.
THEOREM DustIsNotLost == Spec => []DustBuysTokens
<1>1. Inv => DustBuysTokens
  <2> SUFFICES ASSUME Inv, ~graduated, NEW w \in Wallets, NEW v \in 1..eth[w],
                      ~Crosses(v)
               PROVE  /\ 0 < PreviewTokens(v)
                      /\ tokensSold + PreviewTokens(v) < curveTokenAllocation
    BY DEF DustBuysTokens
  <2>1. v \in Nat /\ v > 0
    BY DEF Inv, TypeOK, Accounts
  <2> QED BY <2>1, PreviewBuyFacts, OrdinaryBuyFacts DEF Inv
<1> QED BY <1>1, SpecInv, PTL

\* Buying and selling straight back returns at most what was paid net of the
\* fee, in every reachable state and for every size.
THEOREM RoundTripNeverProfits == Spec => []NoRoundTripProfit
<1>1. Inv => NoRoundTripProfit
  <2> SUFFICES ASSUME Inv, ~graduated, NEW w \in Wallets, NEW v \in 1..eth[w],
                      ~Crosses(v)
               PROVE  BuyEthReserve(v)
                        - EthReserveAt(BuyTokenReserve(v) + PreviewTokens(v))
                      <= v - Fee(v)
    BY DEF NoRoundTripProfit
  <2>1. v \in Nat /\ v > 0
    BY DEF Inv, TypeOK, Accounts
  <2>2. /\ BuyTokenReserve(v) + PreviewTokens(v) = tokenReserve
        /\ BuyEthReserve(v) = ethReserve + (v - Fee(v))
        /\ ethReserve = CeilDiv(k, tokenReserve)
    BY <2>1, PreviewBuyFacts
       DEF PreviewTokens, BuyEthReserve, Inv, TypeOK, ReservesPathIndependent
  <2>3. Fee(v) \in Nat /\ ethReserve \in Nat
    BY <2>1, FeeFacts DEF Inv, TypeOK
  <2> QED BY <2>1, <2>2, <2>3 DEF EthReserveAt
<1> QED BY <1>1, SpecInv, PTL

\* Every buy that starts inside the window is tallied in full, and no step
\* ever lowers a tally.
THEOREM WindowAccounting == Spec => WindowBuysAreTallied
<1>1. ASSUME Inv, NEW w \in Wallets, NEW n \in Nat,
             purchasedOf' = Tally(w, n), tokensSold' - tokensSold = n,
             tokensSold' \in Nat
      PROVE  WindowBuyStep
  <2>1. CASE buyCapActive
    <3>1. /\ purchasedOf'[w] = purchasedOf[w] + n
          /\ \A u \in Wallets : purchasedOf'[u] >= purchasedOf[u]
      BY <1>1, <2>1 DEF Tally, Inv, TypeOK
    <3>2. purchasedOf[w] \in Nat
      BY <1>1 DEF Inv, TypeOK
    <3> QED BY <1>1, <3>1, <3>2 DEF WindowBuyStep
  <2>2. CASE ~buyCapActive
    BY <1>1, <2>2 DEF Tally, Inv, TypeOK, WindowBuyStep
  <2> QED BY <2>1, <2>2
<1>2. ASSUME Inv, UNCHANGED purchasedOf, tokensSold' <= tokensSold,
             tokensSold' \in Nat
      PROVE  WindowBuyStep
  BY <1>2 DEF Inv, TypeOK, WindowBuyStep
<1>3. Inv /\ Inv' /\ [Next]_vars => [WindowBuyStep]_vars
  <2> SUFFICES ASSUME Inv, Inv', Next PROVE WindowBuyStep
    BY DEF WindowBuyStep, vars, curveVars, Inv, TypeOK
  <2>0. tokensSold' \in Nat /\ tokensSold \in Nat
    BY DEF Inv, TypeOK
  <2>1. PICK w \in Wallets :
          \/ \E v \in 1..eth[w], m \in MinOuts : Buy(w, v, m)
          \/ \E v \in 1..eth[w], m \in MinOuts : CrossingBuy(w, v, m)
          \/ \E x \in 1..tok[w], m \in MinOuts : Sell(w, x, m)
          \/ \E x \in 1..tok[w], to \in Wallets \cup {curve} : Transfer(w, to, x)
          \/ \E x \in 1..eth[w] : ForceEth(w, x)
    BY DEF Next
  <2>2. eth[w] \in Nat /\ tok[w] \in Nat
    BY DEF Inv, TypeOK, Accounts
  <2>3. ASSUME NEW v \in 1..eth[w], NEW m \in MinOuts, Buy(w, v, m) PROVE WindowBuyStep
    <3>1. v \in Nat /\ v > 0
      BY <2>2
    <3>2. PreviewTokens(v) \in Nat
      BY <2>3, <3>1, PreviewBuyFacts DEF Buy, Inv
    <3>3. /\ purchasedOf' = Tally(w, PreviewTokens(v))
          /\ tokensSold' = tokensSold + PreviewTokens(v)
      BY <2>3 DEF Buy
    <3> QED BY <2>0, <3>2, <3>3, <1>1
  <2>4. ASSUME NEW v \in 1..eth[w], NEW m \in MinOuts, CrossingBuy(w, v, m)
        PROVE  WindowBuyStep
    <3>1. remaining \in Nat /\ curveTokenAllocation = tokensSold + remaining
      BY <2>0, <2>4, OpenFacts, ConstantFacts, ConstructorRequires
         DEF CrossingBuy, Inv, TypeOK, remaining
    <3>2. /\ purchasedOf' = Tally(w, remaining)
          /\ tokensSold' = curveTokenAllocation
      BY <2>4 DEF CrossingBuy
    <3> QED BY <2>0, <3>1, <3>2, <1>1
  <2>5. ASSUME NEW x \in 1..tok[w], NEW m \in MinOuts, Sell(w, x, m) PROVE WindowBuyStep
    <3>1. UNCHANGED purchasedOf /\ tokensSold' = tokensSold - x /\ x \in Nat
      BY <2>2, <2>5 DEF Sell
    <3> QED BY <2>0, <3>1, <1>2
  <2>6. ASSUME UNCHANGED curveVars PROVE WindowBuyStep
    BY <2>0, <2>6, <1>2 DEF curveVars
  <2> QED BY <2>1, <2>3, <2>4, <2>5, <2>6 DEF Transfer, ForceEth
<1> QED BY <1>3, SpecInv, PTL DEF Spec, WindowBuysAreTallied

LEMMA GraduationStepHolds == Inv /\ [Next]_vars => [GraduationStep]_vars
<1> DEFINE gm == graduationManager
<1> USE AccountsDistinct
<1> SUFFICES ASSUME Inv, Next PROVE GraduationStep
  BY DEF GraduationStep, vars, Inv, TypeOK, Accounts
<1>1. PICK w \in Wallets :
        \/ \E v \in 1..eth[w], m \in MinOuts : Buy(w, v, m)
        \/ \E v \in 1..eth[w], m \in MinOuts : CrossingBuy(w, v, m)
        \/ \E x \in 1..tok[w], m \in MinOuts : Sell(w, x, m)
        \/ \E x \in 1..tok[w], to \in Wallets \cup {curve} : Transfer(w, to, x)
        \/ \E x \in 1..eth[w] : ForceEth(w, x)
  BY DEF Next
<1>2. eth \in [Accounts -> Nat] /\ gm # w /\ gm \in Accounts /\ w \in Accounts
  BY DEF Inv, TypeOK, Accounts
<1>3. ASSUME NEW v, NEW m, Buy(w, v, m) PROVE GraduationStep
  BY <1>2, <1>3 DEF Buy, GraduationStep
<1>4. ASSUME NEW v \in 1..eth[w], NEW m, CrossingBuy(w, v, m)
      PROVE  GraduationStep
  <2>0. v \in Nat /\ v > 0
    BY <1>2
  <2>1. eth'[gm] = eth[gm] + raise
    BY <1>2, <1>4 DEF CrossingBuy, Accounts
  <2>2. eth[gm] \in Nat /\ raise \in Nat
    BY <1>2, ConstantFacts
  <2>3. Charged(v) \in Nat /\ Charged(v) <= grossNeeded /\ grossNeeded \in Nat
    BY <1>4, <2>0, CrossingFacts DEF CrossingBuy, Inv
  <2>4. eth'[w] = eth[w] - v + (v - Charged(v))
    BY <1>2, <1>4 DEF CrossingBuy, Accounts
  <2>5. \A u \in Wallets \ {w} : eth'[u] = eth[u]
    BY <1>2, <1>4 DEF CrossingBuy, Accounts
  <2>6. \A u \in Wallets : eth[u] - eth'[u] <= grossNeeded
    <3> SUFFICES ASSUME NEW u \in Wallets
                 PROVE  eth[u] - eth'[u] <= grossNeeded
      OBVIOUS
    <3>1. eth[u] \in Nat /\ eth[w] \in Nat
      BY <1>2 DEF Accounts
    <3>2. CASE u = w
      BY <2>0, <2>3, <2>4, <3>1, <3>2
    <3>3. CASE u # w
      BY <2>3, <2>5, <3>1, <3>3
    <3> QED BY <3>2, <3>3
  <2>7. eth'[gm] - eth[gm] = finalEthReserve - virtualEthReserve
    BY <2>1, <2>2 DEF raise
  <2>8. ~graduated /\ graduated'
    BY <1>4 DEF CrossingBuy
  <2> QED BY <2>6, <2>7, <2>8 DEF GraduationStep
<1>5. ASSUME NEW x, NEW m, Sell(w, x, m) PROVE GraduationStep
  BY <1>2, <1>5 DEF Sell, GraduationStep
<1>6. ASSUME NEW to, NEW x, Transfer(w, to, x) PROVE GraduationStep
  BY <1>2, <1>6 DEF Transfer, curveVars, GraduationStep
<1>7. ASSUME NEW x, ForceEth(w, x) PROVE GraduationStep
  BY <1>2, <1>7 DEF ForceEth, curveVars, GraduationStep
<1> QED BY <1>1, <1>3, <1>4, <1>5, <1>6, <1>7

\* The raise leaves the curve exactly once, in the step that graduates it,
\* and nothing the curve stores changes afterwards.
THEOREM GraduationIsFinal == Spec => GraduatesOnceWithTheRaise
  BY GraduationStepHolds, SpecInv, PTL DEF Spec, GraduatesOnceWithTheRaise

----------------------------------------------------------------------------
(* The curve implements CurvePromise. *)

ManagerUnpaid == ~graduated => eth[graduationManager] = 0

LEMMA ManagerUnpaidInv == Spec => []ManagerUnpaid
<1> USE AccountsDistinct
<1>1. Init => ManagerUnpaid
  BY DEF Init, ManagerUnpaid, Accounts
<1>2. Inv /\ Inv' /\ ManagerUnpaid /\ [Next]_vars => ManagerUnpaid'
  <2> SUFFICES ASSUME Inv, Inv', ManagerUnpaid, [Next]_vars, ~graduated'
               PROVE  eth'[graduationManager] = 0
    BY DEF ManagerUnpaid
  <2>1. eth[graduationManager] \in Nat /\ eth'[graduationManager] \in Nat
    BY DEF Inv, TypeOK, Accounts
  <2>2. [GraduationStep]_vars
    BY GraduationStepHolds
  <2>3. CASE UNCHANGED vars
    BY <2>3 DEF vars, curveVars, ManagerUnpaid
  <2>4. CASE GraduationStep
    BY <2>1, <2>4 DEF GraduationStep, ManagerUnpaid, curveVars
  <2> QED BY <2>2, <2>3, <2>4
<1> QED BY <1>1, <1>2, SpecInv, PTL DEF Spec

\* The curve implements CurvePromise: what the launchpad relies on is what the
\* curve does, for every configuration.
THEOREM PromiseKept == Spec => KeepsPromise
<1> DEFINE gm == graduationManager
<1> USE AccountsDistinct
<1>1. Init => Promise!Init
  BY DEF Init, Promise!Init, Accounts
<1>2. Inv /\ Inv' /\ ManagerUnpaid /\ [Next]_vars => [Promise!Next]_Promise!vars
  <2> SUFFICES ASSUME Inv, Inv', ManagerUnpaid, Next PROVE [Promise!Next]_Promise!vars
    BY DEF Promise!vars, vars, curveVars
  <2>1. PICK w \in Wallets :
          \/ \E v \in 1..eth[w], m \in MinOuts : Buy(w, v, m)
          \/ \E v \in 1..eth[w], m \in MinOuts : CrossingBuy(w, v, m)
          \/ \E x \in 1..tok[w], m \in MinOuts : Sell(w, x, m)
          \/ \E x \in 1..tok[w], to \in Wallets \cup {curve} : Transfer(w, to, x)
          \/ \E x \in 1..eth[w] : ForceEth(w, x)
    BY DEF Next
  <2>2. eth \in [Accounts -> Nat] /\ gm # w /\ gm \in Accounts /\ w \in Accounts
    BY DEF Inv, TypeOK, Accounts
  <2>3. ~graduated' => tokensSold' \in 0..(curveTokenAllocation - 1)
    BY ConstructorRequires DEF Inv, TypeOK, OpenOrCalibrated
  <2>4. ASSUME NEW v, NEW m, Buy(w, v, m) PROVE Promise!Trade
    BY <2>2, <2>3, <2>4 DEF Buy, Promise!Trade
  <2>5. ASSUME NEW v \in 1..eth[w], NEW m, CrossingBuy(w, v, m)
        PROVE  Promise!Close
    <3>1. ~graduated /\ graduated' /\ tokensSold' = curveTokenAllocation
      BY <2>5 DEF CrossingBuy
    <3>2. eth'[gm] = eth[gm] + raise
      BY <2>2, <2>5 DEF CrossingBuy, Accounts
    <3>3. eth'[gm] = finalEthReserve - virtualEthReserve
      BY <3>1, <3>2, ConstantFacts DEF raise, ManagerUnpaid
    <3> QED BY <3>1, <3>3 DEF Promise!Close
  <2>6. ASSUME NEW x, NEW m, Sell(w, x, m) PROVE Promise!Trade
    BY <2>2, <2>3, <2>6 DEF Sell, Promise!Trade
  <2>7. ASSUME NEW to, NEW x, Transfer(w, to, x) PROVE UNCHANGED Promise!vars
    BY <2>7 DEF Transfer, curveVars, Promise!vars
  <2>8. ASSUME NEW x, ForceEth(w, x) PROVE UNCHANGED Promise!vars
    BY <2>2, <2>8 DEF ForceEth, curveVars, Promise!vars
  <2> QED BY <2>1, <2>4, <2>5, <2>6, <2>7, <2>8 DEF Promise!Next
<1> QED BY <1>1, <1>2, SpecInv, ManagerUnpaidInv, PTL DEF Spec, KeepsPromise, Promise!Spec

============================================================================
