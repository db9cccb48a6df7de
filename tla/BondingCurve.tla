---------------------------- MODULE BondingCurve ----------------------------
(***************************************************************************)
(* One launch's bonding curve (contracts/src/BondingCurve.sol) with the    *)
(* two ledgers it moves value on: native ETH and the launch's ERC-20.      *)
(*                                                                         *)
(* A call that reverts leaves every variable unchanged, so a revert is a   *)
(* guard that does not hold.  Each external function is one atomic step:   *)
(* BondingCurveCalls shows that the external calls buy and sell make in    *)
(* mid-flight do not break that atomicity.                                 *)
(***************************************************************************)
EXTENDS CurveMath, FiniteSets, Functions

CONSTANTS
    Wallets,               \* traders; the creator is one of them
    curve,                 \* address(this)
    treasury,              \* receives the trade fee
    graduationManager,     \* receives the raise
    Refusing,              \* accounts whose receive() reverts
    Endowment,             \* ETH each wallet starts with
    BPS,                   \* 10_000 in the code
    tradeFeeBps,
    virtualEthReserve,
    virtualTokenReserve,
    curveTokenAllocation,
    maxBuyPerWallet,
    antiSnipeThreshold,
    MinOuts                \* the minTokensOut / minEthOut values callers pass

Accounts == Wallets \cup {curve, treasury, graduationManager}

\* The constructor's requires, and the bounds LaunchpadFactory puts on the
\* configuration it constructs a curve with.
ASSUME ConstructorRequires ==
    /\ virtualTokenReserve \in Nat /\ curveTokenAllocation \in Nat
    /\ 0 < curveTokenAllocation /\ curveTokenAllocation < virtualTokenReserve
    /\ virtualEthReserve \in Nat \ {0}
    /\ BPS \in Nat \ {0} /\ tradeFeeBps \in Nat /\ tradeFeeBps < BPS
    /\ maxBuyPerWallet \in Nat \ {0} /\ antiSnipeThreshold \in Nat

\* LaunchpadFactory.MAX_TRADE_FEE_BPS is 1000 of 10_000; half is all the
\* proofs need.
ASSUME TradeFeeCapped == 2 * tradeFeeBps < BPS

ASSUME AccountsDistinct ==
    /\ curve \notin Wallets /\ treasury \notin Wallets
    /\ graduationManager \notin Wallets
    /\ curve # treasury /\ curve # graduationManager
    /\ treasury # graduationManager
    /\ Refusing \subseteq Accounts
    /\ Endowment \in Nat
    /\ MinOuts \subseteq Nat

\* There are finitely many addresses.
ASSUME WalletsFinite == IsFiniteSet(Wallets)

\* Immutables derived by the constructor.
k == virtualEthReserve * virtualTokenReserve
finalTokenReserve == virtualTokenReserve - curveTokenAllocation
finalEthReserve == CeilDiv(k, finalTokenReserve)

\* The factory's bounds (virtualEthReserve at most MAX_VIRTUAL_ETH_RESERVE, and
\* virtualTokenReserve = C^2 / (C - G)) keep the price of one token unit below
\* one wei over the whole curve.
ASSUME Calibrated == finalEthReserve <= finalTokenReserve

VARIABLES
    ethReserve, tokenReserve, tokensSold, graduated, purchasedOf,
    eth,        \* native balances
    tok,        \* launch-token balances of the wallets and the curve
    strayEth    \* ETH force-fed to the curve so far (history variable)

curveVars == <<ethReserve, tokenReserve, tokensSold, graduated, purchasedOf>>
vars == <<curveVars, eth, tok, strayEth>>

(* Mutant: two tokens handed to a trader before anyone bought. *)
TokensWithPremine ==
    LET dev == CHOOSE w \in Wallets : TRUE
    IN  [a \in Wallets \cup {curve} |->
            IF a = curve THEN curveTokenAllocation
            ELSE IF a = dev THEN 2 ELSE 0]

\* The factory hands the curve its whole allocation and nobody else holds any
\* token that can move before graduation.
initialTokens ==
    [a \in Wallets \cup {curve} |-> IF a = curve THEN curveTokenAllocation ELSE 0]

Init ==
    /\ ethReserve = virtualEthReserve
    /\ tokenReserve = virtualTokenReserve
    /\ tokensSold = 0
    /\ graduated = FALSE
    /\ purchasedOf = [w \in Wallets |-> 0]
    /\ eth = [a \in Accounts |-> IF a \in Wallets THEN Endowment ELSE 0]
    /\ tok = initialTokens
    /\ strayEth = 0

----------------------------------------------------------------------------
(* Reserve math. *)

Fee(amount) == BpsOf(amount, tradeFeeBps, BPS)

(* Mutant: the ETH reserve rounded down. *)
EthReserveRoundedDown(tokens) == k \div tokens

\* _previewBuy: the new token reserve is rounded up, against the buyer.
BuyEthReserve(ethIn) == ethReserve + (ethIn - Fee(ethIn))
BuyTokenReserve(ethIn) == CeilDiv(k, BuyEthReserve(ethIn))
PreviewTokens(ethIn) == tokenReserve - BuyTokenReserve(ethIn)

\* _previewSell: the new ETH reserve is rounded up, against the seller.
EthReserveAt(tokens) == CeilDiv(k, tokens)
SellEthReserve(amount) == EthReserveAt(tokenReserve + amount)

(* Mutant: tokens bought back at the spot price. *)
GrossAtSpot(amount) == (amount * ethReserve) \div tokenReserve

GrossEthOut(amount) == ethReserve - SellEthReserve(amount)
EthOut(amount) == GrossEthOut(amount) - Fee(GrossEthOut(amount))

buyCapActive == tokensSold < antiSnipeThreshold
remaining == curveTokenAllocation - tokensSold
netNeeded == finalEthReserve - ethReserve
grossNeeded == CeilDiv(netNeeded * BPS, BPS - tradeFeeBps)

(* Mutants: crossing only beyond the allocation; no clamp to msg.value; the
   overflow kept; the whole balance handed over, donations included. *)
CrossesBeyond(ethIn) == PreviewTokens(ethIn) > remaining
ChargedUnclamped(ethIn) == grossNeeded
ChargedInFull(ethIn) == ethIn
raiseFromBalance == eth[curve] + netNeeded

\* The crossing branch of buy.
Crosses(ethIn) == PreviewTokens(ethIn) >= remaining
Charged(ethIn) == MinOf(grossNeeded, ethIn)

\* What _graduate sends: the calibrated amount, never the raw balance.
raise == finalEthReserve - virtualEthReserve

\* _sendEth: a zero amount is not sent at all.
CanReceive(a, amount) == amount > 0 => a \notin Refusing

(* Mutant: the window read after the buy instead of before. *)
TallyByWindowAfter(w, n) ==
    IF tokensSold + n < antiSnipeThreshold
    THEN [purchasedOf EXCEPT ![w] = @ + n] ELSE purchasedOf

\* The anti-snipe tally of a buy of n tokens by w, under the window state
\* before the buy.
WithinBuyCap(w, n) == buyCapActive => purchasedOf[w] + n <= maxBuyPerWallet
Tally(w, n) == IF buyCapActive
               THEN [purchasedOf EXCEPT ![w] = @ + n] ELSE purchasedOf

----------------------------------------------------------------------------
(* buy: the branch that stays on the curve. *)
Buy(w, ethIn, minTokensOut) ==
    LET tokensOut == PreviewTokens(ethIn)
        fee == Fee(ethIn)
    IN  /\ ~graduated
        /\ 0 < ethIn /\ ethIn <= eth[w]
        /\ ~Crosses(ethIn)
        /\ 0 < tokensOut
        /\ tokensSold + tokensOut <= curveTokenAllocation
        /\ minTokensOut <= tokensOut
        /\ WithinBuyCap(w, tokensOut)
        /\ CanReceive(treasury, fee)
        /\ tokensOut <= tok[curve]
        /\ ethReserve' = BuyEthReserve(ethIn)
        /\ tokenReserve' = BuyTokenReserve(ethIn)
        /\ tokensSold' = tokensSold + tokensOut
        /\ purchasedOf' = Tally(w, tokensOut)
        /\ eth' = [eth EXCEPT ![w] = @ - ethIn, ![treasury] = @ + fee,
                              ![curve] = @ + (ethIn - fee)]
        /\ tok' = [tok EXCEPT ![w] = @ + tokensOut, ![curve] = @ - tokensOut]
        /\ UNCHANGED <<graduated, strayEth>>

(* buy: the crossing branch, which ends in _graduate. *)
CrossingBuy(w, ethIn, minTokensOut) ==
    LET fee == Charged(ethIn) - netNeeded
        refund == ethIn - Charged(ethIn)
    IN  /\ ~graduated
        /\ 0 < ethIn /\ ethIn <= eth[w]
        /\ Crosses(ethIn)
        /\ 0 <= netNeeded /\ 0 <= fee      \* checked subtractions
        /\ minTokensOut <= remaining
        /\ WithinBuyCap(w, remaining)
        /\ CanReceive(treasury, fee) /\ CanReceive(w, refund)
        /\ graduationManager \notin Refusing
        /\ remaining <= tok[curve]
        /\ raise <= eth[curve] + (ethIn - fee - refund)
        /\ ethReserve' = finalEthReserve
        /\ tokenReserve' = finalTokenReserve
        /\ tokensSold' = curveTokenAllocation
        /\ graduated' = TRUE
        /\ purchasedOf' = Tally(w, remaining)
        /\ eth' = [eth EXCEPT ![w] = @ - ethIn + refund,
                              ![treasury] = @ + fee,
                              ![curve] = @ + (ethIn - fee - refund) - raise,
                              ![graduationManager] = @ + raise]
        /\ tok' = [tok EXCEPT ![w] = @ + remaining, ![curve] = @ - remaining]
        /\ UNCHANGED strayEth

(* sell *)
Sell(w, amount, minEthOut) ==
    LET fee == Fee(GrossEthOut(amount))
    IN  /\ ~graduated
        /\ 0 < amount /\ amount <= tok[w]
        /\ 0 <= GrossEthOut(amount) /\ amount <= tokensSold
        /\ minEthOut <= EthOut(amount)
        /\ CanReceive(treasury, fee) /\ CanReceive(w, EthOut(amount))
        /\ GrossEthOut(amount) <= eth[curve]
        /\ ethReserve' = SellEthReserve(amount)
        /\ tokenReserve' = tokenReserve + amount
        /\ tokensSold' = tokensSold - amount
        /\ eth' = [eth EXCEPT ![w] = @ + EthOut(amount), ![treasury] = @ + fee,
                              ![curve] = @ - GrossEthOut(amount)]
        /\ tok' = [tok EXCEPT ![w] = @ - amount, ![curve] = @ + amount]
        /\ UNCHANGED <<graduated, purchasedOf, strayEth>>

(* An ERC-20 transfer by a holder, possibly to the curve itself. *)
Transfer(w, to, amount) ==
    /\ 0 < amount /\ amount <= tok[w] /\ to # w
    /\ tok' = [tok EXCEPT ![w] = @ - amount, ![to] = @ + amount]
    /\ UNCHANGED <<curveVars, eth, strayEth>>

(* ETH forced into the curve, which has no receive function (selfdestruct). *)
ForceEth(w, amount) ==
    /\ 0 < amount /\ amount <= eth[w]
    /\ eth' = [eth EXCEPT ![w] = @ - amount, ![curve] = @ + amount]
    /\ strayEth' = strayEth + amount
    /\ UNCHANGED <<curveVars, tok>>

Next ==
    \E w \in Wallets :
        \/ \E v \in 1..eth[w], m \in MinOuts : Buy(w, v, m)
        \/ \E v \in 1..eth[w], m \in MinOuts : CrossingBuy(w, v, m)
        \/ \E x \in 1..tok[w], m \in MinOuts : Sell(w, x, m)
        \/ \E x \in 1..tok[w], to \in Wallets \cup {curve} : Transfer(w, to, x)
        \/ \E x \in 1..eth[w] : ForceEth(w, x)

Spec == Init /\ [][Next]_vars
----------------------------------------------------------------------------
(* Properties. *)

TypeOK ==
    /\ ethReserve \in Nat /\ tokenReserve \in Nat /\ tokensSold \in Nat
    /\ graduated \in BOOLEAN
    /\ purchasedOf \in [Wallets -> Nat]
    /\ eth \in [Accounts -> Nat]
    /\ tok \in [Wallets \cup {curve} -> Nat]
    /\ strayEth \in Nat

\* The ETH reserve is a function of the tokens sold: whatever trades led
\* here, in whatever order and with whatever rounding, no dust accumulates in
\* the reserve and none leaks out of it ("a long sequence of dust trades",
\* docs/audit-scope.md section 2).
ReservesPathIndependent ==
    /\ tokenReserve + tokensSold = virtualTokenReserve
    /\ ethReserve = CeilDiv(k, tokenReserve)

\* While the curve is open it has sold strictly less than its allocation and
\* holds strictly less than its target: no state is sold out but still open,
\* and after graduation the reserves are the calibrated ones, whoever bought.
OpenOrCalibrated ==
    /\ ~graduated => /\ tokensSold < curveTokenAllocation
                     /\ virtualEthReserve <= ethReserve
                     /\ ethReserve < finalEthReserve
    /\ graduated => /\ tokensSold = curveTokenAllocation
                    /\ ethReserve = finalEthReserve
                    /\ tokenReserve = finalTokenReserve

\* The curve's ETH balance is exactly the real part of its reserve plus what
\* was forced into it: fees and refunds never come out of, nor stay in, the
\* reserve, and graduation hands over the whole raise and nothing else.
Backed ==
    eth[curve] = strayEth + (IF graduated THEN 0
                             ELSE ethReserve - virtualEthReserve)

\* Before graduation the only tokens in circulation are the ones the curve
\* sold, so a holder's sale never trips the checked tokensSold -= amount.
\* It is why the reserve and the dev allocation are withheld until graduation.
OnlySoldTokensCirculate ==
    ~graduated => SumFunctionOnSet(tok, Wallets) <= tokensSold

\* Every holder could exit at once: the outstanding tokens can be sold back
\* in one call, the sell math does not underflow, and the curve can pay it.
EveryoneCanExit ==
    ~graduated => \A x \in 1..tokensSold :
                     /\ 0 <= GrossEthOut(x) /\ GrossEthOut(x) <= eth[curve]
                     /\ Fee(GrossEthOut(x)) <= GrossEthOut(x)

\* The checked subtractions of the crossing branch never underflow, and the
\* clamp costs the protocol at most two wei of its fee (the docs say one, see
\* ClampCostsOneWei in CurveClaims): "an honest buy ... must never
\* underflow-revert".
CrossingNeverUnderflows ==
    ~graduated => \A w \in Wallets : \A v \in 1..eth[w] :
        Crosses(v) => /\ 0 <= netNeeded /\ netNeeded <= Charged(v)
                      /\ Charged(v) <= v
                      /\ grossNeeded <= v + 2

\* Buying and selling straight back never pays, at any size and any state.
NoRoundTripProfit ==
    ~graduated => \A w \in Wallets : \A v \in 1..eth[w] :
        ~Crosses(v) =>
            LET bought == PreviewTokens(v)
                grossBack == BuyEthReserve(v)
                             - EthReserveAt(BuyTokenReserve(v) + bought)
            IN  grossBack <= v - Fee(v)

\* Every nonzero payment buys something: the NoTokensOut and CurveSoldOut
\* reverts of the ordinary branch are unreachable, as the comment at line 235
\* and the test at SecurityHardening.t.sol:328 say.
DustBuysTokens ==
    ~graduated => \A w \in Wallets : \A v \in 1..eth[w] :
        ~Crosses(v) => /\ 0 < PreviewTokens(v)
                       /\ tokensSold + PreviewTokens(v) < curveTokenAllocation

\* No wallet's tally of purchases under the cap ever exceeds the cap.
TallyWithinCap == \A w \in Wallets : purchasedOf[w] <= maxBuyPerWallet

\* A buy that starts inside the window is tallied in full, even when it ends
\* outside, so no single buy crosses the threshold to escape the cap, and
\* selling never gives the allowance back (comment at lines 58-61).
WindowBuyStep ==
    /\ \A u \in Wallets : purchasedOf'[u] >= purchasedOf[u]
    /\ (buyCapActive /\ tokensSold' > tokensSold) =>
         \E u \in Wallets :
            purchasedOf'[u] - purchasedOf[u] = tokensSold' - tokensSold

WindowBuysAreTallied == [][WindowBuyStep]_vars

\* Graduation happens at most once and pays the manager exactly the
\* calibrated raise in that same step, whatever was forced into the curve or
\* sent beyond what was needed, which goes back to the buyer; no later step
\* touches the curve.
GraduationStep ==
    LET received == eth'[graduationManager] - eth[graduationManager]
    IN  /\ (graduated' /\ ~graduated) =>
             /\ received = finalEthReserve - virtualEthReserve
             /\ \A u \in Wallets : eth[u] - eth'[u] <= grossNeeded
        /\ received # 0 => (~graduated /\ graduated')
        /\ graduated => UNCHANGED curveVars

GraduatesOnceWithTheRaise == [][GraduationStep]_vars

\* To the rest of the launchpad the curve is its abstract promise: every trade,
\* transfer and forced payment is a step of it or none, and the manager's only
\* income is the raise.
Promise == INSTANCE CurvePromise WITH
    allocation <- curveTokenAllocation, raise <- finalEthReserve - virtualEthReserve,
    sold <- tokensSold, closed <- graduated, paid <- eth[graduationManager]

KeepsPromise == Promise!Spec
============================================================================
