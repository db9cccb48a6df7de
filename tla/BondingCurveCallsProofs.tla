---------------------- MODULE BondingCurveCallsProofs ----------------------
(***************************************************************************)
(* buy and sell, broken up at their external calls, implement the atomic   *)
(* trades of BondingCurve: the proofs, for every configuration.            *)
(*                                                                         *)
(* The guard leaves room for one call at a time, so there is at most one   *)
(* frame.  What makes the invariant inductive is an account of that call:  *)
(* the state it found, what it decided there, and how much of what it owes *)
(* has been paid at its program counter.                                   *)
(***************************************************************************)
EXTENDS BondingCurveCalls, TLAPS

\* The proofs about BondingCurve, read in the state outside the call in flight.
A == INSTANCE BondingCurveProofs WITH
    ethReserve <- Committed.ethReserve, tokenReserve <- Committed.tokenReserve,
    tokensSold <- Committed.tokensSold, graduated <- Committed.graduated,
    purchasedOf <- Committed.purchasedOf, eth <- Committed.eth,
    tok <- Committed.tok

PCs == {"fee", "feeCall", "tokens", "trader", "traderCall", "finish"}

\* What a call in frame f has done at its program counter.
FeePaid(f) == f.pc # "fee"
TokensMoved(f) == f.pc \in {"trader", "traderCall", "finish"}
TraderPaid(f) == f.pc \in {"traderCall", "finish"}
Done(b, n) == IF b THEN n ELSE 0

\* Every balance is that before the call, less what came in, plus what has
\* been paid so far: in is the ETH sent along, pulled the tokens taken.
Accounted(f, in, pulled) ==
    /\ eth = [Committed.eth EXCEPT
                ![f.who] = @ - in + Done(TraderPaid(f), f.toTrader),
                ![treasury] = @ + Done(FeePaid(f), f.fee),
                ![curve] = @ + in - Done(FeePaid(f), f.fee)
                             - Done(TraderPaid(f), f.toTrader)]
    /\ tok = [Committed.tok EXCEPT
                ![f.who] = @ - pulled + Done(TokensMoved(f), f.tokens),
                ![curve] = @ + pulled - Done(TokensMoved(f), f.tokens)]
    /\ 0 <= eth[curve] /\ 0 <= tok[curve]
    /\ f.pc \notin {"fee", "feeCall"} => CanReceive(treasury, f.fee)
    /\ f.pc = "finish" => CanReceive(f.who, f.toTrader)

FrameOK(f) ==
    /\ f.who \in Wallets /\ f.pc \in PCs /\ f.crossing \in BOOLEAN
    /\ f.fee \in Nat /\ f.toTrader \in Nat /\ f.tokens \in Nat

\* The frame of a buy for v wei: what buy computed in the state it found, and
\* what it wrote.
BuyFrame(f, v) ==
    /\ v \in Nat /\ 0 < v /\ v <= Committed.eth[f.who]
    /\ ~Committed.graduated /\ ~graduated
    /\ f.crossing = A!Crosses(v)
    /\ f.tokens = IF f.crossing THEN A!remaining ELSE A!PreviewTokens(v)
    /\ f.fee = IF f.crossing THEN A!Charged(v) - A!netNeeded ELSE A!Fee(v)
    /\ f.toTrader = IF f.crossing THEN v - A!Charged(v) ELSE 0
    /\ f.crossing \/ 0 < f.tokens
    /\ Committed.tokensSold + f.tokens <= curveTokenAllocation
    /\ A!WithinBuyCap(f.who, f.tokens)
    /\ ethReserve = IF f.crossing THEN A!finalEthReserve ELSE A!BuyEthReserve(v)
    /\ tokenReserve = IF f.crossing THEN A!finalTokenReserve ELSE A!BuyTokenReserve(v)
    /\ tokensSold = Committed.tokensSold + f.tokens
    /\ purchasedOf = A!Tally(f.who, f.tokens)

\* The frame of a sell of x tokens.
SellFrame(f, x) ==
    /\ x \in Nat /\ 0 < x /\ x <= Committed.tok[f.who] /\ x <= Committed.tokensSold
    /\ ~Committed.graduated /\ ~graduated
    /\ ~f.crossing /\ f.tokens = 0
    /\ f.fee = A!Fee(A!GrossEthOut(x)) /\ f.toTrader = A!EthOut(x)
    /\ 0 <= A!GrossEthOut(x)
    /\ ethReserve = A!SellEthReserve(x)
    /\ tokenReserve = Committed.tokenReserve + x
    /\ tokensSold = Committed.tokensSold - x
    /\ purchasedOf = Committed.purchasedOf

InFlight(f) ==
    /\ FrameOK(f)
    /\ \/ \E v \in Nat : BuyFrame(f, v) /\ Accounted(f, v, 0)
       \/ \E x \in Nat : SellFrame(f, x) /\ Accounted(f, 0, x)

CallInv ==
    /\ A!Inv
    /\ \/ frames = <<>> /\ ~locked
       \/ \E f : frames = <<f>> /\ locked /\ InFlight(f)

----------------------------------------------------------------------------
(* Frames. *)

LEMMA NoFrame ==
    ASSUME frames = <<>>
    PROVE  /\ Idle /\ Len(frames) = 0
           /\ Committed = Storage
           /\ \A f : Append(frames, f) = <<f>>
  BY DEF Idle, Committed

LEMMA OneFrame ==
    ASSUME NEW f, frames = <<f>>
    PROVE  /\ ~Idle /\ Len(frames) = 1 /\ Top = f /\ OuterFrames = <<>>
           /\ Committed = f.saved
           /\ \A pc : [frames EXCEPT ![Len(frames)].pc = pc] = <<[f EXCEPT !.pc = pc]>>
  BY DEF Idle, Committed, Top, OuterFrames

LEMMA Assumptions ==
    /\ A!ConstructorRequires /\ A!TradeFeeCapped /\ A!AccountsDistinct
    /\ A!WalletsFinite /\ A!Calibrated
<1>1. A!ConstructorRequires /\ A!TradeFeeCapped /\ A!AccountsDistinct /\ A!Calibrated
  BY ConstructorRequires, TradeFeeCapped, AccountsDistinct, Calibrated
     DEF A!ConstructorRequires, A!TradeFeeCapped, A!AccountsDistinct, A!Calibrated,
         A!finalEthReserve, A!finalTokenReserve, A!k, A!CeilDiv, A!Accounts,
         finalEthReserve, finalTokenReserve, k, CeilDiv, Accounts
<1>2. A!WalletsFinite
  BY WalletsFinite DEF A!WalletsFinite, A!IsFiniteSet, IsFiniteSet
<1> QED BY <1>1, <1>2

LEMMA InitCommitted == CallInit => A!Init
  BY NoFrame DEF CallInit, Init, A!Init, Storage, initialTokens, A!initialTokens, Accounts, A!Accounts

LEMMA InitCallInv == CallInit => CallInv
<1>1. A!Init => A!Inv
  BY A!InitInv, Assumptions
<1>2. CallInit => frames = <<>> /\ ~locked
  BY DEF CallInit
<1> QED BY <1>1, <1>2, InitCommitted DEF CallInv

LEMMA CommittedStep == A!Inv /\ [A!Next]_A!vars => A!Inv'
  BY A!NextInv, Assumptions

LEMMA CommittedTypes ==
    ASSUME A!Inv
    PROVE  /\ Committed.ethReserve \in Nat /\ Committed.tokenReserve \in Nat
           /\ Committed.tokensSold \in Nat /\ Committed.graduated \in BOOLEAN
           /\ Committed.eth \in [Accounts -> Nat]
           /\ Committed.tok \in [Wallets \cup {curve} -> Nat]
           /\ strayEth \in Nat
  BY DEF A!Inv, A!TypeOK, A!Accounts, Accounts

\* The operators of BondingCurve are those of the committed state when no call
\* is in flight.
LEMMA IdleOperators ==
    ASSUME frames = <<>>
    PROVE  /\ A!remaining = remaining /\ A!netNeeded = netNeeded
           /\ A!finalEthReserve = finalEthReserve /\ A!finalTokenReserve = finalTokenReserve
           /\ \A v : /\ A!Crosses(v) <=> Crosses(v)
                     /\ A!PreviewTokens(v) = PreviewTokens(v)
                     /\ A!Charged(v) = Charged(v) /\ A!Fee(v) = Fee(v)
                     /\ A!BuyEthReserve(v) = BuyEthReserve(v)
                     /\ A!BuyTokenReserve(v) = BuyTokenReserve(v)
                     /\ A!GrossEthOut(v) = GrossEthOut(v) /\ A!EthOut(v) = EthOut(v)
                     /\ A!SellEthReserve(v) = SellEthReserve(v)
           /\ \A w, n : /\ A!WithinBuyCap(w, n) <=> WithinBuyCap(w, n)
                        /\ A!Tally(w, n) = Tally(w, n)
<1>1. /\ Committed.ethReserve = ethReserve /\ Committed.tokenReserve = tokenReserve
      /\ Committed.tokensSold = tokensSold /\ Committed.purchasedOf = purchasedOf
  BY NoFrame DEF Storage
<1>2. /\ A!finalEthReserve = finalEthReserve /\ A!finalTokenReserve = finalTokenReserve
      /\ A!k = k
  BY DEF CeilDiv, A!CeilDiv, k, A!k, finalEthReserve, A!finalEthReserve, finalTokenReserve, A!finalTokenReserve
<1>3. A!remaining = remaining /\ A!netNeeded = netNeeded /\ A!grossNeeded = grossNeeded
  BY <1>1, <1>2 DEF CeilDiv, A!CeilDiv, remaining, A!remaining, netNeeded, A!netNeeded, grossNeeded, A!grossNeeded
<1>4. ASSUME NEW v
      PROVE  /\ A!BuyEthReserve(v) = BuyEthReserve(v) /\ A!BuyTokenReserve(v) = BuyTokenReserve(v)
             /\ A!PreviewTokens(v) = PreviewTokens(v) /\ A!Fee(v) = Fee(v)
             /\ A!Charged(v) = Charged(v)
             /\ A!Crosses(v) <=> Crosses(v)
             /\ A!SellEthReserve(v) = SellEthReserve(v)
  BY <1>1, <1>2, <1>3 DEF CeilDiv, A!CeilDiv, BpsOf, A!BpsOf, MinOf, A!MinOf,
     BuyEthReserve, A!BuyEthReserve, BuyTokenReserve, A!BuyTokenReserve,
     PreviewTokens, A!PreviewTokens, Fee, A!Fee, Charged, A!Charged, Crosses, A!Crosses,
     SellEthReserve, A!SellEthReserve, EthReserveAt, A!EthReserveAt
<1>5. ASSUME NEW v
      PROVE  A!GrossEthOut(v) = GrossEthOut(v) /\ A!EthOut(v) = EthOut(v)
  BY <1>1, <1>4 DEF GrossEthOut, A!GrossEthOut, EthOut, A!EthOut
<1>6. ASSUME NEW w, NEW n
      PROVE  /\ A!WithinBuyCap(w, n) <=> WithinBuyCap(w, n)
             /\ A!Tally(w, n) = Tally(w, n)
  BY <1>1 DEF WithinBuyCap, A!WithinBuyCap, Tally, A!Tally, buyCapActive, A!buyCapActive
<1> QED BY <1>2, <1>3, <1>4, <1>5, <1>6

\* They do not change while the call that is in flight goes on.
LEMMA SameOperators ==
    ASSUME Committed' = Committed
    PROVE  /\ A!remaining' = A!remaining /\ A!netNeeded' = A!netNeeded
           /\ A!finalEthReserve' = A!finalEthReserve
           /\ A!finalTokenReserve' = A!finalTokenReserve
           /\ \A v : /\ A!Crosses(v)' <=> A!Crosses(v)
                     /\ A!PreviewTokens(v)' = A!PreviewTokens(v)
                     /\ A!Charged(v)' = A!Charged(v) /\ A!Fee(v)' = A!Fee(v)
                     /\ A!BuyEthReserve(v)' = A!BuyEthReserve(v)
                     /\ A!BuyTokenReserve(v)' = A!BuyTokenReserve(v)
                     /\ A!GrossEthOut(v)' = A!GrossEthOut(v) /\ A!EthOut(v)' = A!EthOut(v)
                     /\ A!SellEthReserve(v)' = A!SellEthReserve(v)
           /\ \A w, n : /\ A!WithinBuyCap(w, n)' <=> A!WithinBuyCap(w, n)
                        /\ A!Tally(w, n)' = A!Tally(w, n)
<1>1. A!netNeeded' = A!netNeeded /\ A!grossNeeded' = A!grossNeeded /\ A!remaining' = A!remaining
  BY DEF A!netNeeded, A!grossNeeded, A!remaining
<1>2. ASSUME NEW v
      PROVE  /\ A!BuyEthReserve(v)' = A!BuyEthReserve(v)
             /\ A!BuyTokenReserve(v)' = A!BuyTokenReserve(v)
             /\ A!PreviewTokens(v)' = A!PreviewTokens(v) /\ A!Fee(v)' = A!Fee(v)
             /\ A!Charged(v)' = A!Charged(v)
             /\ A!Crosses(v)' <=> A!Crosses(v)
             /\ A!SellEthReserve(v)' = A!SellEthReserve(v)
             /\ A!GrossEthOut(v)' = A!GrossEthOut(v) /\ A!EthOut(v)' = A!EthOut(v)
  BY <1>1 DEF A!BuyEthReserve, A!BuyTokenReserve, A!PreviewTokens, A!Fee, A!Charged, A!Crosses,
     A!SellEthReserve, A!EthReserveAt, A!GrossEthOut, A!EthOut
<1>3. ASSUME NEW w, NEW n
      PROVE  /\ A!WithinBuyCap(w, n)' <=> A!WithinBuyCap(w, n)
             /\ A!Tally(w, n)' = A!Tally(w, n)
  BY DEF A!WithinBuyCap, A!Tally, A!buyCapActive
<1> QED BY <1>1, <1>2, <1>3

----------------------------------------------------------------------------
(* A call begins. *)

LEMMA CallBegins ==
    ASSUME CallInv, CanCall, NEW f, Push(f), f.saved = Storage
    PROVE  /\ frames = <<>> /\ frames' = <<f>> /\ locked'
           /\ Committed' = Committed /\ A!Inv
           /\ Committed.ethReserve = ethReserve /\ Committed.tokenReserve = tokenReserve
           /\ Committed.tokensSold = tokensSold /\ Committed.graduated = graduated
           /\ Committed.purchasedOf = purchasedOf
           /\ Committed.eth = eth /\ Committed.tok = tok
<1>1. frames = <<>> /\ A!Inv
  BY DEF CallInv, CanCall, nonReentrant
<1>2. frames' = <<f>> /\ locked'
  BY <1>1, NoFrame DEF Push
<1>3. Committed' = f.saved
  BY <1>2 DEF Committed, Idle
<1>4. Committed = Storage
  BY <1>1, NoFrame
<1> QED BY <1>1, <1>2, <1>3, <1>4 DEF Storage

LEMMA EnterBuyInv ==
    ASSUME CallInv, NEW w \in Wallets, NEW v \in Nat, EnterBuy(w, v)
    PROVE  CallInv' /\ Committed' = Committed
<1> DEFINE out == IF Crosses(v) THEN remaining ELSE PreviewTokens(v)
           fee == IF Crosses(v) THEN Charged(v) - netNeeded ELSE Fee(v)
           refund == IF Crosses(v) THEN v - Charged(v) ELSE 0
<1>1. PICK f : /\ Push(f)
               /\ f = [who |-> w, pc |-> "fee", fee |-> fee, toTrader |-> refund,
                       tokens |-> out, crossing |-> Crosses(v), saved |-> Storage]
  BY DEF EnterBuy
<1>2. /\ CanCall /\ ~graduated /\ 0 < v /\ v <= eth[w]
      /\ Crosses(v) \/ 0 < out
      /\ tokensSold + out <= curveTokenAllocation /\ WithinBuyCap(w, out)
      /\ ethReserve' = IF Crosses(v) THEN finalEthReserve ELSE BuyEthReserve(v)
      /\ tokenReserve' = IF Crosses(v) THEN finalTokenReserve ELSE BuyTokenReserve(v)
      /\ tokensSold' = tokensSold + out
      /\ purchasedOf' = Tally(w, out)
      /\ eth' = [eth EXCEPT ![w] = @ - v, ![curve] = @ + v]
      /\ UNCHANGED <<graduated, tok, strayEth>>
  BY DEF EnterBuy
<1>3. /\ f.who = w /\ f.pc = "fee" /\ f.fee = fee /\ f.toTrader = refund
      /\ f.tokens = out /\ f.crossing = Crosses(v) /\ f.saved = Storage
  BY <1>1
<1>4. /\ frames = <<>> /\ frames' = <<f>> /\ locked'
      /\ Committed' = Committed /\ A!Inv
      /\ Committed.ethReserve = ethReserve /\ Committed.tokenReserve = tokenReserve
      /\ Committed.tokensSold = tokensSold /\ Committed.graduated = graduated
      /\ Committed.purchasedOf = purchasedOf
      /\ Committed.eth = eth /\ Committed.tok = tok
  BY <1>1, <1>2, <1>3, CallBegins
<1>5. /\ eth \in [Accounts -> Nat] /\ tok \in [Wallets \cup {curve} -> Nat]
      /\ tokensSold \in Nat /\ Crosses(v) \in BOOLEAN
  BY <1>4, CommittedTypes DEF Crosses
<1>6. fee \in Nat /\ refund \in Nat /\ out \in Nat
  <2>1. Fee(v) \in Nat
    BY <1>4, IdleOperators, A!FeeFacts, Assumptions
  <2>2. CASE Crosses(v)
    <3>1. A!Crosses(v) /\ ~Committed.graduated
      BY <1>2, <1>4, <2>2, IdleOperators
    <3>2. /\ A!Charged(v) \in Nat /\ A!Charged(v) <= v /\ A!netNeeded <= A!Charged(v)
          /\ A!netNeeded \in Nat
      BY <1>2, <1>4, <3>1, A!CrossingFacts, A!OpenFacts, Assumptions DEF A!Inv
    <3>3. remaining \in Nat
      BY <1>2, <1>4, <1>5, <3>1, ConstructorRequires DEF A!Inv, A!OpenOrCalibrated, remaining
    <3> QED BY <1>2, <1>4, <2>2, <3>2, <3>3, IdleOperators
  <2>3. CASE ~Crosses(v)
    BY <1>2, <1>4, <2>1, <2>3, IdleOperators, A!PreviewBuyFacts, Assumptions DEF A!Inv
  <2> QED BY <2>2, <2>3
<1>7. FrameOK(f)
  BY <1>3, <1>5, <1>6 DEF FrameOK, PCs
<1>8. BuyFrame(f, v)'
  <2>1. /\ A!Crosses(v)' <=> Crosses(v)
        /\ A!remaining' = remaining /\ A!PreviewTokens(v)' = PreviewTokens(v)
        /\ A!Charged(v)' = Charged(v) /\ A!netNeeded' = netNeeded /\ A!Fee(v)' = Fee(v)
        /\ A!finalEthReserve' = finalEthReserve /\ A!BuyEthReserve(v)' = BuyEthReserve(v)
        /\ A!finalTokenReserve' = finalTokenReserve /\ A!BuyTokenReserve(v)' = BuyTokenReserve(v)
    BY <1>4, IdleOperators, SameOperators
  <2>2. /\ A!WithinBuyCap(f.who, f.tokens)' <=> WithinBuyCap(f.who, f.tokens)
        /\ A!Tally(f.who, f.tokens)' = Tally(f.who, f.tokens)
    BY <1>4, IdleOperators, SameOperators
  <2>3. A!Crosses(v)' \in BOOLEAN
    BY DEF A!Crosses
  <2> QED BY <1>2, <1>3, <1>4, <1>5, <2>1, <2>2, <2>3 DEF BuyFrame
<1>9. Accounted(f, v, 0)'
  <2>1. /\ ~FeePaid(f) /\ ~TokensMoved(f) /\ ~TraderPaid(f)
    BY <1>3 DEF FeePaid, TokensMoved, TraderPaid
  <2>2. eth' = [Committed.eth EXCEPT ![w] = @ - v + 0, ![treasury] = @ + 0,
                                     ![curve] = @ + v - 0 - 0]
    <3>1. /\ w \in Accounts /\ treasury \in Accounts /\ curve \in Accounts
          /\ w # treasury /\ w # curve /\ treasury # curve
      BY AccountsDistinct DEF Accounts
    <3>2. eth[w] \in Nat /\ eth[treasury] \in Nat /\ eth[curve] \in Nat
      BY <1>5, <3>1
    <3>3. eth[w] - v + 0 = eth[w] - v /\ eth[treasury] + 0 = eth[treasury]
          /\ eth[curve] + v - 0 - 0 = eth[curve] + v
      BY <3>2
    <3>4. eth' = [Committed.eth EXCEPT ![w] = eth[w] - v, ![curve] = eth[curve] + v]
      BY <1>2, <1>4, <1>5, <3>1
    <3> QED BY <1>4, <1>5, <3>1, <3>3, <3>4
  <2>3. tok' = [Committed.tok EXCEPT ![w] = @ - 0 + 0, ![curve] = @ + 0 - 0]
    BY <1>2, <1>4, <1>5, AccountsDistinct
  <2>4. 0 <= eth'[curve] /\ 0 <= tok'[curve]
    BY <1>2, <1>5, AccountsDistinct DEF Accounts
  <2> QED BY <1>3, <1>4, <2>1, <2>2, <2>3, <2>4 DEF Accounted, Done
<1>10. A!Inv'
  BY <1>2, <1>4, CommittedStep DEF A!vars, A!curveVars
<1> QED BY <1>4, <1>7, <1>8, <1>9, <1>10 DEF CallInv, InFlight, FrameOK

LEMMA EnterSellInv ==
    ASSUME CallInv, NEW w \in Wallets, NEW x \in Nat, EnterSell(w, x)
    PROVE  CallInv' /\ Committed' = Committed
<1>1. PICK f : /\ Push(f)
               /\ f = [who |-> w, pc |-> "fee", fee |-> Fee(GrossEthOut(x)),
                       toTrader |-> EthOut(x), tokens |-> 0, crossing |-> FALSE,
                       saved |-> Storage]
  BY DEF EnterSell
<1>2. /\ CanCall /\ ~graduated /\ 0 < x /\ x <= tok[w] /\ x <= tokensSold
      /\ 0 <= GrossEthOut(x)
      /\ ethReserve' = SellEthReserve(x)
      /\ tokenReserve' = tokenReserve + x
      /\ tokensSold' = tokensSold - x
      /\ tok' = [tok EXCEPT ![w] = @ - x, ![curve] = @ + x]
      /\ UNCHANGED <<graduated, purchasedOf, eth, strayEth>>
  BY DEF EnterSell
<1>3. /\ f.who = w /\ f.pc = "fee" /\ f.fee = Fee(GrossEthOut(x)) /\ f.toTrader = EthOut(x)
      /\ f.tokens = 0 /\ f.crossing = FALSE /\ f.saved = Storage
  BY <1>1
<1>4. /\ frames = <<>> /\ frames' = <<f>> /\ locked'
      /\ Committed' = Committed /\ A!Inv
      /\ Committed.ethReserve = ethReserve /\ Committed.tokenReserve = tokenReserve
      /\ Committed.tokensSold = tokensSold /\ Committed.graduated = graduated
      /\ Committed.purchasedOf = purchasedOf
      /\ Committed.eth = eth /\ Committed.tok = tok
  BY <1>1, <1>2, <1>3, CallBegins
<1>5. eth \in [Accounts -> Nat] /\ tok \in [Wallets \cup {curve} -> Nat]
  BY <1>4, CommittedTypes
<1>6. GrossEthOut(x) \in Nat /\ Fee(GrossEthOut(x)) \in Nat /\ EthOut(x) \in Nat
  <2>1. A!GrossEthOut(x) \in Nat /\ A!EthOut(x) \in Nat
    BY <1>2, <1>4, A!PreviewSellFacts, Assumptions DEF A!Inv
  <2>2. A!Fee(A!GrossEthOut(x)) \in Nat
    BY <2>1, A!FeeFacts, Assumptions
  <2> QED BY <1>4, <2>1, <2>2, IdleOperators
<1>7. FrameOK(f)
  <2>1. f.tokens \in Nat
    BY <1>3
  <2>2. f.pc \in PCs
    BY <1>3 DEF PCs
  <2>3. f.crossing \in BOOLEAN
    <3>1. f.crossing = FALSE
      BY <1>3
    <3> QED BY <3>1
  <2> QED BY <1>3, <1>6, <2>1, <2>2, <2>3 DEF FrameOK
<1>8. SellFrame(f, x)'
  <2>1. /\ A!GrossEthOut(x)' = GrossEthOut(x) /\ A!EthOut(x)' = EthOut(x)
        /\ A!SellEthReserve(x)' = SellEthReserve(x)
    BY <1>4, IdleOperators, SameOperators
  <2>2. A!Fee(A!GrossEthOut(x))' = Fee(GrossEthOut(x))
    BY <2>1 DEF A!Fee, Fee, A!BpsOf, BpsOf
  <2> QED BY <1>2, <1>3, <1>4, <1>6, <2>1, <2>2 DEF SellFrame
<1>9. Accounted(f, 0, x)'
  <2>1. /\ ~FeePaid(f) /\ ~TokensMoved(f) /\ ~TraderPaid(f)
    BY <1>3 DEF FeePaid, TokensMoved, TraderPaid
  <2>2. eth' = [Committed.eth EXCEPT ![w] = @ - 0 + 0, ![treasury] = @ + 0,
                                     ![curve] = @ + 0 - 0 - 0]
    BY <1>2, <1>4, <1>5, AccountsDistinct DEF Accounts
  <2>3. tok' = [Committed.tok EXCEPT ![w] = @ - x + 0, ![curve] = @ + x - 0]
    <3>1. w # curve /\ tok[w] \in Nat /\ tok[curve] \in Nat
      BY <1>5, AccountsDistinct
    <3>2. tok[w] - x + 0 = tok[w] - x /\ tok[curve] + x - 0 = tok[curve] + x
      BY <3>1
    <3>3. tok' = [Committed.tok EXCEPT ![w] = tok[w] - x, ![curve] = tok[curve] + x]
      BY <1>2, <1>4, <1>5, <3>1
    <3> QED BY <1>4, <1>5, <3>1, <3>2, <3>3
  <2>4. 0 <= eth'[curve] /\ 0 <= tok'[curve]
    BY <1>2, <1>5, AccountsDistinct DEF Accounts
  <2> QED BY <1>3, <1>4, <2>1, <2>2, <2>3, <2>4 DEF Accounted, Done
<1>10. A!Inv'
  BY <1>2, <1>4, CommittedStep DEF A!vars, A!curveVars
<1> QED BY <1>4, <1>7, <1>8, <1>9, <1>10 DEF CallInv, InFlight, FrameOK

----------------------------------------------------------------------------
(* A call goes on: its frame moves to another program counter. *)

LEMMA CallStays ==
    ASSUME NEW f, frames = <<f>>, NEW pc, Goto(pc), NEW g, g = [f EXCEPT !.pc = pc]
    PROVE  frames' = <<g>> /\ Committed' = Committed
<1>1. frames' = <<g>>
  BY OneFrame DEF Goto
<1>2. g.saved = f.saved
  OBVIOUS
<1> QED BY <1>1, <1>2, OneFrame DEF Committed, Idle

\* What the call computed when it began stands while the curve's storage does.
LEMMA FrameStands ==
    ASSUME NEW f, NEW g, Committed' = Committed, UNCHANGED curveVars,
           g.who = f.who, g.fee = f.fee, g.toTrader = f.toTrader,
           g.tokens = f.tokens, g.crossing = f.crossing
    PROVE  /\ \A v \in Nat : BuyFrame(f, v) => BuyFrame(g, v)'
           /\ \A x \in Nat : SellFrame(f, x) => SellFrame(g, x)'
<1>1. ASSUME NEW v \in Nat, BuyFrame(f, v) PROVE BuyFrame(g, v)'
  <2>1. /\ A!Crosses(v)' <=> A!Crosses(v)
        /\ A!remaining' = A!remaining /\ A!PreviewTokens(v)' = A!PreviewTokens(v)
        /\ A!Charged(v)' = A!Charged(v) /\ A!netNeeded' = A!netNeeded /\ A!Fee(v)' = A!Fee(v)
        /\ A!finalEthReserve' = A!finalEthReserve /\ A!BuyEthReserve(v)' = A!BuyEthReserve(v)
        /\ A!finalTokenReserve' = A!finalTokenReserve
        /\ A!BuyTokenReserve(v)' = A!BuyTokenReserve(v)
        /\ A!WithinBuyCap(f.who, f.tokens)' <=> A!WithinBuyCap(f.who, f.tokens)
        /\ A!Tally(f.who, f.tokens)' = A!Tally(f.who, f.tokens)
    BY SameOperators
  <2>2. A!Crosses(v)' \in BOOLEAN /\ A!Crosses(v) \in BOOLEAN
    BY DEF A!Crosses
  <2>3. /\ ethReserve' = ethReserve /\ tokenReserve' = tokenReserve
        /\ tokensSold' = tokensSold /\ graduated' = graduated /\ purchasedOf' = purchasedOf
    BY DEF curveVars
  <2> QED BY <1>1, <2>1, <2>2, <2>3 DEF BuyFrame
<1>2. ASSUME NEW x \in Nat, SellFrame(f, x) PROVE SellFrame(g, x)'
  BY <1>2, SameOperators DEF SellFrame, curveVars
<1> QED BY <1>1, <1>2

LEMMA CallGoesOn ==
    ASSUME CallInv, NEW f, frames = <<f>>, NEW pc \in PCs, Goto(pc),
           UNCHANGED <<curveVars, strayEth, locked>>,
           NEW g, g = [f EXCEPT !.pc = pc],
           \A in \in Nat, pulled \in Nat :
              Accounted(f, in, pulled) => Accounted(g, in, pulled)'
    PROVE  CallInv' /\ Committed' = Committed
<1>1. InFlight(f) /\ locked /\ A!Inv
  <2>1. frames # <<>>
    OBVIOUS
  <2>2. PICK h : frames = <<h>> /\ locked /\ InFlight(h)
    BY <2>1 DEF CallInv
  <2>3. h = f
    BY <2>2
  <2> QED BY <2>2, <2>3 DEF CallInv
<1>2. frames' = <<g>>
  BY OneFrame DEF Goto
<1>3. /\ g.who = f.who /\ g.pc = pc /\ g.fee = f.fee /\ g.toTrader = f.toTrader
      /\ g.tokens = f.tokens /\ g.crossing = f.crossing /\ g.saved = f.saved
  OBVIOUS
<1>4. Committed' = Committed
  BY <1>2, <1>3, OneFrame DEF Committed, Idle
<1>5. FrameOK(g)
  BY <1>1, <1>3 DEF InFlight, FrameOK
<1>6. ASSUME NEW v \in Nat, BuyFrame(f, v) PROVE BuyFrame(g, v)'
  BY <1>3, <1>4, <1>6, FrameStands
<1>7. ASSUME NEW x \in Nat, SellFrame(f, x) PROVE SellFrame(g, x)'
  BY <1>3, <1>4, <1>7, FrameStands
<1>8. A!Inv'
  BY <1>1, <1>4, CommittedStep DEF A!vars, A!curveVars
<1>9. InFlight(g)'
  BY <1>1, <1>5, <1>6, <1>7 DEF InFlight, FrameOK
<1> QED BY <1>1, <1>2, <1>4, <1>8, <1>9 DEF CallInv

\* Two updates of the same ledger in a row.
LEMMA UpdateAgain ==
    ASSUME NEW E, NEW w \in Wallets, E \in [Accounts -> Nat],
           NEW a, NEW b, NEW c, NEW d, NEW e
    PROVE  LET F == [E EXCEPT ![w] = a, ![treasury] = b, ![curve] = c]
           IN  /\ F[w] = a /\ F[treasury] = b /\ F[curve] = c
               /\ [F EXCEPT ![curve] = d, ![treasury] = e]
                    = [E EXCEPT ![w] = a, ![treasury] = e, ![curve] = d]
               /\ [F EXCEPT ![curve] = d, ![w] = e]
                    = [E EXCEPT ![w] = e, ![treasury] = b, ![curve] = d]
<1>1. /\ w \in Accounts /\ treasury \in Accounts /\ curve \in Accounts
      /\ w # treasury /\ w # curve /\ treasury # curve
  BY AccountsDistinct DEF Accounts
<1> QED BY <1>1

LEMMA UpdateTokensAgain ==
    ASSUME NEW E, NEW w \in Wallets, E \in [Wallets \cup {curve} -> Nat],
           NEW a, NEW b, NEW d, NEW e
    PROVE  LET F == [E EXCEPT ![w] = a, ![curve] = b]
           IN  /\ F[w] = a /\ F[curve] = b
               /\ [F EXCEPT ![curve] = d, ![w] = e] = [E EXCEPT ![w] = e, ![curve] = d]
<1>1. w # curve /\ w \in Wallets \cup {curve} /\ curve \in Wallets \cup {curve}
  BY AccountsDistinct
<1>2. DOMAIN E = Wallets \cup {curve}
  OBVIOUS
<1> QED BY <1>1, <1>2

LEMMA InFlightFacts ==
    ASSUME CallInv, NEW f, frames = <<f>>
    PROVE  /\ InFlight(f) /\ FrameOK(f) /\ locked /\ A!Inv /\ Committed = f.saved
           /\ Committed.eth \in [Accounts -> Nat]
           /\ Committed.tok \in [Wallets \cup {curve} -> Nat]
<1>1. frames # <<>>
  OBVIOUS
<1>2. PICK h : frames = <<h>> /\ locked /\ InFlight(h)
  BY <1>1 DEF CallInv
<1>3. h = f
  BY <1>2
<1> QED BY <1>2, <1>3, CommittedTypes, OneFrame DEF CallInv, InFlight

LEMMA PayFeeInv ==
    ASSUME CallInv, NEW f, frames = <<f>>, PayFee
    PROVE  CallInv' /\ Committed' = Committed
<1> DEFINE pc == IF f.fee = 0 THEN "tokens" ELSE "feeCall"
<1>1. /\ f.pc = "fee" /\ Goto(pc)
      /\ f.fee <= eth[curve]
      /\ eth' = [eth EXCEPT ![curve] = @ - f.fee, ![treasury] = @ + f.fee]
      /\ UNCHANGED <<curveVars, tok, strayEth, locked>>
  BY OneFrame DEF PayFee, SendEth
<1>2. pc \in PCs
  BY DEF PCs
<1>3. PICK g : g = [f EXCEPT !.pc = pc]
  OBVIOUS
<1>4. /\ FrameOK(f) /\ Committed.eth \in [Accounts -> Nat]
      /\ f.who \in Wallets /\ f.fee \in Nat
  BY InFlightFacts DEF FrameOK
<1>5. frames' = <<g>> /\ Committed' = Committed
  BY <1>1, <1>3, CallStays
<1>6. /\ g.who = f.who /\ g.pc = pc /\ g.fee = f.fee /\ g.toTrader = f.toTrader
      /\ g.tokens = f.tokens /\ g.saved = f.saved
  BY <1>3
<1>7. /\ ~FeePaid(f) /\ ~TokensMoved(f) /\ ~TraderPaid(f)
      /\ FeePaid(g) /\ ~TokensMoved(g) /\ ~TraderPaid(g)
  BY <1>1, <1>6 DEF FeePaid, TokensMoved, TraderPaid
<1>8. ASSUME NEW in \in Nat, NEW pulled \in Nat, Accounted(f, in, pulled)
      PROVE  Accounted(g, in, pulled)'
  <2> DEFINE E == Committed.eth
  <2>1. /\ eth = [E EXCEPT ![f.who] = E[f.who] - in + 0, ![treasury] = E[treasury] + 0,
                           ![curve] = E[curve] + in - 0 - 0]
        /\ 0 <= eth[curve] /\ 0 <= tok[curve]
        /\ tok = [Committed.tok EXCEPT ![f.who] = @ - pulled + 0, ![curve] = @ + pulled - 0]
    BY <1>4, <1>7, <1>8, AccountsDistinct DEF Accounted, Done, Accounts
  <2>2. /\ E[f.who] \in Int /\ E[treasury] \in Nat /\ E[curve] \in Nat
    BY <1>4 DEF Accounts
  <2>3. eth[curve] = E[curve] + in - 0 - 0 /\ eth[treasury] = E[treasury] + 0
    BY <1>4, <2>1, AccountsDistinct DEF Accounts
  <2>4. /\ eth[curve] - f.fee = E[curve] + in - f.fee - 0
        /\ eth[treasury] + f.fee = E[treasury] + f.fee
        /\ 0 <= eth[curve] - f.fee
    BY <1>1, <1>4, <2>1, <2>2, <2>3
  <2>5. curve \in DOMAIN eth /\ treasury \in DOMAIN eth /\ curve # treasury
    BY <1>4, <2>1, AccountsDistinct DEF Accounts
  <2>6. eth' = [eth EXCEPT ![curve] = E[curve] + in - f.fee - 0,
                           ![treasury] = E[treasury] + f.fee]
    BY <1>1, <2>4, <2>5
  <2>7. eth' = [E EXCEPT ![f.who] = E[f.who] - in + 0, ![treasury] = E[treasury] + f.fee,
                         ![curve] = E[curve] + in - f.fee - 0]
    BY <1>4, <2>1, <2>6, UpdateAgain
  <2>8. eth' = [E EXCEPT ![f.who] = @ - in + 0, ![treasury] = @ + f.fee,
                         ![curve] = @ + in - f.fee - 0]
    BY <1>4, <2>7, AccountsDistinct DEF Accounts
  <2>9. 0 <= eth'[curve] /\ 0 <= tok'[curve]
    BY <1>1, <1>4, <2>1, <2>4, <2>7, UpdateAgain
  <2>10. /\ g.pc \notin {"fee", "feeCall"} => CanReceive(treasury, g.fee)
         /\ g.pc # "finish"
    BY <1>4, <1>6 DEF CanReceive
  <2>11. tok' = [Committed.tok EXCEPT ![f.who] = @ - pulled + 0, ![curve] = @ + pulled - 0]
    BY <1>1, <2>1
  <2> QED BY <1>5, <1>6, <1>7, <2>8, <2>9, <2>10, <2>11 DEF Accounted, Done
<1> QED BY <1>1, <1>2, <1>3, <1>8, <1>5, CallGoesOn

LEMMA MoveTokensInv ==
    ASSUME CallInv, NEW f, frames = <<f>>, MoveTokens
    PROVE  CallInv' /\ Committed' = Committed
<1>1. /\ f.pc = "tokens" /\ Goto("trader")
      /\ f.tokens <= tok[curve]
      /\ tok' = [tok EXCEPT ![curve] = @ - f.tokens, ![f.who] = @ + f.tokens]
      /\ UNCHANGED <<curveVars, eth, strayEth, locked>>
  BY OneFrame DEF MoveTokens
<1>2. "trader" \in PCs
  BY DEF PCs
<1>3. PICK g : g = [f EXCEPT !.pc = "trader"]
  OBVIOUS
<1>4. /\ FrameOK(f) /\ Committed.tok \in [Wallets \cup {curve} -> Nat]
      /\ f.who \in Wallets /\ f.tokens \in Nat
  BY InFlightFacts DEF FrameOK
<1>5. frames' = <<g>> /\ Committed' = Committed
  BY <1>1, <1>3, CallStays
<1>6. /\ g.who = f.who /\ g.pc = "trader" /\ g.fee = f.fee /\ g.toTrader = f.toTrader
      /\ g.tokens = f.tokens /\ g.saved = f.saved
  BY <1>3
<1>7. /\ FeePaid(f) /\ ~TokensMoved(f) /\ ~TraderPaid(f)
      /\ FeePaid(g) /\ TokensMoved(g) /\ ~TraderPaid(g)
  BY <1>1, <1>6 DEF FeePaid, TokensMoved, TraderPaid
<1>8. ASSUME NEW in \in Nat, NEW pulled \in Nat, Accounted(f, in, pulled)
      PROVE  Accounted(g, in, pulled)'
  <2> DEFINE T == Committed.tok
  <2>1. /\ tok = [T EXCEPT ![f.who] = T[f.who] - pulled + 0,
                           ![curve] = T[curve] + pulled - 0]
        /\ 0 <= eth[curve]
        /\ CanReceive(treasury, f.fee)
        /\ eth = [Committed.eth EXCEPT ![f.who] = @ - in + 0, ![treasury] = @ + f.fee,
                                       ![curve] = @ + in - f.fee - 0]
    BY <1>1, <1>4, <1>7, <1>8, AccountsDistinct DEF Accounted, Done
  <2>2. /\ T[f.who] \in Nat /\ T[curve] \in Nat
    BY <1>4
  <2>3. tok[curve] = T[curve] + pulled - 0 /\ tok[f.who] = T[f.who] - pulled + 0
    BY <1>4, <2>1, UpdateTokensAgain
  <2>4. /\ tok[curve] - f.tokens = T[curve] + pulled - f.tokens
        /\ tok[f.who] + f.tokens = T[f.who] - pulled + f.tokens
        /\ 0 <= tok[curve] - f.tokens
    BY <1>1, <1>4, <2>1, <2>2, <2>3
  <2>5. curve \in DOMAIN tok /\ f.who \in DOMAIN tok /\ curve # f.who
    BY <1>4, <2>1, AccountsDistinct
  <2>6. tok' = [tok EXCEPT ![curve] = T[curve] + pulled - f.tokens,
                           ![f.who] = T[f.who] - pulled + f.tokens]
    BY <1>1, <2>4, <2>5
  <2>7. tok' = [T EXCEPT ![f.who] = T[f.who] - pulled + f.tokens,
                         ![curve] = T[curve] + pulled - f.tokens]
    BY <1>4, <2>1, <2>6, UpdateTokensAgain
  <2>8. tok' = [T EXCEPT ![f.who] = @ - pulled + f.tokens,
                         ![curve] = @ + pulled - f.tokens]
    BY <1>4, <2>7, AccountsDistinct
  <2>9. 0 <= eth'[curve] /\ 0 <= tok'[curve]
    BY <1>1, <1>4, <2>1, <2>4, <2>7, UpdateTokensAgain
  <2>10. eth' = [Committed.eth EXCEPT ![f.who] = @ - in + 0, ![treasury] = @ + f.fee,
                                      ![curve] = @ + in - f.fee - 0]
    BY <1>1, <2>1
  <2> QED BY <1>5, <1>6, <1>7, <2>1, <2>8, <2>9, <2>10 DEF Accounted, Done, CanReceive
<1> QED BY <1>1, <1>2, <1>3, <1>8, <1>5, CallGoesOn

LEMMA PayTraderInv ==
    ASSUME CallInv, NEW f, frames = <<f>>, PayTrader
    PROVE  CallInv' /\ Committed' = Committed
<1> DEFINE pc == IF f.toTrader = 0 THEN "finish" ELSE "traderCall"
<1>1. /\ f.pc = "trader" /\ Goto(pc)
      /\ f.toTrader <= eth[curve]
      /\ eth' = [eth EXCEPT ![curve] = @ - f.toTrader, ![f.who] = @ + f.toTrader]
      /\ UNCHANGED <<curveVars, tok, strayEth, locked>>
  BY OneFrame DEF PayTrader, SendEth
<1>2. pc \in PCs
  BY DEF PCs
<1>3. PICK g : g = [f EXCEPT !.pc = pc]
  OBVIOUS
<1>4. /\ FrameOK(f) /\ Committed.eth \in [Accounts -> Nat]
      /\ f.who \in Wallets /\ f.toTrader \in Nat /\ f.fee \in Nat
  BY InFlightFacts DEF FrameOK
<1>5. frames' = <<g>> /\ Committed' = Committed
  BY <1>1, <1>3, CallStays
<1>6. /\ g.who = f.who /\ g.pc = pc /\ g.fee = f.fee /\ g.toTrader = f.toTrader
      /\ g.tokens = f.tokens /\ g.saved = f.saved
  BY <1>3
<1>7. /\ FeePaid(f) /\ TokensMoved(f) /\ ~TraderPaid(f)
      /\ FeePaid(g) /\ TokensMoved(g) /\ TraderPaid(g)
  BY <1>1, <1>6 DEF FeePaid, TokensMoved, TraderPaid
<1>8. ASSUME NEW in \in Nat, NEW pulled \in Nat, Accounted(f, in, pulled)
      PROVE  Accounted(g, in, pulled)'
  <2> DEFINE E == Committed.eth
  <2>1. /\ eth = [E EXCEPT ![f.who] = E[f.who] - in + 0, ![treasury] = E[treasury] + f.fee,
                           ![curve] = E[curve] + in - f.fee - 0]
        /\ 0 <= eth[curve] /\ 0 <= tok[curve]
        /\ CanReceive(treasury, f.fee)
        /\ tok = [Committed.tok EXCEPT ![f.who] = @ - pulled + f.tokens,
                                       ![curve] = @ + pulled - f.tokens]
    BY <1>1, <1>4, <1>7, <1>8, AccountsDistinct DEF Accounted, Done, Accounts
  <2>2. /\ E[f.who] \in Int /\ E[treasury] \in Nat /\ E[curve] \in Nat
    BY <1>4 DEF Accounts
  <2>3. eth[curve] = E[curve] + in - f.fee - 0 /\ eth[f.who] = E[f.who] - in + 0
    BY <1>4, <2>1, AccountsDistinct DEF Accounts
  <2>4. /\ eth[curve] - f.toTrader = E[curve] + in - f.fee - f.toTrader
        /\ eth[f.who] + f.toTrader = E[f.who] - in + f.toTrader
        /\ 0 <= eth[curve] - f.toTrader
    BY <1>1, <1>4, <2>1, <2>2, <2>3
  <2>5. curve \in DOMAIN eth /\ f.who \in DOMAIN eth /\ curve # f.who
    BY <1>4, <2>1, AccountsDistinct DEF Accounts
  <2>6. eth' = [eth EXCEPT ![curve] = E[curve] + in - f.fee - f.toTrader,
                           ![f.who] = E[f.who] - in + f.toTrader]
    BY <1>1, <2>4, <2>5
  <2>7. eth' = [E EXCEPT ![f.who] = E[f.who] - in + f.toTrader,
                         ![treasury] = E[treasury] + f.fee,
                         ![curve] = E[curve] + in - f.fee - f.toTrader]
    BY <1>4, <2>1, <2>6, UpdateAgain
  <2>8. eth' = [E EXCEPT ![f.who] = @ - in + f.toTrader, ![treasury] = @ + f.fee,
                         ![curve] = @ + in - f.fee - f.toTrader]
    BY <1>4, <2>7, AccountsDistinct DEF Accounts
  <2>9. 0 <= eth'[curve] /\ 0 <= tok'[curve]
    BY <1>1, <1>4, <2>1, <2>4, <2>7, UpdateAgain
  <2>10. g.pc = "finish" => CanReceive(f.who, f.toTrader)
    BY <1>4, <1>6 DEF CanReceive
  <2>11. tok' = [Committed.tok EXCEPT ![f.who] = @ - pulled + f.tokens,
                                      ![curve] = @ + pulled - f.tokens]
    BY <1>1, <2>1
  <2> QED BY <1>5, <1>6, <1>7, <2>1, <2>8, <2>9, <2>10, <2>11 DEF Accounted, Done, CanReceive
<1> QED BY <1>1, <1>2, <1>3, <1>8, <1>5, CallGoesOn

\* A recipient that returned has taken its payment.
LEMMA RecipientReturnsInv ==
    ASSUME CallInv, NEW f, frames = <<f>>, RecipientReturns
    PROVE  CallInv' /\ Committed' = Committed
<1> DEFINE pc == IF f.pc = "feeCall" THEN "tokens" ELSE "finish"
<1>1. /\ f.pc \in {"feeCall", "traderCall"} /\ Goto(pc)
      /\ (IF f.pc = "feeCall" THEN treasury ELSE f.who) \notin Refusing
      /\ UNCHANGED <<vars, locked>>
  BY OneFrame DEF RecipientReturns, RecipientRuns
<1>2. pc \in PCs
  BY DEF PCs
<1>3. PICK g : g = [f EXCEPT !.pc = pc]
  OBVIOUS
<1>4. frames' = <<g>> /\ Committed' = Committed
  BY <1>1, <1>3, CallStays
<1>5. /\ g.who = f.who /\ g.pc = pc /\ g.fee = f.fee /\ g.toTrader = f.toTrader
      /\ g.tokens = f.tokens
  BY <1>3
<1>6. /\ FeePaid(g) <=> FeePaid(f)
      /\ TokensMoved(g) <=> TokensMoved(f)
      /\ TraderPaid(g) <=> TraderPaid(f)
  BY <1>1, <1>5 DEF FeePaid, TokensMoved, TraderPaid
<1>7. /\ Done(FeePaid(g), f.fee) = Done(FeePaid(f), f.fee)
      /\ Done(TraderPaid(g), f.toTrader) = Done(TraderPaid(f), f.toTrader)
      /\ Done(TokensMoved(g), f.tokens) = Done(TokensMoved(f), f.tokens)
  BY <1>6 DEF Done
<1>8. eth' = eth /\ tok' = tok /\ UNCHANGED <<curveVars, strayEth, locked>>
  BY <1>1 DEF vars
<1>9. ASSUME NEW in \in Nat, NEW pulled \in Nat, Accounted(f, in, pulled)
      PROVE  Accounted(g, in, pulled)'
  <2>1. /\ g.pc \notin {"fee", "feeCall"} => CanReceive(treasury, f.fee)
        /\ g.pc = "finish" => CanReceive(f.who, f.toTrader)
    BY <1>1, <1>5, <1>9 DEF Accounted, CanReceive
  <2> QED BY <1>4, <1>5, <1>7, <1>8, <1>9, <2>1 DEF Accounted, CanReceive
<1> QED BY <1>1, <1>2, <1>3, <1>4, <1>8, <1>9, CallGoesOn

----------------------------------------------------------------------------
(* A call ends. *)

LEMMA NoCallInv ==
    ASSUME A!Inv', frames' = <<>>, ~locked'
    PROVE  CallInv'
  BY DEF CallInv

\* A call that reverts leaves what it found.
LEMMA CallRevertsInv ==
    ASSUME CallInv, NEW f, frames = <<f>>, CallReverts
    PROVE  CallInv' /\ UNCHANGED A!vars
<1>1. /\ ethReserve' = f.saved.ethReserve /\ tokenReserve' = f.saved.tokenReserve
      /\ tokensSold' = f.saved.tokensSold /\ graduated' = f.saved.graduated
      /\ purchasedOf' = f.saved.purchasedOf
      /\ eth' = f.saved.eth /\ tok' = f.saved.tok /\ strayEth' = strayEth
      /\ frames' = <<>> /\ ~locked'
  <2>1. Top = f /\ OuterFrames = <<>> /\ Len(frames) = 1
    BY OneFrame
  <2>2. /\ Restore(Top.saved) /\ frames' = OuterFrames /\ strayEth' = strayEth
        /\ locked' = (Len(frames) > 1)
    BY DEF CallReverts
  <2>3. Restore(f.saved)
    BY <2>1, <2>2 DEF Restore
  <2>4. ~(Len(frames) > 1)
    BY <2>1
  <2>5. ~locked'
    BY <2>2, <2>4, Zenon
  <2>6. frames' = <<>>
    BY <2>1, <2>2
  <2> QED BY <2>2, <2>3, <2>5, <2>6 DEF Restore
<1>2. Committed = f.saved
  BY InFlightFacts
<1>3. /\ Committed'.ethReserve = ethReserve' /\ Committed'.tokenReserve = tokenReserve'
      /\ Committed'.tokensSold = tokensSold' /\ Committed'.graduated = graduated'
      /\ Committed'.purchasedOf = purchasedOf'
      /\ Committed'.eth = eth' /\ Committed'.tok = tok'
  BY <1>1 DEF Committed, Idle, Storage
<1>4. UNCHANGED A!vars
  BY <1>1, <1>2, <1>3 DEF A!vars, A!curveVars
<1> QED BY <1>1, <1>4, InFlightFacts, CommittedStep, NoCallInv

LEMMA FinishFacts ==
    ASSUME CallInv, NEW f, frames = <<f>>, Finish
    PROVE  /\ f.pc = "finish" /\ FeePaid(f) /\ TokensMoved(f) /\ TraderPaid(f)
           /\ f.crossing => raise <= eth[curve] /\ graduationManager \notin Refusing
           /\ eth' = IF f.crossing
                     THEN [eth EXCEPT ![curve] = @ - raise, ![graduationManager] = @ + raise]
                     ELSE eth
           /\ graduated' = (graduated \/ f.crossing)
           /\ frames' = <<>> /\ ~locked'
           /\ UNCHANGED <<ethReserve, tokenReserve, tokensSold, purchasedOf, tok, strayEth>>
           /\ Committed'.ethReserve = ethReserve' /\ Committed'.tokenReserve = tokenReserve'
           /\ Committed'.tokensSold = tokensSold' /\ Committed'.graduated = graduated'
           /\ Committed'.purchasedOf = purchasedOf'
           /\ Committed'.eth = eth' /\ Committed'.tok = tok'
<1>1. /\ f.pc = "finish"
      /\ f.crossing => raise <= eth[curve] /\ graduationManager \notin Refusing
      /\ eth' = IF f.crossing
                THEN [eth EXCEPT ![curve] = @ - raise, ![graduationManager] = @ + raise]
                ELSE eth
      /\ graduated' = (graduated \/ f.crossing)
      /\ frames' = <<>> /\ ~locked'
      /\ UNCHANGED <<ethReserve, tokenReserve, tokensSold, purchasedOf, tok, strayEth>>
  BY OneFrame DEF Finish
<1>2. /\ Committed'.ethReserve = ethReserve' /\ Committed'.tokenReserve = tokenReserve'
      /\ Committed'.tokensSold = tokensSold' /\ Committed'.graduated = graduated'
      /\ Committed'.purchasedOf = purchasedOf'
      /\ Committed'.eth = eth' /\ Committed'.tok = tok'
  BY <1>1 DEF Committed, Idle, Storage
<1> QED BY <1>1, <1>2 DEF FeePaid, TokensMoved, TraderPaid

\* What the balances come to when all is paid.
LEMMA PaidInFull ==
    ASSUME CallInv, NEW f, frames = <<f>>, Finish,
           NEW in \in Nat, NEW pulled \in Nat, Accounted(f, in, pulled)
    PROVE  LET E == Committed.eth
               T == Committed.tok
           IN  /\ eth = [E EXCEPT ![f.who] = E[f.who] - in + f.toTrader,
                                   ![treasury] = E[treasury] + f.fee,
                                   ![curve] = E[curve] + in - f.fee - f.toTrader]
               /\ tok = [T EXCEPT ![f.who] = T[f.who] - pulled + f.tokens,
                                   ![curve] = T[curve] + pulled - f.tokens]
               /\ eth[curve] = E[curve] + in - f.fee - f.toTrader
               /\ 0 <= E[curve] + in - f.fee - f.toTrader
               /\ 0 <= T[curve] + pulled - f.tokens
               /\ CanReceive(treasury, f.fee) /\ CanReceive(f.who, f.toTrader)
               /\ E[f.who] \in Nat /\ E[treasury] \in Nat /\ E[curve] \in Nat
               /\ T[f.who] \in Nat /\ T[curve] \in Nat
<1> DEFINE E == Committed.eth
           T == Committed.tok
<1>1. FeePaid(f) /\ TokensMoved(f) /\ TraderPaid(f) /\ f.pc = "finish"
  BY FinishFacts
<1>2. /\ f.who \in Wallets /\ E \in [Accounts -> Nat] /\ T \in [Wallets \cup {curve} -> Nat]
  BY InFlightFacts DEF FrameOK
<1>3. /\ eth = [E EXCEPT ![f.who] = E[f.who] - in + f.toTrader,
                          ![treasury] = E[treasury] + f.fee,
                          ![curve] = E[curve] + in - f.fee - f.toTrader]
      /\ tok = [T EXCEPT ![f.who] = T[f.who] - pulled + f.tokens,
                          ![curve] = T[curve] + pulled - f.tokens]
      /\ 0 <= eth[curve] /\ 0 <= tok[curve]
      /\ CanReceive(treasury, f.fee) /\ CanReceive(f.who, f.toTrader)
  BY <1>1, <1>2, AccountsDistinct DEF Accounted, Done, Accounts
<1>4. /\ eth[curve] = E[curve] + in - f.fee - f.toTrader
      /\ tok[curve] = T[curve] + pulled - f.tokens
  BY <1>2, <1>3, AccountsDistinct DEF Accounts
<1> QED BY <1>2, <1>3, <1>4 DEF Accounts

LEMMA BuyFinishes ==
    ASSUME CallInv, NEW f, frames = <<f>>, Finish, ~f.crossing,
           NEW v \in Nat, BuyFrame(f, v), Accounted(f, v, 0)
    PROVE  A!Buy(f.who, v, 0)
<1> DEFINE E == Committed.eth
           T == Committed.tok
<1>1. /\ FrameOK(f) /\ A!Inv /\ E \in [Accounts -> Nat] /\ T \in [Wallets \cup {curve} -> Nat]
  BY InFlightFacts
<1>2. /\ f.tokens = A!PreviewTokens(v) /\ f.fee = A!Fee(v) /\ f.toTrader = 0
      /\ ~A!Crosses(v) /\ 0 < f.tokens
      /\ 0 < v /\ v <= E[f.who] /\ ~Committed.graduated /\ ~graduated
      /\ Committed.tokensSold + f.tokens <= curveTokenAllocation
      /\ A!WithinBuyCap(f.who, f.tokens)
      /\ ethReserve = A!BuyEthReserve(v) /\ tokenReserve = A!BuyTokenReserve(v)
      /\ tokensSold = Committed.tokensSold + f.tokens
      /\ purchasedOf = A!Tally(f.who, f.tokens)
  BY DEF BuyFrame
<1>3. /\ f.who \in Wallets /\ f.fee \in Nat /\ f.tokens \in Nat
  BY <1>1 DEF FrameOK
<1>4. 0 \in Nat
  OBVIOUS
<1>5. /\ eth = [E EXCEPT ![f.who] = E[f.who] - v + f.toTrader,
                          ![treasury] = E[treasury] + f.fee,
                          ![curve] = E[curve] + v - f.fee - f.toTrader]
      /\ tok = [T EXCEPT ![f.who] = T[f.who] - 0 + f.tokens,
                          ![curve] = T[curve] + 0 - f.tokens]
      /\ 0 <= T[curve] + 0 - f.tokens
      /\ CanReceive(treasury, f.fee)
      /\ E[f.who] \in Nat /\ E[treasury] \in Nat /\ E[curve] \in Nat
      /\ T[f.who] \in Nat /\ T[curve] \in Nat
  BY <1>4, PaidInFull
<1>6. /\ E[f.who] - v + f.toTrader = E[f.who] - v
      /\ E[curve] + v - f.fee - f.toTrader = E[curve] + (v - f.fee)
      /\ T[f.who] - 0 + f.tokens = T[f.who] + f.tokens
      /\ T[curve] + 0 - f.tokens = T[curve] - f.tokens
      /\ f.tokens <= T[curve]
  BY <1>2, <1>3, <1>5
<1>7. Committed'.eth = [E EXCEPT ![f.who] = @ - v, ![treasury] = @ + f.fee,
                                 ![curve] = @ + (v - f.fee)]
  <2>1. Committed'.eth = eth
    BY FinishFacts
  <2>2. eth = [E EXCEPT ![f.who] = E[f.who] - v, ![treasury] = E[treasury] + f.fee,
                        ![curve] = E[curve] + (v - f.fee)]
    BY <1>5, <1>6
  <2> QED BY <1>1, <1>3, <2>1, <2>2, AccountsDistinct DEF Accounts
<1>8. Committed'.tok = [T EXCEPT ![f.who] = @ + f.tokens, ![curve] = @ - f.tokens]
  <2>1. Committed'.tok = tok
    BY FinishFacts
  <2>2. tok = [T EXCEPT ![f.who] = T[f.who] + f.tokens, ![curve] = T[curve] - f.tokens]
    BY <1>5, <1>6
  <2> QED BY <1>1, <1>3, <2>1, <2>2, AccountsDistinct
<1>9. Committed'.graduated = Committed.graduated
  <2>1. graduated' = FALSE
    BY <1>2, FinishFacts
  <2>2. Committed.graduated = FALSE
    BY <1>1, <1>2, CommittedTypes
  <2> QED BY <2>1, <2>2, FinishFacts
<1>10. /\ Committed'.ethReserve = A!BuyEthReserve(v)
       /\ Committed'.tokenReserve = A!BuyTokenReserve(v)
       /\ Committed'.tokensSold = Committed.tokensSold + f.tokens
       /\ Committed'.purchasedOf = A!Tally(f.who, f.tokens)
       /\ strayEth' = strayEth
  BY <1>2, FinishFacts
<1>11. A!CanReceive(treasury, f.fee) /\ 0 <= f.tokens
  BY <1>3, <1>5 DEF A!CanReceive, CanReceive
<1> QED BY <1>2, <1>6, <1>7, <1>8, <1>9, <1>10, <1>11 DEF A!Buy

LEMMA SellFinishes ==
    ASSUME CallInv, NEW f, frames = <<f>>, Finish,
           NEW x \in Nat, SellFrame(f, x), Accounted(f, 0, x)
    PROVE  A!Sell(f.who, x, 0)
<1> DEFINE E == Committed.eth
           T == Committed.tok
           gross == A!GrossEthOut(x)
<1>1. /\ FrameOK(f) /\ A!Inv /\ E \in [Accounts -> Nat] /\ T \in [Wallets \cup {curve} -> Nat]
  BY InFlightFacts
<1>2. /\ f.tokens = 0 /\ f.fee = A!Fee(gross) /\ f.toTrader = A!EthOut(x) /\ ~f.crossing
      /\ 0 < x /\ x <= T[f.who] /\ x <= Committed.tokensSold
      /\ ~Committed.graduated /\ ~graduated /\ 0 <= gross
      /\ ethReserve = A!SellEthReserve(x)
      /\ tokenReserve = Committed.tokenReserve + x
      /\ tokensSold = Committed.tokensSold - x
      /\ purchasedOf = Committed.purchasedOf
  BY DEF SellFrame
<1>3. /\ f.who \in Wallets /\ f.fee \in Nat /\ f.toTrader \in Nat
  BY <1>1 DEF FrameOK
<1>4. gross \in Nat /\ f.fee + f.toTrader = gross
  <2>1. gross \in Nat
    BY <1>1, <1>2, A!PreviewSellFacts, Assumptions DEF A!Inv
  <2> QED BY <1>2, <1>3, <2>1 DEF A!EthOut
<1>5. 0 \in Nat
  OBVIOUS
<1>6. /\ eth = [E EXCEPT ![f.who] = E[f.who] - 0 + f.toTrader,
                          ![treasury] = E[treasury] + f.fee,
                          ![curve] = E[curve] + 0 - f.fee - f.toTrader]
      /\ tok = [T EXCEPT ![f.who] = T[f.who] - x + f.tokens,
                          ![curve] = T[curve] + x - f.tokens]
      /\ 0 <= E[curve] + 0 - f.fee - f.toTrader
      /\ CanReceive(treasury, f.fee) /\ CanReceive(f.who, f.toTrader)
      /\ E[f.who] \in Nat /\ E[treasury] \in Nat /\ E[curve] \in Nat
      /\ T[f.who] \in Nat /\ T[curve] \in Nat
  BY <1>5, PaidInFull
<1>7. /\ E[f.who] - 0 + f.toTrader = E[f.who] + f.toTrader
      /\ E[curve] + 0 - f.fee - f.toTrader = E[curve] - gross
      /\ T[f.who] - x + f.tokens = T[f.who] - x
      /\ T[curve] + x - f.tokens = T[curve] + x
      /\ gross <= E[curve]
  BY <1>2, <1>3, <1>4, <1>6
<1>8. Committed'.eth = [E EXCEPT ![f.who] = @ + A!EthOut(x), ![treasury] = @ + f.fee,
                                 ![curve] = @ - gross]
  <2>1. Committed'.eth = eth
    BY <1>2, FinishFacts
  <2>2. eth = [E EXCEPT ![f.who] = E[f.who] + f.toTrader, ![treasury] = E[treasury] + f.fee,
                        ![curve] = E[curve] - gross]
    BY <1>6, <1>7
  <2> QED BY <1>1, <1>2, <1>3, <2>1, <2>2, AccountsDistinct DEF Accounts
<1>9. Committed'.tok = [T EXCEPT ![f.who] = @ - x, ![curve] = @ + x]
  <2>1. Committed'.tok = tok
    BY FinishFacts
  <2>2. tok = [T EXCEPT ![f.who] = T[f.who] - x, ![curve] = T[curve] + x]
    BY <1>6, <1>7
  <2> QED BY <1>1, <1>3, <2>1, <2>2, AccountsDistinct
<1>10. Committed'.graduated = Committed.graduated
  <2>1. graduated' = FALSE
    BY <1>2, FinishFacts
  <2>2. Committed.graduated = FALSE
    BY <1>1, <1>2, CommittedTypes
  <2> QED BY <2>1, <2>2, FinishFacts
<1>11. /\ Committed'.ethReserve = A!SellEthReserve(x)
       /\ Committed'.tokenReserve = Committed.tokenReserve + x
       /\ Committed'.tokensSold = Committed.tokensSold - x
       /\ Committed'.purchasedOf = Committed.purchasedOf
       /\ strayEth' = strayEth
  BY <1>2, FinishFacts
<1>12. /\ A!CanReceive(treasury, f.fee) /\ A!CanReceive(f.who, A!EthOut(x))
       /\ 0 <= A!EthOut(x)
  BY <1>2, <1>3, <1>6 DEF A!CanReceive, CanReceive
<1> QED BY <1>2, <1>7, <1>8, <1>9, <1>10, <1>11, <1>12 DEF A!Sell

LEMMA CrossingBuyFinishes ==
    ASSUME CallInv, NEW f, frames = <<f>>, Finish, f.crossing,
           NEW v \in Nat, BuyFrame(f, v), Accounted(f, v, 0)
    PROVE  A!CrossingBuy(f.who, v, 0)
<1> DEFINE E == Committed.eth
           T == Committed.tok
<1>1. /\ FrameOK(f) /\ A!Inv /\ E \in [Accounts -> Nat] /\ T \in [Wallets \cup {curve} -> Nat]
  BY InFlightFacts
<1>2. /\ f.tokens = A!remaining /\ f.fee = A!Charged(v) - A!netNeeded
      /\ f.toTrader = v - A!Charged(v)
      /\ A!Crosses(v)
      /\ 0 < v /\ v <= E[f.who] /\ ~Committed.graduated
      /\ A!WithinBuyCap(f.who, f.tokens)
      /\ ethReserve = A!finalEthReserve /\ tokenReserve = A!finalTokenReserve
      /\ tokensSold = Committed.tokensSold + f.tokens
      /\ purchasedOf = A!Tally(f.who, f.tokens)
  BY DEF BuyFrame
<1>3. /\ f.who \in Wallets /\ f.fee \in Nat /\ f.tokens \in Nat /\ f.toTrader \in Nat
  BY <1>1 DEF FrameOK
<1>4. /\ A!netNeeded \in Nat /\ A!raise = raise /\ raise \in Nat
  <2>1. A!netNeeded \in Nat
    BY <1>1, <1>2, A!OpenFacts, Assumptions DEF A!Inv
  <2>2. A!raise = raise
    BY DEF A!raise, raise, A!finalEthReserve, finalEthReserve, A!CeilDiv, CeilDiv, A!k, k,
           A!finalTokenReserve, finalTokenReserve
  <2>3. A!raise \in Nat
    BY A!ConstantFacts, Assumptions
  <2> QED BY <2>1, <2>2, <2>3
<1>5. 0 \in Nat
  OBVIOUS
<1>6. /\ eth = [E EXCEPT ![f.who] = E[f.who] - v + f.toTrader,
                          ![treasury] = E[treasury] + f.fee,
                          ![curve] = E[curve] + v - f.fee - f.toTrader]
      /\ tok = [T EXCEPT ![f.who] = T[f.who] - 0 + f.tokens,
                          ![curve] = T[curve] + 0 - f.tokens]
      /\ eth[curve] = E[curve] + v - f.fee - f.toTrader
      /\ 0 <= T[curve] + 0 - f.tokens
      /\ CanReceive(treasury, f.fee) /\ CanReceive(f.who, f.toTrader)
      /\ E[f.who] \in Nat /\ E[treasury] \in Nat /\ E[curve] \in Nat
      /\ T[f.who] \in Nat /\ T[curve] \in Nat
  BY <1>5, PaidInFull
<1>7. /\ raise <= eth[curve] /\ graduationManager \notin Refusing
      /\ eth' = [eth EXCEPT ![curve] = @ - raise, ![graduationManager] = @ + raise]
  BY FinishFacts
<1>8. /\ eth[curve] - raise = E[curve] + (v - f.fee - f.toTrader) - raise
      /\ raise <= E[curve] + (v - f.fee - f.toTrader)
      /\ T[f.who] - 0 + f.tokens = T[f.who] + f.tokens
      /\ T[curve] + 0 - f.tokens = T[curve] - f.tokens
      /\ f.tokens <= T[curve]
  BY <1>3, <1>4, <1>6, <1>7
<1>9. /\ f.who \in Accounts /\ treasury \in Accounts /\ curve \in Accounts
      /\ graduationManager \in Accounts
      /\ f.who # treasury /\ f.who # curve /\ treasury # curve
      /\ graduationManager # f.who /\ graduationManager # curve
      /\ graduationManager # treasury
  BY <1>3, AccountsDistinct DEF Accounts
<1>10. Committed'.eth = [E EXCEPT ![f.who] = @ - v + f.toTrader,
                                  ![treasury] = @ + f.fee,
                                  ![curve] = @ + (v - f.fee - f.toTrader) - raise,
                                  ![graduationManager] = @ + raise]
  <2>1. Committed'.eth = [eth EXCEPT ![curve] = @ - raise, ![graduationManager] = @ + raise]
    BY <1>7, FinishFacts
  <2>2. eth[graduationManager] = E[graduationManager]
    BY <1>1, <1>6, <1>9
  <2>3. graduationManager \in DOMAIN eth /\ curve \in DOMAIN eth
    BY <1>1, <1>6, <1>9
  <2>4. Committed'.eth = [eth EXCEPT ![curve] = E[curve] + (v - f.fee - f.toTrader) - raise,
                                     ![graduationManager] = E[graduationManager] + raise]
    BY <1>8, <1>9, <2>1, <2>2, <2>3
  <2>5. Committed'.eth = [E EXCEPT ![f.who] = E[f.who] - v + f.toTrader,
                              ![treasury] = E[treasury] + f.fee,
                              ![curve] = E[curve] + (v - f.fee - f.toTrader) - raise,
                              ![graduationManager] = E[graduationManager] + raise]
    BY <1>1, <1>6, <1>9, <2>4
  <2> QED BY <1>1, <1>9, <2>5
<1>11. Committed'.tok = [T EXCEPT ![f.who] = @ + f.tokens, ![curve] = @ - f.tokens]
  <2>1. Committed'.tok = tok
    BY FinishFacts
  <2>2. tok = [T EXCEPT ![f.who] = T[f.who] + f.tokens, ![curve] = T[curve] - f.tokens]
    BY <1>6, <1>8
  <2> QED BY <1>1, <1>9, <2>1, <2>2
<1>12. Committed.tokensSold + f.tokens = curveTokenAllocation
  BY <1>1, <1>2, CommittedTypes, ConstructorRequires DEF A!remaining
<1>13. /\ Committed'.ethReserve = A!finalEthReserve
       /\ Committed'.tokenReserve = A!finalTokenReserve
       /\ Committed'.tokensSold = curveTokenAllocation
       /\ Committed'.graduated = TRUE
       /\ Committed'.purchasedOf = A!Tally(f.who, f.tokens)
       /\ strayEth' = strayEth
  BY <1>2, <1>12, FinishFacts
<1>14. /\ A!CanReceive(treasury, f.fee) /\ A!CanReceive(f.who, f.toTrader)
       /\ 0 <= f.tokens /\ 0 <= A!netNeeded /\ 0 <= f.fee
  BY <1>3, <1>4, <1>6 DEF A!CanReceive, CanReceive
<1> QED BY <1>2, <1>4, <1>7, <1>8, <1>10, <1>11, <1>13, <1>14 DEF A!CrossingBuy

LEMMA FinishInv ==
    ASSUME CallInv, NEW f, frames = <<f>>, Finish
    PROVE  CallInv' /\ A!Next
<1>1. /\ InFlight(f) /\ f.who \in Wallets /\ A!Inv /\ f.crossing \in BOOLEAN
  BY InFlightFacts DEF FrameOK
<1>2. 0 \in MinOuts
  BY NoMinimum
<1>3. /\ Committed.eth[f.who] \in Nat /\ Committed.tok[f.who] \in Nat
  BY <1>1, CommittedTypes DEF Accounts
<1>4. A!Next
  <2>1. CASE \E v \in Nat : BuyFrame(f, v) /\ Accounted(f, v, 0)
    <3>1. PICK v \in Nat : BuyFrame(f, v) /\ Accounted(f, v, 0)
      BY <2>1
    <3>2. v \in 1..Committed.eth[f.who]
      BY <1>3, <3>1 DEF BuyFrame
    <3>3. CASE f.crossing
      BY <1>1, <1>2, <3>1, <3>2, <3>3, CrossingBuyFinishes DEF A!Next
    <3>4. CASE ~f.crossing
      BY <1>1, <1>2, <3>1, <3>2, <3>4, BuyFinishes DEF A!Next
    <3> QED BY <3>3, <3>4
  <2>2. CASE \E x \in Nat : SellFrame(f, x) /\ Accounted(f, 0, x)
    <3>1. PICK x \in Nat : SellFrame(f, x) /\ Accounted(f, 0, x)
      BY <2>2
    <3>2. x \in 1..Committed.tok[f.who]
      BY <1>3, <3>1 DEF SellFrame
    <3> QED BY <1>1, <1>2, <3>1, <3>2, SellFinishes DEF A!Next
  <2> QED BY <1>1, <2>1, <2>2 DEF InFlight
<1> QED BY <1>1, <1>4, FinishFacts, CommittedStep, NoCallInv

----------------------------------------------------------------------------
(* Every step. *)

LEMMA InFlightStepInv ==
    ASSUME CallInv, NEW f, frames = <<f>>, CallNext
    PROVE  CallInv' /\ [A!Next]_A!vars
<1>1. locked
  BY InFlightFacts
<1>2. ASSUME NEW w \in Wallets, NEW v, EnterBuy(w, v) PROVE FALSE
  BY <1>1, <1>2 DEF EnterBuy, CanCall, nonReentrant
<1>3. ASSUME NEW w \in Wallets, NEW x, EnterSell(w, x) PROVE FALSE
  BY <1>1, <1>3 DEF EnterSell, CanCall, nonReentrant
<1>4. ASSUME CallInv', Committed' = Committed, strayEth' = strayEth
      PROVE  CallInv' /\ [A!Next]_A!vars
  BY <1>4 DEF A!vars, A!curveVars
<1>5. CASE PayFee
  BY <1>4, <1>5, PayFeeInv DEF PayFee, SendEth
<1>6. CASE MoveTokens
  BY <1>4, <1>6, MoveTokensInv DEF MoveTokens
<1>7. CASE PayTrader
  BY <1>4, <1>7, PayTraderInv DEF PayTrader, SendEth
<1>8. CASE RecipientReturns
  BY <1>4, <1>8, RecipientReturnsInv DEF RecipientReturns, vars
<1>9. CASE CallReverts
  BY <1>9, CallRevertsInv
<1>10. CASE Finish
  BY <1>10, FinishInv
<1> QED BY <1>2, <1>3, <1>5, <1>6, <1>7, <1>8, <1>9, <1>10 DEF CallNext

LEMMA CallStepInv ==
    ASSUME CallInv, CallNext
    PROVE  CallInv' /\ [A!Next]_A!vars
<1>1. CASE frames = <<>>
  <2>1. Idle /\ ~RecipientRuns
    BY <1>1 DEF Idle, RecipientRuns
  <2>2. ASSUME NEW w \in Wallets, NEW v \in 1..eth[w], EnterBuy(w, v)
        PROVE  CallInv' /\ [A!Next]_A!vars
    <3>1. v \in Nat
      <4>1. /\ Committed.eth = eth /\ Committed.eth \in [Accounts -> Nat]
        BY <1>1, NoFrame, CommittedTypes DEF CallInv, Storage
      <4>2. eth[w] \in Nat
        BY <4>1 DEF Accounts
      <4> QED BY <4>2
    <3>2. CallInv' /\ Committed' = Committed
      BY <2>2, <3>1, EnterBuyInv
    <3>3. strayEth' = strayEth
      BY <2>2 DEF EnterBuy
    <3> QED BY <3>2, <3>3 DEF A!vars, A!curveVars
  <2>3. ASSUME NEW w \in Wallets, NEW x \in 1..tok[w], EnterSell(w, x)
        PROVE  CallInv' /\ [A!Next]_A!vars
    <3>1. x \in Nat
      <4>1. /\ Committed.tok = tok /\ Committed.tok \in [Wallets \cup {curve} -> Nat]
        BY <1>1, NoFrame, CommittedTypes DEF CallInv, Storage
      <4>2. tok[w] \in Nat
        BY <4>1
      <4> QED BY <4>2
    <3>2. CallInv' /\ Committed' = Committed
      BY <2>3, <3>1, EnterSellInv
    <3>3. strayEth' = strayEth
      BY <2>3 DEF EnterSell
    <3> QED BY <3>2, <3>3 DEF A!vars, A!curveVars
  <2> QED BY <2>1, <2>2, <2>3
          DEF CallNext, PayFee, MoveTokens, PayTrader, RecipientReturns, CallReverts, Finish
<1>2. ASSUME NEW f, frames = <<f>> PROVE CallInv' /\ [A!Next]_A!vars
  BY <1>2, InFlightStepInv
<1> QED BY <1>1, <1>2 DEF CallInv

LEMMA CallStutter ==
    ASSUME CallInv, UNCHANGED callVars
    PROVE  CallInv' /\ UNCHANGED A!vars
<1>1. frames' = frames /\ locked' = locked /\ UNCHANGED vars
  BY DEF callVars
<1>2. Committed' = Committed
  BY <1>1 DEF Committed, Idle, Storage, vars, curveVars
<1>3. UNCHANGED A!vars
  BY <1>1, <1>2 DEF A!vars, A!curveVars, vars
<1>4. A!Inv'
  BY <1>3, CommittedStep DEF CallInv
<1>5. CASE frames = <<>>
  <2>1. ~locked
    BY <1>5 DEF CallInv
  <2>2. frames' = <<>> /\ ~locked'
    BY <1>1, <1>5, <2>1, Zenon
  <2> QED BY <1>3, <1>4, <2>2, NoCallInv
<1>6. ASSUME NEW f, frames = <<f>> PROVE CallInv'
  <2>1. InFlight(f) /\ locked
    BY <1>6, InFlightFacts
  <2>2. InFlight(f)'
    <3>1. FrameOK(f)
      BY <2>1 DEF InFlight
    <3>2. ASSUME NEW v \in Nat, BuyFrame(f, v), Accounted(f, v, 0)
          PROVE  BuyFrame(f, v)' /\ Accounted(f, v, 0)'
      BY <1>1, <1>2, <3>2, FrameStands DEF Accounted, vars
    <3>3. ASSUME NEW x \in Nat, SellFrame(f, x), Accounted(f, 0, x)
          PROVE  SellFrame(f, x)' /\ Accounted(f, 0, x)'
      BY <1>1, <1>2, <3>3, FrameStands DEF Accounted, vars
    <3> QED BY <2>1, <3>1, <3>2, <3>3 DEF InFlight, FrameOK
  <2> QED BY <1>1, <1>4, <1>6, <2>1, <2>2 DEF CallInv
<1> QED BY <1>3, <1>5, <1>6 DEF CallInv

LEMMA CallSpecInv == CallSpec => []CallInv
<1>1. CallInv /\ [CallNext]_callVars => CallInv'
  BY CallStepInv, CallStutter
<1> QED BY <1>1, InitCallInv, PTL DEF CallSpec

----------------------------------------------------------------------------
(* The theorems. *)

LEMMA CallInvSolvent == CallInv => SolventDuringCalls
<1> SUFFICES ASSUME CallInv, RecipientRuns, ~graduated
             PROVE  eth[curve] = strayEth + (ethReserve - virtualEthReserve)
                                 + (IF Top.pc = "feeCall" THEN Top.toTrader ELSE 0)
  BY DEF SolventDuringCalls
<1>1. PICK f : frames = <<f>> /\ InFlight(f)
  BY NoFrame DEF CallInv, RecipientRuns
<1>2. Top = f /\ f.pc \in {"feeCall", "traderCall"}
  BY <1>1, OneFrame DEF RecipientRuns
<1> DEFINE E == Committed.eth
           paid == IF f.pc = "traderCall" THEN f.toTrader ELSE 0
<1>3. /\ FeePaid(f) /\ (TraderPaid(f) <=> f.pc = "traderCall")
  BY <1>2 DEF FeePaid, TraderPaid
<1>4. /\ A!Inv /\ E \in [Accounts -> Nat] /\ f.who \in Wallets
      /\ f.fee \in Nat /\ f.toTrader \in Nat /\ Committed.ethReserve \in Nat
      /\ strayEth \in Nat /\ virtualEthReserve \in Nat /\ E[curve] \in Nat
  BY <1>1, InFlightFacts, CommittedTypes, ConstructorRequires DEF FrameOK, Accounts
<1>5. ~Committed.graduated => E[curve] = strayEth + (Committed.ethReserve - virtualEthReserve)
  BY <1>4 DEF A!Inv, A!Backed
<1>6. ASSUME NEW in \in Nat, NEW pulled, Accounted(f, in, pulled)
      PROVE  eth[curve] = E[curve] + in - f.fee - paid
  <2>1. eth = [E EXCEPT ![f.who] = E[f.who] - in + paid, ![treasury] = E[treasury] + f.fee,
                        ![curve] = E[curve] + in - f.fee - paid]
    BY <1>3, <1>4, <1>6, AccountsDistinct DEF Accounted, Done, Accounts
  <2> QED BY <1>4, <2>1, AccountsDistinct DEF Accounts
<1>7. CASE \E v \in Nat : BuyFrame(f, v) /\ Accounted(f, v, 0)
  <2>1. PICK v \in Nat : BuyFrame(f, v) /\ Accounted(f, v, 0)
    BY <1>7
  <2>2. eth[curve] = E[curve] + v - f.fee - paid
    BY <1>6, <2>1
  <2>3. CASE f.crossing
    <3>1. /\ f.fee = A!Charged(v) - A!netNeeded /\ f.toTrader = v - A!Charged(v)
          /\ ethReserve = A!finalEthReserve /\ ~Committed.graduated
          /\ A!Crosses(v) /\ 0 < v
      BY <2>1, <2>3 DEF BuyFrame
    <3>2. /\ A!Charged(v) \in Nat /\ A!finalEthReserve \in Nat
          /\ A!netNeeded = A!finalEthReserve - Committed.ethReserve
      BY <1>4, <3>1, A!CrossingFacts, A!ConstantFacts, Assumptions DEF A!Inv, A!netNeeded
    <3> QED BY <1>2, <1>4, <1>5, <2>2, <3>1, <3>2
  <2>4. CASE ~f.crossing
    <3>1. /\ f.fee = A!Fee(v) /\ f.toTrader = 0 /\ ~Committed.graduated
          /\ ethReserve = Committed.ethReserve + (v - f.fee)
      BY <2>1, <2>4 DEF BuyFrame, A!BuyEthReserve
    <3> QED BY <1>2, <1>4, <1>5, <2>2, <3>1
  <2> QED BY <2>3, <2>4
<1>8. CASE \E x \in Nat : SellFrame(f, x) /\ Accounted(f, 0, x)
  <2>1. PICK x \in Nat : SellFrame(f, x) /\ Accounted(f, 0, x)
    BY <1>8
  <2>2. eth[curve] = E[curve] + 0 - f.fee - paid
    BY <1>6, <2>1
  <2>3. /\ f.fee = A!Fee(A!GrossEthOut(x)) /\ f.toTrader = A!EthOut(x)
        /\ 0 < x /\ x <= Committed.tokensSold /\ ~Committed.graduated
        /\ ethReserve = A!SellEthReserve(x)
    BY <2>1 DEF SellFrame
  <2>4. A!GrossEthOut(x) \in Nat /\ A!SellEthReserve(x) \in Nat
    BY <1>4, <2>3, A!PreviewSellFacts, Assumptions DEF A!Inv
  <2>5. /\ f.toTrader = A!GrossEthOut(x) - f.fee
        /\ A!GrossEthOut(x) = Committed.ethReserve - ethReserve
    BY <2>3 DEF A!EthOut, A!GrossEthOut
  <2> QED BY <1>2, <1>4, <1>5, <2>2, <2>3, <2>4, <2>5
<1> QED BY <1>1, <1>7, <1>8 DEF InFlight

\* Whenever the treasury's or a trader's code runs in the middle of a trade, the
\* curve holds the ETH its reserve promises and what it still owes in that
\* trade, whatever the code does: comment at BondingCurve.sol:167.
THEOREM RecipientsPaidFromTheTrade == CallSpec => []SolventDuringCalls
BY CallSpecInv, CallInvSolvent, PTL

\* The two instances of BondingCurve are the same specification.
LEMMA SameInstance ==
    /\ Atomic!Init <=> A!Init
    /\ Atomic!vars = A!vars
    /\ Atomic!Next <=> A!Next
<1>1. Atomic!Init <=> A!Init
  BY DEF Atomic!Init, A!Init, Atomic!Accounts, A!Accounts, Atomic!initialTokens, A!initialTokens
<1>2. Atomic!vars = A!vars /\ Atomic!curveVars = A!curveVars
  BY DEF Atomic!vars, A!vars, Atomic!curveVars, A!curveVars
<1>3. /\ Atomic!finalEthReserve = A!finalEthReserve
      /\ Atomic!finalTokenReserve = A!finalTokenReserve /\ Atomic!k = A!k
      /\ Atomic!raise = A!raise
  BY DEF Atomic!CeilDiv, A!CeilDiv, Atomic!k, A!k, Atomic!finalEthReserve, A!finalEthReserve,
         Atomic!finalTokenReserve, A!finalTokenReserve, Atomic!raise, A!raise
<1>4. /\ Atomic!remaining = A!remaining /\ Atomic!netNeeded = A!netNeeded
      /\ Atomic!grossNeeded = A!grossNeeded
  BY <1>3 DEF Atomic!CeilDiv, A!CeilDiv, Atomic!remaining, A!remaining,
     Atomic!netNeeded, A!netNeeded, Atomic!grossNeeded, A!grossNeeded
<1>5. ASSUME NEW v
      PROVE  /\ Atomic!Fee(v) = A!Fee(v)
             /\ Atomic!BuyEthReserve(v) = A!BuyEthReserve(v)
             /\ Atomic!BuyTokenReserve(v) = A!BuyTokenReserve(v)
             /\ Atomic!PreviewTokens(v) = A!PreviewTokens(v)
             /\ Atomic!Charged(v) = A!Charged(v)
             /\ Atomic!Crosses(v) <=> A!Crosses(v)
             /\ Atomic!SellEthReserve(v) = A!SellEthReserve(v)
             /\ Atomic!GrossEthOut(v) = A!GrossEthOut(v)
             /\ Atomic!EthOut(v) = A!EthOut(v)
  BY <1>3, <1>4 DEF Atomic!CeilDiv, A!CeilDiv, Atomic!BpsOf, A!BpsOf, Atomic!MinOf, A!MinOf,
     Atomic!Fee, A!Fee, Atomic!BuyEthReserve, A!BuyEthReserve,
     Atomic!BuyTokenReserve, A!BuyTokenReserve, Atomic!PreviewTokens, A!PreviewTokens,
     Atomic!Charged, A!Charged, Atomic!Crosses, A!Crosses,
     Atomic!SellEthReserve, A!SellEthReserve, Atomic!EthReserveAt, A!EthReserveAt,
     Atomic!GrossEthOut, A!GrossEthOut, Atomic!EthOut, A!EthOut
<1>6. ASSUME NEW w, NEW n
      PROVE  /\ Atomic!WithinBuyCap(w, n) <=> A!WithinBuyCap(w, n)
             /\ Atomic!Tally(w, n) = A!Tally(w, n)
             /\ Atomic!CanReceive(w, n) <=> A!CanReceive(w, n)
  BY DEF Atomic!WithinBuyCap, A!WithinBuyCap, Atomic!Tally, A!Tally,
         Atomic!buyCapActive, A!buyCapActive, Atomic!CanReceive, A!CanReceive
<1>7. ASSUME NEW w, NEW v, NEW m
      PROVE  Atomic!Buy(w, v, m) <=> A!Buy(w, v, m)
  BY <1>5, <1>6 DEF Atomic!Buy, A!Buy
<1>8. ASSUME NEW w, NEW v, NEW m
      PROVE  Atomic!CrossingBuy(w, v, m) <=> A!CrossingBuy(w, v, m)
  BY <1>3, <1>4, <1>5, <1>6 DEF Atomic!CrossingBuy, A!CrossingBuy
<1>9. ASSUME NEW w, NEW x, NEW m
      PROVE  Atomic!Sell(w, x, m) <=> A!Sell(w, x, m)
  BY <1>5, <1>6 DEF Atomic!Sell, A!Sell
<1>10. ASSUME NEW w, NEW to, NEW x
       PROVE  /\ Atomic!Transfer(w, to, x) <=> A!Transfer(w, to, x)
              /\ Atomic!ForceEth(w, x) <=> A!ForceEth(w, x)
  BY <1>2 DEF Atomic!Transfer, A!Transfer, Atomic!ForceEth, A!ForceEth,
              Atomic!curveVars, A!curveVars
<1>11. Atomic!Next <=> A!Next
  BY <1>7, <1>8, <1>9, <1>10 DEF Atomic!Next, A!Next
<1> QED BY <1>1, <1>2, <1>11

LEMMA CallStepIsAtomic == CallInv /\ [CallNext]_callVars => [Atomic!Next]_Atomic!vars
<1>1. [A!Next]_A!vars => [Atomic!Next]_Atomic!vars
  BY SameInstance DEF Atomic!vars, A!vars, Atomic!curveVars, A!curveVars
<1> QED BY <1>1, CallStepInv, CallStutter

\* buy and sell, with the calls they make to the treasury, the trader and the
\* GraduationManager and whatever these do in return, are each one trade of
\* BondingCurve or nothing at all.
THEOREM CallsAreAtomicTrades == CallSpec => TradesAreAtomic
<1>1. CallInit => Atomic!Init
  BY InitCommitted, SameInstance
<1> QED BY <1>1, CallStepIsAtomic, CallSpecInv, PTL DEF CallSpec, TradesAreAtomic, Atomic!Spec
====
