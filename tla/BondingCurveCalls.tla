------------------------- MODULE BondingCurveCalls -------------------------
(***************************************************************************)
(* buy and sell broken up at the external calls they make: the fee to the  *)
(* treasury, the refund or the proceeds to the trader, the hand-off to the *)
(* GraduationManager.  While a recipient has control it may return, revert *)
(* or call the curve again.  The variables of BondingCurve are the storage *)
(* and the balances as such a recipient would see them.                    *)
(*                                                                         *)
(* A transaction in flight is invisible until it commits, so BondingCurve  *)
(* is implemented under the mapping that reads the state saved at the      *)
(* start of the outermost call (Atomic).  Token transfers by a recipient   *)
(* inside a callback are left out.                                         *)
(***************************************************************************)
EXTENDS BondingCurve, Sequences

CONSTANT MaxDepth     \* bound on nested calls

ASSUME DepthPositive == MaxDepth \in Nat \ {0}

\* A call is made without minTokensOut or minEthOut here, as with a minimum of 0.
ASSUME NoMinimum == 0 \in MinOuts

VARIABLES
    frames,     \* the curve's activation records, outermost first
    locked      \* ReentrancyGuard._status

callVars == <<vars, frames, locked>>

Storage == [ethReserve |-> ethReserve, tokenReserve |-> tokenReserve,
            tokensSold |-> tokensSold, graduated |-> graduated,
            purchasedOf |-> purchasedOf, eth |-> eth, tok |-> tok]

Restore(s) ==
    /\ ethReserve' = s.ethReserve /\ tokenReserve' = s.tokenReserve
    /\ tokensSold' = s.tokensSold /\ graduated' = s.graduated
    /\ purchasedOf' = s.purchasedOf /\ eth' = s.eth /\ tok' = s.tok

Idle == frames = <<>>
Top == frames[Len(frames)]
OuterFrames == SubSeq(frames, 1, Len(frames) - 1)
Goto(pc) == frames' = [frames EXCEPT ![Len(frames)].pc = pc]

\* A recipient has control: it can call the curve, return, or revert.
RecipientRuns == ~Idle /\ Top.pc \in {"feeCall", "traderCall"}

(* Mutant: no reentrancy guard. *)
Unguarded == TRUE

nonReentrant == ~locked

\* A call reaches the curve from outside, or from a recipient's code.
CanCall == (Idle \/ RecipientRuns) /\ nonReentrant /\ Len(frames) < MaxDepth

Push(frame) == frames' = Append(frames, frame) /\ locked' = TRUE

----------------------------------------------------------------------------
(* buy: every check and every write to the curve's storage but graduated. *)
EnterBuy(w, ethIn) ==
    LET crossing == Crosses(ethIn)
        tokensOut == IF crossing THEN remaining ELSE PreviewTokens(ethIn)
        fee == IF crossing THEN Charged(ethIn) - netNeeded ELSE Fee(ethIn)
        refund == IF crossing THEN ethIn - Charged(ethIn) ELSE 0
    IN  /\ CanCall /\ ~graduated
        /\ 0 < ethIn /\ ethIn <= eth[w]
        /\ 0 <= fee /\ (crossing \/ 0 < tokensOut)
        /\ tokensSold + tokensOut <= curveTokenAllocation
        /\ WithinBuyCap(w, tokensOut)
        /\ Push([who |-> w, pc |-> "fee", fee |-> fee, toTrader |-> refund,
                 tokens |-> tokensOut, crossing |-> crossing,
                 saved |-> Storage])
        /\ ethReserve' = IF crossing THEN finalEthReserve ELSE BuyEthReserve(ethIn)
        /\ tokenReserve' = IF crossing THEN finalTokenReserve
                                       ELSE BuyTokenReserve(ethIn)
        /\ tokensSold' = tokensSold + tokensOut
        /\ purchasedOf' = Tally(w, tokensOut)
        /\ eth' = [eth EXCEPT ![w] = @ - ethIn, ![curve] = @ + ethIn]
        /\ UNCHANGED <<graduated, tok, strayEth>>

(* sell: the token is pulled first, then the reserves are written. *)
EnterSell(w, amount) ==
    /\ CanCall /\ ~graduated
    /\ 0 < amount /\ amount <= tok[w] /\ amount <= tokensSold
    /\ 0 <= GrossEthOut(amount)
    /\ Push([who |-> w, pc |-> "fee", fee |-> Fee(GrossEthOut(amount)),
             toTrader |-> EthOut(amount), tokens |-> 0, crossing |-> FALSE,
             saved |-> Storage])
    /\ ethReserve' = SellEthReserve(amount)
    /\ tokenReserve' = tokenReserve + amount
    /\ tokensSold' = tokensSold - amount
    /\ tok' = [tok EXCEPT ![w] = @ - amount, ![curve] = @ + amount]
    /\ UNCHANGED <<graduated, purchasedOf, eth, strayEth>>

\* _sendEth: nothing happens for a zero amount, otherwise the recipient runs.
SendEth(to, amount, callPc, nextPc) ==
    /\ amount <= eth[curve]
    /\ eth' = [eth EXCEPT ![curve] = @ - amount, ![to] = @ + amount]
    /\ Goto(IF amount = 0 THEN nextPc ELSE callPc)
    /\ UNCHANGED <<curveVars, tok, strayEth, locked>>

PayFee ==
    /\ ~Idle /\ Top.pc = "fee"
    /\ SendEth(treasury, Top.fee, "feeCall", "tokens")

MoveTokens ==
    /\ ~Idle /\ Top.pc = "tokens" /\ Top.tokens <= tok[curve]
    /\ tok' = [tok EXCEPT ![curve] = @ - Top.tokens, ![Top.who] = @ + Top.tokens]
    /\ Goto("trader")
    /\ UNCHANGED <<curveVars, eth, strayEth, locked>>

PayTrader ==
    /\ ~Idle /\ Top.pc = "trader"
    /\ SendEth(Top.who, Top.toTrader, "traderCall", "finish")

RecipientReturns ==
    /\ RecipientRuns
    /\ Goto(IF Top.pc = "feeCall" THEN "tokens" ELSE "finish")
    /\ (IF Top.pc = "feeCall" THEN treasury ELSE Top.who) \notin Refusing
    /\ UNCHANGED <<vars, locked>>

\* A transfer the curve cannot cover.
Shortfall ==
    \/ Top.pc = "fee" /\ Top.fee > eth[curve]
    \/ Top.pc = "trader" /\ Top.toTrader > eth[curve]
    \/ Top.pc = "tokens" /\ Top.tokens > tok[curve]

(* Mutant: a refused payment is offered again. *)
OffersAgain ==
    LET payee == IF Top.pc = "feeCall" THEN treasury ELSE Top.who
        amount == IF Top.pc = "feeCall" THEN Top.fee ELSE Top.toTrader
    IN  /\ ~Idle /\ RecipientRuns
        /\ eth' = [eth EXCEPT ![payee] = @ - amount, ![curve] = @ + amount]
        /\ Goto(IF Top.pc = "feeCall" THEN "fee" ELSE "trader")
        /\ UNCHANGED <<curveVars, tok, strayEth, locked>>

\* EthTransferFailed, or a graduation that fails: the whole call is undone.
CallReverts ==
    /\ ~Idle
    /\ RecipientRuns \/ Shortfall \/ (Top.pc = "finish" /\ Top.crossing)
    /\ Restore(Top.saved)
    /\ frames' = OuterFrames
    /\ locked' = (Len(frames) > 1)
    /\ UNCHANGED strayEth

(* The end of the call; for the crossing buy, _graduate first. *)
Finish ==
    /\ ~Idle /\ Top.pc = "finish"
    /\ Top.crossing => raise <= eth[curve] /\ graduationManager \notin Refusing
    /\ graduated' = (graduated \/ Top.crossing)
    /\ eth' = IF Top.crossing
              THEN [eth EXCEPT ![curve] = @ - raise, ![graduationManager] = @ + raise]
              ELSE eth
    /\ frames' = OuterFrames
    /\ locked' = FALSE
    /\ UNCHANGED <<ethReserve, tokenReserve, tokensSold, purchasedOf, tok, strayEth>>

----------------------------------------------------------------------------
CallInit == Init /\ frames = <<>> /\ locked = FALSE

CallNext ==
    \/ \E w \in Wallets : \E v \in 1..eth[w] : EnterBuy(w, v)
    \/ \E w \in Wallets : \E x \in 1..tok[w] : EnterSell(w, x)
    \/ PayFee \/ MoveTokens \/ PayTrader
    \/ RecipientReturns \/ CallReverts
    \/ Finish

\* A transaction runs to its end: the EVM never leaves one half done.
CallSpec == CallInit /\ [][CallNext]_callVars /\ WF_callVars(~Idle /\ CallNext)

----------------------------------------------------------------------------
(* Properties. *)

\* The state outside the transaction in flight.
Committed == IF Idle THEN Storage ELSE frames[1].saved

Atomic == INSTANCE BondingCurve WITH
    ethReserve <- Committed.ethReserve, tokenReserve <- Committed.tokenReserve,
    tokensSold <- Committed.tokensSold, graduated <- Committed.graduated,
    purchasedOf <- Committed.purchasedOf, eth <- Committed.eth,
    tok <- Committed.tok

\* buy and sell, with all their external calls, are each one atomic trade or
\* none, whatever the recipients do: what comment lines 167-176 argue and
\* SameBlockRaces tests by mutation.
TradesAreAtomic == Atomic!Spec

\* A call is committed or undone in the end: no recipient keeps the curve locked.
CallsEnd == ~Idle ~> Idle

\* Whenever a recipient has control, the curve still holds the ETH its
\* reserve promises and what it still owes in this call: recipients are paid
\* out of the trade and never out of other holders' backing.
SolventDuringCalls ==
    (RecipientRuns /\ ~graduated) =>
        eth[curve] = strayEth + (ethReserve - virtualEthReserve)
                     + (IF Top.pc = "feeCall" THEN Top.toTrader ELSE 0)
============================================================================
