-------------------------------- MODULE Forms --------------------------------
(***************************************************************************)
(* The three forms that send a transaction (frontend: TradePanel.tsx,       *)
(* SwapPanel.tsx, CreatePage.tsx, curve.ts, swap.ts): a visitor types, the   *)
(* form reads the chain for a quote and for what stands in the way, the     *)
(* visitor presses what is on the screen, the wallet is slow, and by the    *)
(* time the transaction is mined the chain may have moved.                  *)
(*                                                                         *)
(* Reads are external queries, answered one by one and any number of times; *)
(* a quote belongs to the side and the amount it was asked for.             *)
(***************************************************************************)
EXTENDS Integers, FiniteSets, Queries

CONSTANTS
    Amounts, Rates, Slippages, Fees,   \* inputs; slippages in basis points
    MaxBuy,                            \* maxBuyPerWallet of the curve
    MaxMoves, MaxSent                  \* bounds: changes by others, transactions sent

BPS == 10000

ASSUME FormsAssumption ==
    /\ Amounts \subseteq Nat \ {0} /\ Rates \subseteq Nat \ {0} /\ Slippages \subseteq 0..BPS
    /\ Fees \subseteq Nat /\ MaxBuy \in Nat
    /\ Fees # {} /\ Slippages # {}
    /\ UNREAD \notin Nat
ASSUME RatesAssumption == \E r \in Rates : \A s \in Rates : r >= s

VARIABLES
    form,      \* "trade", "swap by quoter", "swap by spot", "create", or none
    facts,     \* what the chain holds
    moves,     \* how often others have changed it
    sent,      \* how many transactions the visitor has sent
    reads,     \* what the form has read of the facts
    quotes,    \* the amounts quoted, by side and amount
    fields,    \* what the visitor has chosen
    tx         \* the transaction, with what was shown as it was sent and, history, whether
               \* what the form went by was, or has become since, other than the chain

formVars == <<form, facts, moves, sent, reads, quotes, fields, tx>>

Swapping == form \in {"swap by quoter", "swap by spot"}
Trades == form = "trade" \/ Swapping
Sides == {"buy", "sell"}
Shares == 0..2             \* of the supply, for the creator
NoTx == [state |-> "none"]
isBusy == tx.state \in {"wallet", "mining"}
FactNames == {"rate", "cap", "bought", "allowance", "fee", "maxDev"}

FormsInit(f) ==
    /\ form = f /\ moves = 0 /\ sent = 0 /\ tx = NoTx
    /\ facts = [rate |-> CHOOSE r \in Rates : \A s \in Rates : r >= s, cap |-> (f = "trade"),
                bought |-> 0, allowance |-> 0, fee |-> CHOOSE x \in Fees : TRUE, maxDev |-> 2]
    /\ reads = [n \in FactNames |-> UNREAD]
    /\ quotes = [k \in Sides \X Amounts |-> UNREAD]
    /\ fields = [side |-> "buy", amount |-> 0, slip |-> CHOOSE x \in Slippages : TRUE, dev |-> 0, permanent |-> FALSE,
                 acknowledged |-> FALSE]

-----------------------------------------------------------------------------
(* The chain (BondingCurve, the pool and LaunchpadFactory have their own     *)
(* modules): a unit brings the rate; a swap also pays its price impact.      *)

Impact == 1
Out(amount, rate) == IF Swapping THEN amount * rate - Impact ELSE amount * rate

ChainMoves ==
    /\ moves < MaxMoves /\ moves' = moves + 1
    /\ \/ Trades /\ \E r \in Rates \ {facts.rate} : facts' = [facts EXCEPT !.rate = r]
       \/ form = "trade" /\ facts.cap /\ facts' = [facts EXCEPT !.cap = FALSE]
       \/ form = "create" /\ \E x \in Fees \ {facts.fee} : facts' = [facts EXCEPT !.fee = x]
       \/ form = "create" /\ facts.maxDev > 0 /\ facts' = [facts EXCEPT !.maxDev = @ - 1]
    /\ tx' = IF isBusy THEN [tx EXCEPT !.overtaken = TRUE] ELSE tx
    /\ UNCHANGED <<form, sent, reads, quotes, fields>>

-----------------------------------------------------------------------------
(* curve.ts and swap.ts                                                     *)

(* Mutant: the slippage is taken as a share of what may be lost. *)
SlippageInverted(quoted, bps) == (quoted * bps) \div BPS

applySlippage(quoted, bps) == (quoted * (BPS - bps)) \div BPS
withinBuyCap(alreadyPurchased, tokensOut) == alreadyPurchased + tokensOut <= MaxBuy
estimateAmountOut(amountIn, outPerIn) == amountIn * outPerIn

-----------------------------------------------------------------------------
(* The reads                                                                *)

enabled == fields.amount \in Amounts
Quote == IF ~enabled THEN UNREAD
         ELSE IF form = "swap by spot"
         THEN IF reads.rate = UNREAD THEN UNREAD ELSE estimateAmountOut(fields.amount, reads.rate)
         ELSE quotes[<<fields.side, fields.amount>>]

TradePanelReads == {"cap", "bought", "allowance"}
SwapPanelReads == IF form = "swap by spot" THEN {"rate", "allowance"} ELSE {"allowance"}
CreatePageReads == {"fee", "maxDev"}
FactsRead == IF form = "trade" THEN TradePanelReads ELSE IF Swapping THEN SwapPanelReads ELSE CreatePageReads

ReadFact ==
    /\ \E n \in FactsRead : reads[n] # facts[n] /\ reads' = [reads EXCEPT ![n] = facts[n]]
    /\ UNCHANGED <<form, facts, moves, sent, quotes, fields, tx>>

\* quoteBuy and quoteSell; quoteExactInputSingle, impact and all.
ReadQuote ==
    /\ form \in {"trade", "swap by quoter"} /\ enabled
    /\ quotes' = [quotes EXCEPT ![<<fields.side, fields.amount>>] = Out(fields.amount, facts.rate)]
    /\ quotes' # quotes
    /\ UNCHANGED <<form, facts, moves, sent, reads, fields, tx>>

-----------------------------------------------------------------------------
(* What the visitor does                                                    *)

TradePanelFields == [side : Sides, amount : Amounts, slip : Slippages, dev : {0},
                     permanent : {FALSE}, acknowledged : {FALSE}]
SwapPanelFields == TradePanelFields      \* a flip in place of the tabs
CreatePageFields == [side : {"buy"}, amount : {0}, slip : Slippages, dev : Shares,
                     permanent : BOOLEAN, acknowledged : BOOLEAN]

Types ==
    /\ fields' \in (IF form = "trade" THEN TradePanelFields ELSE IF Swapping THEN SwapPanelFields
                    ELSE CreatePageFields)
    /\ Cardinality({k \in DOMAIN fields : fields'[k] # fields[k]}) = 1
    /\ UNCHANGED <<form, facts, moves, sent, reads, quotes, tx>>

needsApproval == Trades /\ fields.side = "sell" /\ enabled /\ reads.allowance # UNREAD
                 /\ reads.allowance < fields.amount

(* Mutant: what the wallet has bought before is left out. *)
CapOfThisBuyOnly == form = "trade" /\ fields.side = "buy" /\ reads.cap = TRUE /\ Quote # UNREAD
                    /\ ~withinBuyCap(0, Quote)

capWarning == form = "trade" /\ fields.side = "buy" /\ reads.cap = TRUE /\ Quote # UNREAD
              /\ ~withinBuyCap(OrElse(reads.bought, 0), Quote)

devEnabled == reads.maxDev # UNREAD /\ reads.maxDev > 0
effectiveDevBps == IF ~devEnabled THEN 0 ELSE IF fields.dev < reads.maxDev THEN fields.dev ELSE reads.maxDev
canSubmit == fields.acknowledged /\ reads.fee # UNREAD

Sent(action) ==
    [state |-> "wallet", action |-> action, side |-> fields.side, amount |-> fields.amount,
     min |-> IF action = "trade" THEN applySlippage(Quote, fields.slip) ELSE 0,
     dev |-> effectiveDevBps, permanent |-> fields.permanent, value |-> OrElse(reads.fee, 0),
     got |-> 0, shown |-> Quote, slip |-> fields.slip, late |-> FALSE,
     overtaken |-> \/ \E n \in FactsRead : reads[n] # facts[n]
                   \/ Trades /\ Quote # Out(fields.amount, facts.rate)]

TradePanelSends == \/ needsApproval /\ tx' = Sent("approve")
                   \/ ~needsApproval /\ Quote # UNREAD /\ ~capWarning /\ tx' = Sent("trade")

SwapPanelSends == \/ needsApproval /\ tx' = Sent("approve")
                  \/ ~needsApproval /\ Quote # UNREAD /\ tx' = Sent("trade")

CreatePageSends == canSubmit /\ tx' = Sent("launch")

Press ==
    /\ ~isBusy /\ sent < MaxSent /\ sent' = sent + 1
    /\ \/ form = "trade" /\ TradePanelSends
       \/ Swapping /\ SwapPanelSends
       \/ form = "create" /\ CreatePageSends
    /\ UNCHANGED <<form, facts, moves, reads, quotes, fields>>

\* The wallet refuses, or signs, a swap's deadline perhaps gone by.
WalletAnswers ==
    /\ tx.state = "wallet"
    /\ \/ tx' = [tx EXCEPT !.state = "rejected"]
       \/ tx' = [tx EXCEPT !.state = "mining"]
       \/ Swapping /\ tx.action = "trade" /\ tx' = [tx EXCEPT !.state = "mining", !.late = TRUE]
    /\ UNCHANGED <<form, facts, moves, sent, reads, quotes, fields>>

-----------------------------------------------------------------------------
(* The transaction is mined: the contracts' own checks.                     *)

Allowed == tx.side = "buy" \/ facts.allowance >= tx.amount
UnderTheCap == form = "trade" /\ tx.side = "buy" /\ facts.cap => withinBuyCap(facts.bought, Out(tx.amount, facts.rate))
TradeGoesThrough == Allowed /\ UnderTheCap /\ ~tx.late /\ Out(tx.amount, facts.rate) >= tx.min
LaunchGoesThrough == tx.value >= facts.fee /\ tx.dev <= facts.maxDev

Mined ==
    /\ tx.state = "mining"
    /\ LET out == Out(tx.amount, facts.rate)
           goesThrough == CASE tx.action = "approve" -> TRUE
                            [] tx.action = "trade" -> TradeGoesThrough
                            [] tx.action = "launch" -> LaunchGoesThrough
       IN /\ tx' = [tx EXCEPT !.state = IF goesThrough THEN "succeeded" ELSE "reverted",
                              !.got = IF goesThrough /\ tx.action = "trade" THEN out ELSE 0]
          /\ facts' = IF ~goesThrough THEN facts
                      ELSE IF tx.action = "approve" THEN [facts EXCEPT !.allowance = tx.amount]
                      ELSE IF tx.action = "launch" THEN facts
                      ELSE IF tx.side = "sell" THEN [facts EXCEPT !.allowance = @ - tx.amount]
                      ELSE [facts EXCEPT !.bought = IF form = "trade" /\ facts.cap THEN @ + out ELSE @]
    /\ UNCHANGED <<form, moves, sent, reads, quotes, fields>>

FormsNext == /\ form # UNREAD
             /\ ChainMoves \/ ReadFact \/ ReadQuote \/ Types \/ Press \/ WalletAnswers \/ Mined

FormsSpec == (\E f \in {"trade", "swap by quoter", "swap by spot", "create"} : FormsInit(f)) /\ [][FormsNext]_formVars

-----------------------------------------------------------------------------
\* What the form showed it would bring, for that very side and amount, is what a
\* trade brought, less the slippage the visitor chose: no quote for another amount,
\* another side or an earlier rate ever stands behind a trade that goes through.
\* (TradePanel.tsx:147-170, SwapPanel.tsx:103-105, 153-202, curve.ts:38-42)
TradesKeepTheirQuote ==
    tx.state = "succeeded" /\ tx.action = "trade" =>
        BPS * tx.got >= tx.shown * (BPS - tx.slip) - (BPS - 1)

\* A form lets nothing be sent that the chain, as the form knows it, would refuse: a
\* transaction that reverts was sent on a fact that was unread, that has changed
\* since, or that the form's estimate leaves out (its quote is not the chain's); or it came after its deadline.
\* (TradePanel.tsx:109-145, 286-290, CreatePage.tsx:100-119)
NothingSentIsKnownToFail ==
    tx.state = "reverted" => tx.late \/ tx.overtaken

FormsKeepTheirWord == TradesKeepTheirQuote /\ NothingSentIsKnownToFail
==============================================================================
