------------------------------- MODULE Indexer -------------------------------
(***************************************************************************)
(* The subgraph: graph-node delivers the contracts' events to the handlers *)
(* of subgraph/src, which rebuild each launch's state as entities.         *)
(*                                                                         *)
(* The chain is a sequence of blocks, each with the events its             *)
(* transactions emitted and the ledger - the contracts' own state - that   *)
(* held after it.  The contracts appear here as what they emit, the events *)
(* in the order of each transaction.  Graph-node is external: a block is   *)
(* handled event by event in a working copy and committed as a whole, a    *)
(* restart loses the working copy, and a block that has left the chain is  *)
(* reverted.                                                               *)
(***************************************************************************)
EXTENDS Integers, Sequences, FiniteSets, Functions, SequencesExt

CONSTANTS
    Tokens, Accounts,
    Allocation,            \* curveTokenAllocation, in units of tokens
    VIRTUAL_ETH,           \* what the effective ETH reserve opens at
    Launches,              \* what launches are created with: a carve, a lock for ever
    LOCK_DURATION,         \* of the launches' frozen terms
    PERMANENT,             \* type(uint64).max
    NONE,                  \* null
    MaxTxs, MaxBlockTxs,   \* bounds of the model: transactions in all, in a block
    MaxFaults              \* reorganisations and restarts

ASSUME Sizes == /\ IsFiniteSet(Tokens) /\ IsFiniteSet(Accounts)
                /\ Allocation \in Nat \ {0} /\ VIRTUAL_ETH \in Nat
                /\ Launches \subseteq Nat \X BOOLEAN
                /\ LOCK_DURATION \in Nat /\ PERMANENT \in Nat \ {0}
                /\ NONE \notin Nat
                /\ MaxTxs \in Nat /\ MaxBlockTxs \in Nat \ {0} /\ MaxFaults \in Nat

VARIABLES
    chain,     \* the canonical blocks: their id, events and ledger
    open,      \* the block being built: its events and ledger, its size
    indexed,   \* what graph-node has committed: a block's id, its entities
    work,      \* the block being handled: its events, those left, the entities so far
    txs, faults

vars == <<chain, open, indexed, work, txs, faults>>

NoLock == [until |-> 0, extends |-> 0, collected |-> 0, reclaimed |-> FALSE]
Unlaunched == [launched |-> FALSE, carve |-> 0, permanent |-> FALSE, sold |-> 0,
               traded |-> 0, trades |-> 0, graduatedAt |-> 0, raised |-> 0,
               claimed |-> 0, lock |-> NoLock,
               held |-> [a \in Accounts |-> 0]]

-----------------------------------------------------------------------------
(* The store, and graph-node's view of a new deployment.                   *)

NoEntities == <<>>
EmptyFactory == [launchCount |-> 0, graduationCount |-> 0, tradeCount |-> 0,
                 buyCount |-> 0, sellCount |-> 0, totalVolumeEth |-> 0,
                 totalRaisedEth |-> 0]

\* loadFactory: created on first use, so a store without it reads as zeros.
EmptyStore == [factory |-> EmptyFactory, tokens |-> NoEntities,
               trades |-> NoEntities, positions |-> NoEntities,
               graduations |-> NoEntities, locks |-> NoEntities,
               collections |-> NoEntities, templates |-> {}]

\* entity.save() of a new or a loaded entity
Save(entities, id, e) ==
    [x \in DOMAIN entities \cup {id} |-> IF x = id THEN e ELSE entities[x]]
Has(entities, id) == id \in DOMAIN entities

SaveToken(s, id, token) == [s EXCEPT !.tokens = Save(@, id, token)]
SaveLock(s, id, lock) == [s EXCEPT !.locks = Save(@, id, lock)]

Idle == [busy |-> FALSE]

Init == /\ chain = <<[id |-> 0, events |-> <<>>,
                      ledger |-> [t \in Tokens |-> Unlaunched]]>>
        /\ open = [events |-> <<>>, ledger |-> [t \in Tokens |-> Unlaunched], size |-> 0]
        /\ indexed = <<[id |-> 0, store |-> EmptyStore]>>
        /\ work = Idle
        /\ txs = 0 /\ faults = 0

-----------------------------------------------------------------------------
(* The chain.  A transaction is an update of one launch's ledger entry and *)
(* the events it emits, in order.                                          *)

Now == Len(chain)      \* the number and the time of the block being built

Tx(t, entry, events) ==
    /\ txs < MaxTxs /\ open.size < MaxBlockTxs
    /\ open' = [events |-> open.events \o events, size |-> open.size + 1,
                ledger |-> [open.ledger EXCEPT ![t] = entry]]
    /\ txs' = txs + 1
    /\ UNCHANGED <<chain, indexed, work, faults>>

CreateLaunch(t, carve, permanent) ==
    LET e == open.ledger[t]
    IN /\ ~e.launched
       /\ Tx(t, [e EXCEPT !.launched = TRUE, !.carve = carve, !.permanent = permanent],
             << [kind |-> "LaunchCreated", token |-> t],
                [kind |-> "LaunchConfig", token |-> t, carve |-> carve, permanent |-> permanent] >>)

Trading(e) == e.launched /\ e.graduatedAt = 0

\* A unit of token costs one of ETH and one is the fee.  A buy that crosses
\* the allocation is charged for what is left and the rest is refunded.
Buy(t, a, eth) ==
    LET e == open.ledger[t]
        out == IF e.sold + eth > Allocation THEN Allocation - e.sold ELSE eth
        closes == e.sold + out = Allocation
        bought == [kind |-> "Bought", token |-> t, trader |-> a, ethIn |-> eth + 1,
                   ethToCurve |-> out, fee |-> 1, amount |-> out, sold |-> e.sold + out]
        graduates == << [kind |-> "LockRegistered", token |-> t,
                         until |-> IF e.permanent THEN PERMANENT ELSE Now + LOCK_DURATION],
                        [kind |-> "Graduated", token |-> t, weth |-> Allocation],
                        [kind |-> "Graduation", token |-> t] >>
        traded == [e EXCEPT !.sold = @ + out, !.traded = @ + out + 1, !.trades = @ + 1,
                            !.held[a] = @ + out]
    IN /\ Trading(e)
       /\ IF closes
          THEN Tx(t, [traded EXCEPT !.graduatedAt = Now, !.raised = Allocation,
                                    !.lock.until = IF e.permanent THEN PERMANENT
                                                   ELSE Now + LOCK_DURATION],
                  <<bought>> \o graduates)
          ELSE Tx(t, traded, <<bought>>)

Sell(t, a, amount) ==
    LET e == open.ledger[t]
    IN /\ Trading(e) /\ amount <= e.held[a]
       /\ Tx(t, [e EXCEPT !.sold = @ - amount, !.traded = @ + amount, !.trades = @ + 1,
                          !.held[a] = @ - amount],
             << [kind |-> "Sold", token |-> t, trader |-> a, ethOut |-> amount - 1,
                 fee |-> 1, amount |-> amount, sold |-> e.sold - amount] >>)

\* An ERC-20 transfer, which the subgraph does not index.
Transfer(t, a, b) ==
    LET e == open.ledger[t]
        moved == [e.held EXCEPT ![a] = 0, ![b] = @ + e.held[a]]
    IN /\ a # b /\ e.held[a] > 0
       /\ Tx(t, [e EXCEPT !.held = moved], <<>>)

Claim(t) ==
    LET e == open.ledger[t]
    IN /\ e.graduatedAt # 0 /\ e.graduatedAt < Now /\ e.claimed < e.carve
       /\ Tx(t, [e EXCEPT !.claimed = @ + 1], << [kind |-> "Claimed", token |-> t, amount |-> 1] >>)

Locked(e) == e.lock.until # 0 /\ ~e.lock.reclaimed

Extend(t, until) ==
    LET e == open.ledger[t]
    IN /\ Locked(e) /\ until > e.lock.until
       /\ Tx(t, [e EXCEPT !.lock.until = until, !.lock.extends = @ + 1],
             << [kind |-> "LockExtended", token |-> t, until |-> until] >>)

Collect(t, creator, treasury) ==
    LET e == open.ledger[t]
    IN /\ Locked(e)
       /\ Tx(t, [e EXCEPT !.lock.collected = @ + creator + treasury],
             << [kind |-> "FeesCollected", token |-> t, creator |-> creator,
                 treasury |-> treasury] >>)

Reclaim(t) ==
    LET e == open.ledger[t]
    IN /\ Locked(e) /\ Now > e.lock.until
       /\ Tx(t, [e EXCEPT !.lock.reclaimed = TRUE], << [kind |-> "Reclaimed", token |-> t] >>)

Seal == /\ open.size > 0
        /\ chain' = Append(chain, [id |-> txs, events |-> open.events, ledger |-> open.ledger])
        /\ open' = [open EXCEPT !.events = <<>>, !.size = 0]
        /\ UNCHANGED <<indexed, work, txs, faults>>

\* The newest block gives way to a sibling that does not hold its transactions.
Reorg == /\ faults < MaxFaults /\ Len(chain) > 1
         /\ chain' = Front(chain)
         /\ open' = [events |-> <<>>, ledger |-> Last(Front(chain)).ledger, size |-> 0]
         /\ faults' = faults + 1
         /\ UNCHANGED <<indexed, work, txs>>

-----------------------------------------------------------------------------
(* What graph-node delivers: the block being handled is now, the event the *)
(* one at logIndex.                                                        *)

now == Len(indexed)
Tip == Last(indexed)

CurveEvents == {"Bought", "Sold", "Graduation"}

\* The curve of a launch made in this very block is a data source only once
\* the block's other events are handled.
Late(e) == e.kind \in CurveEvents /\ e.token \notin Tip.store.templates
Before(i, j) == LET late(k) == Late(work.events[k])
                IN IF late(i) = late(j) THEN i < j ELSE late(j)

logIndex == CHOOSE i \in work.left : \A j \in work.left \ {i} : Before(i, j)

-----------------------------------------------------------------------------
(* The handlers of subgraph/src: each takes the store and an event to the  *)
(* store after it.                                                         *)

handleLaunchCreated(s, e) ==
    LET token == [tokensSold |-> 0, ethReserve |-> VIRTUAL_ETH, progress |-> 0,
                  lastTrade |-> 0, buyCount |-> 0, sellCount |-> 0, tradeCount |-> 0,
                  volumeEth |-> 0, curvePositionCount |-> 0,
                  devAllocation |-> 0, devClaimed |-> 0, lockDuration |-> 0,
                  permanentLock |-> FALSE, lock |-> NONE,
                  graduated |-> FALSE, graduatedAt |-> NONE, graduation |-> NONE]
    IN [SaveToken(s, e.token, token) EXCEPT !.templates = @ \cup {e.token},
                                            !.factory.launchCount = @ + 1]

handleLaunchConfig(s, e) ==
    IF ~Has(s.tokens, e.token) THEN s
    ELSE SaveToken(s, e.token,
           [s.tokens[e.token] EXCEPT !.devAllocation = e.carve, !.lockDuration = LOCK_DURATION,
                                     !.permanentLock = e.permanent])

refreshCurveState(token, e) ==
    [token EXCEPT !.tokensSold = e.sold, !.ethReserve = VIRTUAL_ETH + e.sold,
                  !.progress = (e.sold * 10000) \div Allocation, !.lastTrade = now]

NewPosition == [balance |-> 0, bought |-> 0, sold |-> 0, tradeCount |-> 0, firstTrade |-> now]

PositionOf(s, e) == LET id == <<e.token, e.trader>>
                    IN IF Has(s.positions, id) THEN s.positions[id] ELSE NewPosition

LessOrZero(x, y) == IF x < y THEN 0 ELSE x - y

PositionAfter(p, e, isBuy) ==
    IF isBuy THEN [p EXCEPT !.balance = @ + e.amount, !.bought = @ + e.amount,
                            !.tradeCount = @ + 1]
    ELSE [p EXCEPT !.balance = LessOrZero(@, e.amount), !.sold = @ + e.amount,
                   !.tradeCount = @ + 1]

(* Mutant: every buy counted as a new position. *)
CountEveryBuy(count, before, after) ==
    IF after.balance > before.balance THEN count + 1
    ELSE IF before.balance > 0 /\ after.balance = 0 THEN count - 1
    ELSE count

CountAfter(count, before, after) ==
    IF before.balance = 0 /\ after.balance > 0 THEN count + 1
    ELSE IF before.balance > 0 /\ after.balance = 0 THEN count - 1
    ELSE count

applyCurvePositionDelta(s, e, isBuy) ==
    LET before == PositionOf(s, e)
        after == PositionAfter(before, e, isBuy)
        token == [s.tokens[e.token] EXCEPT !.curvePositionCount = CountAfter(@, before, after)]
    IN [SaveToken(s, e.token, token) EXCEPT
          !.positions = Save(@, <<e.token, e.trader>>, after)]

recordTrade(s, e, type) ==
    [s EXCEPT !.trades = Save(@, <<now, logIndex>>,
        [token |-> e.token, trader |-> e.trader, type |-> type, amount |-> e.amount,
         sold |-> e.sold, time |-> now])]

(* Mutant: volume by what the buyer sent, the refund included. *)
BuyVolumeWithRefund(e) == e.ethIn

BuyVolume(e) == e.ethToCurve + e.fee
SellVolume(e) == e.ethOut + e.fee

CountBuy(f, e) == [f EXCEPT !.buyCount = @ + 1, !.tradeCount = @ + 1,
                            !.totalVolumeEth = @ + BuyVolume(e)]

(* Mutant: the rollup is not saved. *)
FactoryNotSaved(f, e) == f
CountSell(f, e) == [f EXCEPT !.sellCount = @ + 1, !.tradeCount = @ + 1,
                             !.totalVolumeEth = @ + SellVolume(e)]

TokenAfterBuy(token, e) ==
    [refreshCurveState(token, e) EXCEPT
       !.buyCount = @ + 1, !.tradeCount = @ + 1, !.volumeEth = @ + BuyVolume(e)]
TokenAfterSell(token, e) ==
    [refreshCurveState(token, e) EXCEPT
       !.sellCount = @ + 1, !.tradeCount = @ + 1, !.volumeEth = @ + SellVolume(e)]

handleBought(s, e) ==
    IF ~Has(s.tokens, e.token) THEN s
    ELSE LET saved == SaveToken(recordTrade(s, e, "BUY"), e.token,
                                TokenAfterBuy(s.tokens[e.token], e))
         IN applyCurvePositionDelta([saved EXCEPT !.factory = CountBuy(@, e)], e, TRUE)

handleSold(s, e) ==
    IF ~Has(s.tokens, e.token) THEN s
    ELSE LET saved == SaveToken(recordTrade(s, e, "SELL"), e.token,
                                TokenAfterSell(s.tokens[e.token], e))
         IN applyCurvePositionDelta([saved EXCEPT !.factory = CountSell(@, e)], e, FALSE)

handleGraduation(s, e) ==
    IF ~Has(s.tokens, e.token) THEN s
    ELSE SaveToken(s, e.token,
           [s.tokens[e.token] EXCEPT !.graduated = TRUE,
                                     !.graduatedAt = IF @ = NONE THEN now ELSE @])

handleGraduated(s, e) ==
    IF ~Has(s.tokens, e.token) THEN s
    ELSE LET token == [s.tokens[e.token] EXCEPT !.graduated = TRUE, !.graduatedAt = now,
                                                !.graduation = e.token]
         IN [SaveToken(s, e.token, token) EXCEPT
               !.graduations = Save(@, e.token, [raisedEth |-> e.weth, time |-> now]),
               !.factory.graduationCount = @ + 1, !.factory.totalRaisedEth = @ + e.weth]

handleClaimed(s, e) ==
    IF ~Has(s.tokens, e.token) THEN s
    ELSE SaveToken(s, e.token, [s.tokens[e.token] EXCEPT !.devClaimed = @ + e.amount])

\* A lock is keyed by its position; each launch has one, named here by its token.
handleLockRegistered(s, e) ==
    IF ~Has(s.tokens, e.token) THEN s
    ELSE LET lock == [until |-> e.until, permanent |-> e.until = PERMANENT,
                      extendCount |-> 0, reclaimed |-> FALSE, collectionCount |-> 0,
                      creatorFees |-> 0, treasuryFees |-> 0]
         IN SaveToken(SaveLock(s, e.token, lock), e.token,
                      [s.tokens[e.token] EXCEPT !.lock = e.token])

handleLockExtended(s, e) ==
    IF ~Has(s.locks, e.token) THEN s
    ELSE SaveLock(s, e.token,
           [s.locks[e.token] EXCEPT !.until = e.until, !.permanent = (e.until = PERMANENT),
                                    !.extendCount = @ + 1])

handleFeesCollected(s, e) ==
    IF ~Has(s.locks, e.token) THEN s
    ELSE LET lock == [s.locks[e.token] EXCEPT !.collectionCount = @ + 1,
                                              !.creatorFees = @ + e.creator,
                                              !.treasuryFees = @ + e.treasury]
         IN [SaveLock(s, e.token, lock) EXCEPT
               !.collections = Save(@, <<now, logIndex>>,
                   [token |-> e.token, creator |-> e.creator, treasury |-> e.treasury])]

handleReclaimed(s, e) ==
    IF ~Has(s.locks, e.token) THEN s
    ELSE SaveLock(s, e.token, [s.locks[e.token] EXCEPT !.reclaimed = TRUE])

-----------------------------------------------------------------------------
(* Graph-node.                                                             *)

OnChain(b) == \E i \in DOMAIN chain : chain[i].id = b.id

StartBlock ==
    /\ ~work.busy /\ OnChain(Tip) /\ Len(indexed) < Len(chain)
    /\ LET b == chain[Len(indexed) + 1]
       IN work' = [busy |-> TRUE, id |-> b.id, store |-> Tip.store,
                   events |-> b.events, left |-> DOMAIN b.events]
    /\ UNCHANGED <<chain, open, indexed, txs, faults>>

Deliver(kind, handler(_, _)) ==
    /\ work.busy /\ work.left # {} /\ work.events[logIndex].kind = kind
    /\ work' = [work EXCEPT !.store = handler(@, work.events[logIndex]), !.left = @ \ {logIndex}]
    /\ UNCHANGED <<chain, open, indexed, txs, faults>>

LaunchCreated == Deliver("LaunchCreated", handleLaunchCreated)
LaunchConfig == Deliver("LaunchConfig", handleLaunchConfig)
Bought == Deliver("Bought", handleBought)
Sold == Deliver("Sold", handleSold)
Graduation == Deliver("Graduation", handleGraduation)
Graduated == Deliver("Graduated", handleGraduated)
Claimed == Deliver("Claimed", handleClaimed)

(* Mutant: a mapping that calls a contract needs the state of the block it
   handles, and the RPC endpoint keeps that of the newest block only. *)
LockRegisteredWithCall ==
    Deliver("LockRegistered", handleLockRegistered) /\ Len(chain) = now + 1

LockRegistered == Deliver("LockRegistered", handleLockRegistered)
LockExtended == Deliver("LockExtended", handleLockExtended)
FeesCollected == Deliver("FeesCollected", handleFeesCollected)
Reclaimed == Deliver("Reclaimed", handleReclaimed)

CommitBlock ==
    /\ work.busy /\ work.left = {}
    /\ indexed' = Append(indexed, [id |-> work.id, store |-> work.store])
    /\ work' = Idle
    /\ UNCHANGED <<chain, open, txs, faults>>

\* The tip has left the chain: its entities go with it.
RevertBlock ==
    /\ ~work.busy /\ ~OnChain(Tip)
    /\ indexed' = Front(indexed)
    /\ UNCHANGED <<chain, open, work, txs, faults>>

Restart == /\ work.busy /\ faults < MaxFaults
           /\ work' = Idle /\ faults' = faults + 1
           /\ UNCHANGED <<chain, open, indexed, txs>>

-----------------------------------------------------------------------------
Chain == \/ \E t \in Tokens, terms \in Launches : CreateLaunch(t, terms[1], terms[2])
         \/ \E t \in Tokens, a \in Accounts, n \in 1..Allocation : Buy(t, a, n) \/ Sell(t, a, n)
         \/ \E t \in Tokens, a, b \in Accounts : Transfer(t, a, b)
         \/ \E t \in Tokens : Claim(t) \/ Reclaim(t)
         \/ \E t \in Tokens, until \in {Now + LOCK_DURATION + 1, PERMANENT} : Extend(t, until)
         \/ \E t \in Tokens : Collect(t, 1, 2)
         \/ Seal \/ Reorg

Handle == \/ LaunchCreated \/ LaunchConfig \/ Bought \/ Sold \/ Graduation \/ Graduated
          \/ Claimed \/ LockRegistered \/ LockExtended \/ FeesCollected \/ Reclaimed

Index == StartBlock \/ Handle \/ CommitBlock \/ RevertBlock

Next == Chain \/ Index \/ Restart

\* Graph-node keeps indexing; the chain need not go on.
Spec == Init /\ [][Next]_vars /\ WF_vars(Index)

-----------------------------------------------------------------------------
LockMatches(lock, e) ==
    /\ lock.until = e.lock.until /\ lock.permanent = (e.lock.until = PERMANENT)
    /\ lock.extendCount = e.lock.extends /\ lock.reclaimed = e.lock.reclaimed
    /\ lock.creatorFees + lock.treasuryFees = e.lock.collected

TokenMatches(s, t, e) ==
    LET token == s.tokens[t]
    IN /\ token.tokensSold = e.sold /\ token.ethReserve = VIRTUAL_ETH + e.sold
       /\ token.devAllocation = e.carve /\ token.devClaimed = e.claimed
       /\ token.lockDuration = LOCK_DURATION /\ token.permanentLock = e.permanent
       /\ token.graduated = (e.graduatedAt # 0)
       /\ token.graduated => /\ token.graduatedAt = e.graduatedAt
                             /\ s.graduations[t].raisedEth = e.raised
                             /\ LockMatches(s.locks[t], e)
       /\ token.volumeEth = e.traded /\ token.tradeCount = e.trades

\* What the subgraph serves as of a block is what the contracts held after that
\* block - launch terms, curve, trades' volume and number, graduation, vesting,
\* lock and fees - although it is put together from events alone, across
\* restarts and reorganisations, and although the events of a curve created in
\* the block are handled after all others.  (subgraph/src, all handlers)
IndexedIsTheChain ==
    \A i \in DOMAIN indexed : i \in DOMAIN chain /\ chain[i].id = indexed[i].id =>
        LET s == indexed[i].store
            ledger == chain[i].ledger
        IN \A t \in Tokens :
             /\ Has(s.tokens, t) <=> ledger[t].launched
             /\ ledger[t].launched => TokenMatches(s, t, ledger[t])

Total(s, Of(_)) ==
    SumFunctionOnSet([t \in Tokens |-> IF Has(s.tokens, t) THEN Of(s.tokens[t]) ELSE 0], Tokens)

Buys(token) == token.buyCount
Sells(token) == token.sellCount
Volume(token) == token.volumeEth

\* The global rollup is the sum over the launches, whatever the order in which
\* the handlers of one block load and save the singleton.  (factory.ts:9,
\* bonding-curve.ts:85)
RollupIsTheSum ==
    \A i \in DOMAIN indexed :
        LET s == indexed[i].store
        IN /\ s.factory.launchCount = Cardinality(DOMAIN s.tokens)
           /\ s.factory.graduationCount = Cardinality(DOMAIN s.graduations)
           /\ s.factory.tradeCount = Cardinality(DOMAIN s.trades)
           /\ s.factory.buyCount = Total(s, Buys)
           /\ s.factory.sellCount = Total(s, Sells)
           /\ s.factory.totalVolumeEth = Total(s, Volume)

BalanceOf(s, t) == [a \in Accounts |-> IF Has(s.positions, <<t, a>>)
                                       THEN s.positions[<<t, a>>].balance ELSE 0]

\* A launch's position count is the number of positive positions, and the
\* positions never add up to less than the curve has sold: tokens that were
\* sold back by an account that got them by transfer stay counted as somebody's,
\* never as nobody's.  (bonding-curve.ts:152-193)
PositionsCoverTheCurve ==
    \A i \in DOMAIN indexed :
        LET s == indexed[i].store
        IN \A t \in DOMAIN s.tokens :
             /\ s.tokens[t].curvePositionCount
                  = Cardinality({a \in Accounts : BalanceOf(s, t)[a] > 0})
             /\ s.tokens[t].tokensSold <= SumFunctionOnSet(BalanceOf(s, t), Accounts)

\* Once no block is added or lost, graph-node reaches the head of the chain,
\* however often it was restarted and whatever it had to revert.
\* (the deployment subgraph/README.md describes; handlers never halt it)
CaughtUp == Tip.id = Last(chain).id /\ ~work.busy
CatchesUp == <>[](Len(chain) > 1 => CaughtUp)
==============================================================================
