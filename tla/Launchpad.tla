------------------------------ MODULE Launchpad ------------------------------
(***************************************************************************)
(* LaunchpadFactory and GraduationManager, with what they move: the whole  *)
(* supply of every launch token, the raise, the creators' grants           *)
(* (DevVesting), the lock records (LPLock.registerLock) and the protocol   *)
(* fee of the Uniswap pools.                                               *)
(*                                                                         *)
(* The owner retunes the parameters at any moment; launches are created,   *)
(* traded and graduated under them.  A launch's curve appears here only as *)
(* what CurvePromise promises of it: an amount sold that moves freely      *)
(* below the allocation, until one step sells the rest and pays the raise. *)
(***************************************************************************)
EXTENDS Calibration

CONSTANTS
    Tokens, Creators, Strangers,
    launchpad,             \* the factory
    Owners,                \* the accounts that may come to own the factory
    Treasuries, Refusing,  \* Refusing: the treasuries that reject ETH
    DEFAULT_VIRTUAL_ETH_RESERVE, DEFAULT_TRADE_FEE_BPS,
    DEFAULT_MAX_BUY_PER_WALLET, DEFAULT_ANTI_SNIPE_THRESHOLD,
    DEFAULT_LOCK_DURATION, MIN_LOCK_DURATION, MAX_LOCK_DURATION,
    DEFAULT_CREATOR_FEE_BPS, MAX_CREATOR_FEE_BPS,
    DEFAULT_VESTING_DURATION, MIN_VESTING_DURATION, MAX_VESTING_DURATION,
    MaxUint128,
    PERMANENT,             \* type(uint64).max
    \* what the setters and createLaunch are called with, valid or not
    CreationFees, VirtualEths, TradeFees, MaxBuys, Thresholds, LockDurations,
    CreatorFees, DevAllocations, VestingDurations, ProtocolFees,
    MaxTime,               \* bound on the clock, in the model only
    MaxProtocolFees        \* bound on what a pool accrues, in the model only

ASSUME Terms ==
    /\ MIN_LOCK_DURATION \in Nat \ {0} /\ MAX_LOCK_DURATION \in Nat
    /\ MIN_VESTING_DURATION \in Nat \ {0} /\ MAX_VESTING_DURATION \in Nat
    /\ MAX_CREATOR_FEE_BPS \in Nat /\ MaxUint128 \in Nat
    /\ MaxTime \in Nat \ {0} /\ PERMANENT \in Nat /\ MaxProtocolFees \in Nat

\* 500 bps of the curve supply fit a uint128, and a block timestamp plus a
\* hundred years stay below 2^64 - 1 for as long as the model's clock runs.
ASSUME Widths ==
    /\ DevAllocation(MAX_DEV_ALLOCATION_BPS) <= MaxUint128
    /\ MaxTime + MAX_LOCK_DURATION < PERMANENT

ASSUME Arguments ==
    /\ CreationFees \subseteq Nat /\ VirtualEths \subseteq Nat
    /\ TradeFees \subseteq Nat /\ MaxBuys \subseteq Nat
    /\ Thresholds \subseteq Nat /\ LockDurations \subseteq Nat
    /\ CreatorFees \subseteq Nat /\ DevAllocations \subseteq Nat
    /\ VestingDurations \subseteq Nat /\ ProtocolFees \subseteq Nat

TOTAL_SUPPLY == CURVE_SUPPLY + GRADUATION_RESERVE

VARIABLES
    owner, pendingOwner,
    params,        \* the owner-tunable parameters
    creatorOf, curveOf, lockConfigOf, devAllocationOf,  \* per token
    tokensSold,    \* by the token's curve
    held,          \* the token's balances: factory, curve, manager, pool
    weth,          \* the raise: what the manager kept, what the pool took
    pools,         \* the token's Uniswap pool
    lockOf,        \* the record registerLock made
    v3Owner,       \* owner of the Uniswap factory
    collected,     \* creation fees and protocol fees paid to each treasury
    promised,      \* the parameters a token was created under (history)
    grants, graduatedAt, now, vault, received, donated    \* DevVesting

Vesting == INSTANCE DevVesting WITH Amounts <- 0..CURVE_SUPPLY,
                                    Durations <- VestingDurations

\* The zero address signs no transaction.
ASSUME Signers == Vesting!NoOne \notin Creators \cup Owners

vestingVars == <<grants, graduatedAt, now, vault, received, donated>>
ownership == <<owner, pendingOwner>>
records == <<creatorOf, curveOf, lockConfigOf, devAllocationOf, promised>>
market == <<tokensSold, held, weth, pools, lockOf>>
vars == <<ownership, params, records, market, v3Owner, collected, vestingVars>>

NoOne == Vesting!NoOne
deployer == CHOOSE o \in Owners : TRUE

DefaultParams ==
    [treasury |-> CHOOSE x \in Treasuries : TRUE,
     creationFee |-> CHOOSE x \in CreationFees : TRUE,
     virtualEthReserve |-> DEFAULT_VIRTUAL_ETH_RESERVE,
     tradeFeeBps |-> DEFAULT_TRADE_FEE_BPS,
     maxBuyPerWallet |-> DEFAULT_MAX_BUY_PER_WALLET,
     antiSnipeThreshold |-> DEFAULT_ANTI_SNIPE_THRESHOLD,
     defaultLockDuration |-> DEFAULT_LOCK_DURATION,
     creatorFeeBps |-> DEFAULT_CREATOR_FEE_BPS,
     maxDevAllocationBps |-> MAX_DEV_ALLOCATION_BPS,
     vestingDuration |-> DEFAULT_VESTING_DURATION,
     protocolFee |-> 4]

NoCurve == [treasury |-> NoOne, virtualEthReserve |-> 0,
            virtualTokenReserve |-> 0, curveTokenAllocation |-> 0,
            tradeFeeBps |-> 0, maxBuyPerWallet |-> 0, antiSnipeThreshold |-> 0]
NoTerms == [lockDuration |-> 0, creatorFeeBps |-> 0, permanent |-> FALSE]
NoLock == [lockUntil |-> 0, creatorFeeBps |-> 0]
NoPool == [price |-> [tokens |-> 0, weth |-> 0], feeProtocol |-> 0, accrued |-> 0]

Launched(t) == creatorOf[t] # NoOne
Trading(t) == Launched(t) /\ graduatedAt[t] = 0
Graduated(t) == graduatedAt[t] # 0
HasPool(t) == pools[t].price # NoPool.price

Init ==
    /\ owner = deployer /\ pendingOwner = NoOne
    /\ params = DefaultParams
    /\ creatorOf = [t \in Tokens |-> NoOne]
    /\ curveOf = [t \in Tokens |-> NoCurve]
    /\ lockConfigOf = [t \in Tokens |-> NoTerms]
    /\ devAllocationOf = [t \in Tokens |-> 0]
    /\ tokensSold = [t \in Tokens |-> 0]
    /\ held = [t \in Tokens |->
                 [factory |-> 0, curve |-> 0, manager |-> 0, pool |-> 0]]
    /\ weth = [t \in Tokens |-> [manager |-> 0, pool |-> 0]]
    /\ pools = [t \in Tokens |-> NoPool]
    /\ lockOf = [t \in Tokens |-> NoLock]
    /\ v3Owner = deployer
    /\ collected = [x \in Treasuries |-> 0]
    /\ promised = [t \in Tokens |-> params]
    /\ Vesting!Init

----------------------------------------------------------------------------
(* createLaunch. *)

(* Mutant: the carve recomputed by dividing before multiplying. *)
CarveDividedFirst(c, bps) == (CURVE_SUPPLY \div BPS) * bps

\* _grantDevCarve: derived from the curve's allocation, not from bps.
DevCarve(c, bps) == CURVE_SUPPLY - c.curveTokenAllocation

Pays(treasury, fee) == fee > 0 => treasury \notin Refusing

CreateLaunch(creator, t, bps, permanent) ==
    LET c == curveConfigFor(params, bps)
        carve == DevCarve(c, bps)
    IN  /\ ~Launched(t)
        /\ bps <= params.maxDevAllocationBps
        /\ ConstructorAccepts(c)
        /\ Pays(params.treasury, params.creationFee)
        /\ creatorOf' = [creatorOf EXCEPT ![t] = creator]
        /\ curveOf' = [curveOf EXCEPT ![t] = c]
        /\ lockConfigOf' = [lockConfigOf EXCEPT ![t] =
                [lockDuration |-> params.defaultLockDuration,
                 creatorFeeBps |-> params.creatorFeeBps,
                 permanent |-> permanent]]
        /\ devAllocationOf' = [devAllocationOf EXCEPT ![t] = carve]
        /\ held' = [held EXCEPT ![t] =
                [factory |-> TOTAL_SUPPLY - c.curveTokenAllocation
                               - GRADUATION_RESERVE - carve,
                 curve |-> c.curveTokenAllocation,
                 manager |-> GRADUATION_RESERVE,
                 pool |-> 0]]
        /\ IF carve = 0 THEN UNCHANGED vestingVars
           ELSE Vesting!RegisterGrant(launchpad, t, creator, carve,
                                      params.vestingDuration)
        /\ collected' = [collected EXCEPT ![params.treasury] = @ + params.creationFee]
        /\ promised' = [promised EXCEPT ![t] = params]
        /\ UNCHANGED <<ownership, params, tokensSold, weth, pools, lockOf, v3Owner>>

----------------------------------------------------------------------------
(* A launch on its curve. *)

\* Bound, in the model only: three levels stand for every amount sold.
SoldLevels(c) == {0, c.curveTokenAllocation \div 2, c.curveTokenAllocation - 1}

\* buy and sell, short of the crossing.
Trade(t, sold) ==
    /\ Trading(t) /\ sold # tokensSold[t]
    /\ tokensSold' = [tokensSold EXCEPT ![t] = sold]
    /\ held' = [held EXCEPT ![t].curve = curveOf[t].curveTokenAllocation - sold]
    /\ UNCHANGED <<ownership, params, records, weth, pools, lockOf, v3Owner,
                   collected, vestingVars>>

\* A holder sends one token to the manager, which has no use for it.
DonateToManager(t) ==
    /\ Trading(t) /\ 0 < tokensSold[t]
    /\ held[t].manager = GRADUATION_RESERVE
    /\ held' = [held EXCEPT ![t].manager = @ + 1]
    /\ UNCHANGED <<ownership, params, records, tokensSold, weth, pools, lockOf,
                   v3Owner, collected, vestingVars>>

\* Anybody may create a Uniswap pool for any pair, at a price of their own.
OtherPrice == [tokens |-> 1, weth |-> 1]
CreatePool(t) ==
    /\ Trading(t) /\ ~HasPool(t)
    /\ pools' = [pools EXCEPT ![t].price = OtherPrice]
    /\ UNCHANGED <<ownership, params, records, tokensSold, held, weth, lockOf,
                   v3Owner, collected, vestingVars>>

----------------------------------------------------------------------------
(* GraduationManager.graduate, called by the buy that sells the curve out. *)

(* Mutants: the lock terms resolved at graduation; the seed taken from the
   manager's balance. *)
LockTermsInForce(t) ==
    [lockDuration |-> params.defaultLockDuration,
     creatorFeeBps |-> params.creatorFeeBps,
     permanent |-> lockConfigOf[t].permanent]
SeedFromBalance(t) == held[t].manager

LockTerms(t) == lockConfigOf[t]
Seed(t) == GRADUATION_RESERVE

\* _registerLock
LockUntil(t) == IF LockTerms(t).permanent THEN PERMANENT
                ELSE now + LockTerms(t).lockDuration

\* createAndInitializePoolIfNecessary leaves an existing pool's price alone.
OpeningPrice(t) == IF HasPool(t) THEN pools[t].price
                   ELSE [tokens |-> Seed(t), weth |-> Raise(curveOf[t])]

\* What a full-range mint takes of the amounts offered, both minima zero: all
\* of one and, of the other, what the pool's price asks for.
UsedTokens(price, tokens, eth) ==
    MinOf(tokens, CeilDiv(eth * price.tokens, price.weth))
UsedWeth(price, tokens, eth) ==
    MinOf(eth, CeilDiv(tokens * price.weth, price.tokens))

\* UniswapV3Pool.setFeeProtocol takes these and reverts on the others.
PoolAcceptsFee(fee) == fee = 0 \/ fee \in 4..10

\* applyProtocolFee: the parameter in force now, if the factory owns Uniswap's.
SwitchesFee == params.protocolFee # 0 /\ v3Owner = launchpad
FeeAtOpening(t) ==
    IF SwitchesFee THEN params.protocolFee ELSE pools[t].feeProtocol

\* Everything on graduate's path that could revert.
CanGraduate(t) ==
    /\ 0 < Raise(curveOf[t])
    /\ Seed(t) <= held[t].manager
    /\ LockUntil(t) <= PERMANENT                \* checked uint64 addition
    /\ LockTerms(t).creatorFeeBps <= MAX_CREATOR_FEE_BPS
    /\ lockOf[t] = NoLock
    /\ SwitchesFee => PoolAcceptsFee(params.protocolFee)

Graduate(t) ==
    LET raise == Raise(curveOf[t])
        price == OpeningPrice(t)
        tokens == UsedTokens(price, Seed(t), raise)
        eth == UsedWeth(price, Seed(t), raise)
    IN  /\ Trading(t) /\ CanGraduate(t)
        /\ Vesting!Graduate(t)
        /\ tokensSold' = [tokensSold EXCEPT ![t] = curveOf[t].curveTokenAllocation]
        /\ held' = [held EXCEPT ![t].curve = 0, ![t].manager = @ - tokens,
                                ![t].pool = tokens]
        /\ weth' = [weth EXCEPT ![t] = [manager |-> raise - eth, pool |-> eth]]
        /\ pools' = [pools EXCEPT ![t] =
                [pools[t] EXCEPT !.price = price,
                                 !.feeProtocol = FeeAtOpening(t)]]
        /\ lockOf' = [lockOf EXCEPT ![t] =
                [lockUntil |-> LockUntil(t),
                 creatorFeeBps |-> LockTerms(t).creatorFeeBps]]
        /\ UNCHANGED <<ownership, params, records, v3Owner, collected>>

----------------------------------------------------------------------------
(* The owner. *)

(* Mutant: the guard of the setter off by one. *)
FeeFromThree(fee) == fee = 0 \/ fee \in 3..10

ValidLockParams(duration, fee) ==
    /\ MIN_LOCK_DURATION <= duration /\ duration <= MAX_LOCK_DURATION
    /\ fee <= MAX_CREATOR_FEE_BPS
ValidVestingDuration(duration) ==
    MIN_VESTING_DURATION <= duration /\ duration <= MAX_VESTING_DURATION
ValidProtocolFee(fee) == fee = 0 \/ fee \in 4..10

\* The initial parameters pass the setters' guards.
ASSUME Defaults ==
    /\ Treasuries # {} /\ CreationFees # {}
    /\ DEFAULT_VIRTUAL_ETH_RESERVE \in Nat /\ DEFAULT_TRADE_FEE_BPS \in Nat
    /\ DEFAULT_MAX_BUY_PER_WALLET \in Nat /\ DEFAULT_ANTI_SNIPE_THRESHOLD \in Nat
    /\ DEFAULT_LOCK_DURATION \in Nat /\ DEFAULT_CREATOR_FEE_BPS \in Nat
    /\ DEFAULT_VESTING_DURATION \in Nat
    /\ ValidCurveParams(DEFAULT_VIRTUAL_ETH_RESERVE, DEFAULT_TRADE_FEE_BPS,
                        DEFAULT_MAX_BUY_PER_WALLET, DEFAULT_ANTI_SNIPE_THRESHOLD)
    /\ ValidLockParams(DEFAULT_LOCK_DURATION, DEFAULT_CREATOR_FEE_BPS)
    /\ ValidVestingDuration(DEFAULT_VESTING_DURATION)

\* The frame of every setter.
Retune(by) ==
    /\ by = owner
    /\ UNCHANGED <<ownership, records, market, v3Owner, collected, vestingVars>>

SetCreationFee(by, fee) ==
    Retune(by) /\ params' = [params EXCEPT !.creationFee = fee]

SetTreasury(by, treasury) ==
    Retune(by) /\ params' = [params EXCEPT !.treasury = treasury]

SetCurveParams(by, virtualEth, tradeFee, maxBuy, threshold) ==
    /\ ValidCurveParams(virtualEth, tradeFee, maxBuy, threshold)
    /\ Retune(by)
    /\ params' = [params EXCEPT !.virtualEthReserve = virtualEth,
                                !.tradeFeeBps = tradeFee,
                                !.maxBuyPerWallet = maxBuy,
                                !.antiSnipeThreshold = threshold]

SetLockParams(by, duration, fee) ==
    /\ ValidLockParams(duration, fee)
    /\ Retune(by)
    /\ params' = [params EXCEPT !.defaultLockDuration = duration,
                                !.creatorFeeBps = fee]

SetMaxDevAllocationBps(by, bps) ==
    /\ bps <= MAX_DEV_ALLOCATION_BPS
    /\ Retune(by)
    /\ params' = [params EXCEPT !.maxDevAllocationBps = bps]

SetVestingDuration(by, duration) ==
    /\ ValidVestingDuration(duration)
    /\ Retune(by)
    /\ params' = [params EXCEPT !.vestingDuration = duration]

SetProtocolFee(by, fee) ==
    /\ ValidProtocolFee(fee)
    /\ Retune(by)
    /\ params' = [params EXCEPT !.protocolFee = fee]

\* On a pool of this platform, which must exist and whose factory must belong
\* to the launchpad.
SetPoolProtocolFee(by, t, fee) ==
    /\ by = owner
    /\ ValidProtocolFee(fee) /\ HasPool(t) /\ v3Owner = launchpad
    /\ PoolAcceptsFee(fee)
    /\ pools' = [pools EXCEPT ![t].feeProtocol = fee]
    /\ UNCHANGED <<ownership, params, records, tokensSold, held, weth, lockOf,
                   v3Owner, collected, vestingVars>>

\* Ownable2Step.
TransferOwnership(by, to) ==
    /\ by = owner /\ pendingOwner' = to
    /\ UNCHANGED <<owner, params, records, market, v3Owner, collected, vestingVars>>
AcceptOwnership(by) ==
    /\ by = pendingOwner /\ owner' = by /\ pendingOwner' = NoOne
    /\ UNCHANGED <<params, records, market, v3Owner, collected, vestingVars>>
RenounceOwnership(by) ==
    /\ by = owner /\ owner' = NoOne /\ pendingOwner' = NoOne
    /\ UNCHANGED <<params, records, market, v3Owner, collected, vestingVars>>

----------------------------------------------------------------------------
(* The rest of the world. *)

\* The deployer hands the Uniswap factory to the launchpad, once.
HandOverV3Factory ==
    /\ v3Owner = deployer /\ v3Owner' = launchpad
    /\ UNCHANGED <<ownership, params, records, market, collected, vestingVars>>

\* A swap leaves the protocol its part of the fee, if the switch is on.
Swap(t) ==
    /\ Graduated(t) /\ pools[t].feeProtocol # 0
    /\ \A x \in Treasuries : pools[t].accrued + collected[x] < MaxProtocolFees
    /\ pools' = [pools EXCEPT ![t].accrued = @ + 1]
    /\ UNCHANGED <<ownership, params, records, tokensSold, held, weth, lockOf,
                   v3Owner, collected, vestingVars>>

\* collectProtocolFees, by anyone; the pool keeps one wei of what accrued.
CollectProtocolFees(t) ==
    /\ v3Owner = launchpad /\ 1 < pools[t].accrued
    /\ pools' = [pools EXCEPT ![t].accrued = 1]
    /\ collected' = [collected EXCEPT ![params.treasury] = @ + pools[t].accrued - 1]
    /\ UNCHANGED <<ownership, params, records, tokensSold, held, weth, lockOf, v3Owner>>
    /\ UNCHANGED vestingVars

\* Claims, donations to the vault and the clock, as in DevVesting.
VestingStep ==
    /\ \/ Vesting!Tick
       \/ \E t \in Tokens :
            \/ Vesting!Claim(creatorOf[t], t)
            \/ (Graduated(t) \/ 0 < tokensSold[t]) /\ Vesting!Donate(t)
    /\ UNCHANGED <<ownership, params, records, market, v3Owner, collected>>

OwnerStep(by) ==
    \/ \E fee \in CreationFees : SetCreationFee(by, fee)
    \/ \E x \in Treasuries : SetTreasury(by, x)
    \/ \E v \in VirtualEths, f \in TradeFees, m \in MaxBuys, s \in Thresholds :
          SetCurveParams(by, v, f, m, s)
    \/ \E d \in LockDurations, f \in CreatorFees : SetLockParams(by, d, f)
    \/ \E bps \in DevAllocations : SetMaxDevAllocationBps(by, bps)
    \/ \E d \in VestingDurations : SetVestingDuration(by, d)
    \/ \E f \in ProtocolFees : SetProtocolFee(by, f)
    \/ \E t \in Tokens, f \in ProtocolFees : SetPoolProtocolFee(by, t, f)
    \/ \E o \in Owners : TransferOwnership(by, o)
    \/ AcceptOwnership(by)
    \/ RenounceOwnership(by)

LaunchStep(t) ==
    \/ \E c \in Creators, bps \in DevAllocations, permanent \in BOOLEAN :
          CreateLaunch(c, t, bps, permanent)
    \/ \E sold \in SoldLevels(curveOf[t]) : Trade(t, sold)
    \/ DonateToManager(t)
    \/ CreatePool(t)
    \/ Graduate(t)
    \/ Swap(t)
    \/ CollectProtocolFees(t)

Next ==
    \/ \E by \in Owners : OwnerStep(by)
    \/ \E t \in Tokens : LaunchStep(t)
    \/ HandOverV3Factory
    \/ VestingStep

Spec == Init /\ [][Next]_vars
----------------------------------------------------------------------------
(* Properties. *)

Parameters ==
    [treasury : Treasuries, creationFee : Nat, virtualEthReserve : Nat,
     tradeFeeBps : Nat, maxBuyPerWallet : Nat, antiSnipeThreshold : Nat,
     defaultLockDuration : MIN_LOCK_DURATION..MAX_LOCK_DURATION,
     creatorFeeBps : 0..MAX_CREATOR_FEE_BPS,
     maxDevAllocationBps : 0..MAX_DEV_ALLOCATION_BPS,
     vestingDuration : MIN_VESTING_DURATION..MAX_VESTING_DURATION,
     protocolFee : {0} \cup 4..10]

\* No balance is ever negative (every transfer is covered) and no parameter
\* leaves the range its setter promises.
TypeOK ==
    /\ owner \in Owners \cup {NoOne} /\ pendingOwner \in Owners \cup {NoOne}
    /\ params \in Parameters
    /\ creatorOf \in [Tokens -> Creators \cup {NoOne}]
    /\ devAllocationOf \in [Tokens -> Nat] /\ tokensSold \in [Tokens -> Nat]
    /\ held \in [Tokens -> [factory : Nat, curve : Nat, manager : Nat, pool : Nat]]
    /\ weth \in [Tokens -> [manager : Nat, pool : Nat]]
    /\ lockOf \in [Tokens -> [lockUntil : 0..PERMANENT,
                              creatorFeeBps : 0..MAX_CREATOR_FEE_BPS]]
    /\ collected \in [Treasuries -> Nat]
    /\ v3Owner \in {deployer, launchpad}

\* The configuration of every launch that could be created now.
Offered == {curveConfigFor(params, bps) : bps \in 0..params.maxDevAllocationBps}

\* "Validation mirrors BondingCurve's constructor invariants so a launch can
\* never be bricked by a param change" (setCurveParams): whatever the owner set
\* and whatever allocation the creator picks, the curve can be built, satisfies
\* all that BondingCurve assumes, and its cap lifts before it is sold out; and
\* the vesting vault takes the carve.
NoParameterBricksALaunch ==
    \A c \in Offered :
        /\ Buildable(c) /\ CapLifts(c)
        /\ LET carve == CURVE_SUPPLY - c.curveTokenAllocation
           IN  carve # 0 => Vesting!IsGrant(carve) /\ 0 < params.vestingDuration

\* "Does continuity actually hold for every reachable virtualEthReserve?"
\* (docs/audit-scope.md section 3): yes, for every reachable one and every dev
\* allocation, and the raise stays on the owner's target.
EveryOfferIsCalibrated ==
    \A c \in Offered : PriceContinuous(c) /\ OnTarget(c, params.virtualEthReserve)

\* The supply adds up, launch by launch: createLaunch moves all of it out of
\* the factory, what is not for sale or in escrow is in the creator's grant,
\* and until graduation the curve holds all that is unsold and the manager the
\* whole reserve.
SupplyAccounted ==
    \A t \in Tokens : Launched(t) =>
        /\ held[t].factory = 0
        /\ curveOf[t].curveTokenAllocation + GRADUATION_RESERVE + grants[t].total
             = TOTAL_SUPPLY
        /\ devAllocationOf[t] = grants[t].total
        /\ Trading(t) => /\ held[t].curve + tokensSold[t]
                              = curveOf[t].curveTokenAllocation
                         /\ GRADUATION_RESERVE <= held[t].manager

\* "Never brick a graduation": once a launch is trading, nothing the owner
\* retunes, no donation, no pool somebody else created and no passage of time
\* makes the crossing buy's graduation revert.
GraduationNeverReverts == \A t \in Tokens : Trading(t) => CanGraduate(t)

\* A pool that graduation itself opened holds the whole reserve and the whole
\* raise, whatever was sent to the manager, and opens at the price the curve
\* closed at.  A pool that was there before keeps its own price.
PoolOpensAtTheClose ==
    \A t \in Tokens : (Graduated(t) /\ pools[t].price # OtherPrice) =>
        /\ held[t].pool = GRADUATION_RESERVE
        /\ weth[t] = [manager |-> 0, pool |-> Raise(curveOf[t])]
        /\ pools[t].price = [tokens |-> held[t].pool, weth |-> weth[t].pool]
        /\ PriceContinuous(curveOf[t])

\* "Future-only": what binds a launch is what was in force when it was created,
\* however the owner retuned since: the lock's length and fee split, the
\* vesting window, and the curve's own terms.
TermsAreThoseAtCreation ==
    \A t \in Tokens :
        /\ Launched(t) =>
             /\ grants[t].total # 0 =>
                  grants[t].duration = promised[t].vestingDuration
             /\ curveOf[t].treasury = promised[t].treasury
             /\ curveOf[t].tradeFeeBps = promised[t].tradeFeeBps
        /\ Graduated(t) =>
             /\ lockOf[t].creatorFeeBps = promised[t].creatorFeeBps
             /\ lockConfigOf[t].permanent
                \/ lockOf[t].lockUntil
                     = graduatedAt[t] + promised[t].defaultLockDuration

\* A lock is permanent exactly if its creator asked for it: no duration the
\* owner can set lands on the sentinel, and every other lock lasts at least the
\* minimum from graduation.
PermanentOnlyByChoice ==
    \A t \in Tokens : Graduated(t) =>
        /\ (lockOf[t].lockUntil = PERMANENT) <=> lockConfigOf[t].permanent
        /\ graduatedAt[t] + MIN_LOCK_DURATION <= lockOf[t].lockUntil
=============================================================================
