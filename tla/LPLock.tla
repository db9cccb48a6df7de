------------------------------- MODULE LPLock -------------------------------
(***************************************************************************)
(* The custodian of graduated liquidity                                    *)
(* (contracts/src/periphery/LPLock.sol) with the two Uniswap objects it    *)
(* reads and drives: the position NFTs and each pool's observation ring.   *)
(*                                                                         *)
(* A launch has one pool, named here by its launch token.  A position's    *)
(* amounts are pairs, ordered as the pool orders its tokens, which is by   *)
(* address and so differs from launch to launch.  Every external call made *)
(* is to the position manager or a plain ERC-20: each function is atomic.  *)
(***************************************************************************)
EXTENDS CurveMath

CONSTANTS
    LaunchTokens, weth,
    LaunchFirst,        \* the launch tokens whose address is below WETH's
    Creators, Strangers, owner,
    Ids,                \* position ids
    lock, treasury, DEAD,
    Width,              \* 2^32 in the code
    Durations,          \* the lock durations the factory hands out
    CreatorShares,      \* the creatorFeeBps it hands out
    MAX_CREATOR_FEE_BPS,
    InitialPeriod,      \* inactivityPeriod as deployed
    Worth,              \* the amounts of each token a position can hold
    MaxCardinality, MaxFees, MaxTime, MaxDonations    \* bounds of the model

Callers == Creators \cup Strangers \cup {owner}
Accounts == Creators \cup {lock, treasury, DEAD}
Assets == LaunchTokens \cup {weth}

\* type(uint64).max: above every date.
PERMANENT == MaxTime + Width

ASSUME LockConstants ==
    /\ weth \notin LaunchTokens /\ LaunchFirst \subseteq LaunchTokens
    /\ lock # treasury /\ lock # DEAD /\ treasury # DEAD
    /\ {lock, treasury, DEAD} \cap Creators = {}
    /\ MaxTime \in Nat /\ Width \in Nat \ {0, 1}
    /\ InitialPeriod \in 0..(Width - 1)
    /\ MAX_CREATOR_FEE_BPS \in Nat \ {0}
    /\ CreatorShares \subseteq 0..MAX_CREATOR_FEE_BPS
    /\ Durations \subseteq 0..(Width - 1)
    /\ Worth \subseteq Nat
    /\ MaxCardinality \in Nat \ {0} /\ MaxFees \in Nat /\ MaxDonations \in Nat

VARIABLES
    now,                \* block.timestamp
    creatorOf,          \* LaunchpadFactory.creatorOf, set once per launch
    locks,              \* _locks
    inactivityPeriod,
    positions,          \* the position manager's view of each id
    oracle,             \* each pool's observation ring
    balance,            \* ERC-20 balances
    lastWrite,          \* when each pool's ring was last written (history)
    promised,           \* the terms in force when a lock was made (history)
    donated             \* tokens sent to the lock by others (history)

vars == <<now, creatorOf, locks, inactivityPeriod, positions, oracle, balance,
          lastWrite, promised, donated>>

Origins == {"None", "Launch", "ThirdParty"}

Blockers == {"NoBlocker", "NotALaunchPosition", "AlreadyReclaimed",
             "PermanentLock", "NotExpired", "PoolActive"}

UnregisteredLock ==
    [origin |-> "None", launchToken |-> weth, lockUntil |-> 0,
     creatorFeeBps |-> 0, reclaimed |-> FALSE]

NoPosition == [holder |-> "nobody", pool |-> weth,
               principal |-> <<0, 0>>, owed |-> <<0, 0>>]

NoPool == [exists |-> FALSE, index |-> 0, cardinality |-> 1, cardinalityNext |-> 1,
           ring |-> [i \in 0..(MaxCardinality - 1) |-> [ts |-> 0, initialized |-> FALSE]]]

Init ==
    /\ now = 0
    /\ creatorOf \in [LaunchTokens -> Creators]
    /\ locks = [id \in Ids |-> UnregisteredLock]
    /\ inactivityPeriod = InitialPeriod
    /\ positions = [id \in Ids |-> NoPosition]
    /\ oracle = [p \in LaunchTokens |-> NoPool]
    /\ balance = [a \in Accounts |-> [x \in Assets |-> 0]]
    /\ lastWrite = [p \in LaunchTokens |-> 0]
    /\ promised = [id \in Ids |-> [lockUntil |-> 0, period |-> 0]]
    /\ donated = [x \in Assets |-> 0]

----------------------------------------------------------------------------
(* The pool: its token order and its observation ring. *)

token0(p) == IF p \in LaunchFirst THEN p ELSE weth
token1(p) == IF p \in LaunchFirst THEN weth ELSE p

\* The pool's oracle write: nothing twice in one second; the ring grows when
\* the index reaches its end.
Written(o) ==
    LET stamp == now % Width
        size == IF o.cardinalityNext > o.cardinality /\ o.index = o.cardinality - 1
                THEN o.cardinalityNext ELSE o.cardinality
        i == (o.index + 1) % size
    IN  IF o.ring[o.index].ts = stamp THEN o
        ELSE [o EXCEPT !.cardinality = size, !.index = i,
                       !.ring[i] = [ts |-> stamp, initialized |-> TRUE]]

Observe(p) ==
    /\ oracle' = [oracle EXCEPT ![p] = Written(@)]
    /\ lastWrite' = [lastWrite EXCEPT ![p] = now]

\* The subtraction is modulo 2^32, and an observation that cannot be dated
\* reads as this very second.
secondsSincePoolActivity(p) ==
    LET last == oracle[p].ring[oracle[p].index]
    IN  IF last.initialized THEN (now - last.ts) % Width ELSE 0

(* Mutants: no look at the pool; a second reclaim. *)
BlockerByCalendar(id) ==
    LET r == locks[id]
    IN  IF r.origin # "Launch" THEN "NotALaunchPosition"
        ELSE IF r.reclaimed THEN "AlreadyReclaimed"
        ELSE IF r.lockUntil = PERMANENT THEN "PermanentLock"
        ELSE IF now <= r.lockUntil THEN "NotExpired" ELSE "NoBlocker"
BlockerWithoutReclaimed(id) ==
    LET r == locks[id]
    IN  IF r.origin # "Launch" THEN "NotALaunchPosition"
        ELSE IF r.lockUntil = PERMANENT THEN "PermanentLock"
        ELSE IF now <= r.lockUntil THEN "NotExpired"
        ELSE IF secondsSincePoolActivity(r.launchToken) < inactivityPeriod
             THEN "PoolActive" ELSE "NoBlocker"
reclaimBlocker(id) ==
    LET r == locks[id]
    IN  IF r.origin # "Launch" THEN "NotALaunchPosition"
        ELSE IF r.reclaimed THEN "AlreadyReclaimed"
        ELSE IF r.lockUntil = PERMANENT THEN "PermanentLock"
        ELSE IF now <= r.lockUntil THEN "NotExpired"
        ELSE IF secondsSincePoolActivity(r.launchToken) < inactivityPeriod
             THEN "PoolActive" ELSE "NoBlocker"

----------------------------------------------------------------------------
(* Uniswap and the clock. *)

\* A later block.
Tick ==
    /\ now < MaxTime
    /\ now' = now + 1
    /\ UNCHANGED <<creatorOf, locks, inactivityPeriod, positions, oracle, balance,
                   lastWrite, promised, donated>>

\* Everyone with liquidity in the pool earns a fee in the token paid in, until
\* the model's bound on fees is reached.
Earns(id, p, side) ==
    /\ positions[id].pool = p /\ positions[id].principal # <<0, 0>>
    /\ positions[id].owed[side] + balance[treasury][<<token0(p), token1(p)>>[side]]
         < MaxFees

WithFee(p, side) ==
    [id \in Ids |-> IF Earns(id, p, side)
                    THEN [positions[id] EXCEPT !.owed[side] = @ + 1] ELSE positions[id]]

\* A swap: it writes an observation only when it moves the pool's tick.
Swap(p, side, movesTick) ==
    /\ oracle[p].exists
    /\ positions' = WithFee(p, side)
    /\ IF movesTick THEN Observe(p) ELSE UNCHANGED <<oracle, lastWrite>>
    /\ UNCHANGED <<now, creatorOf, locks, inactivityPeriod, balance, promised, donated>>

\* Anyone may make the ring longer; it grows at a later write.
IncreaseObservationCardinality(p) ==
    /\ oracle[p].exists /\ oracle[p].cardinalityNext < MaxCardinality
    /\ oracle' = [oracle EXCEPT ![p].cardinalityNext = @ + 1]
    /\ UNCHANGED <<now, creatorOf, locks, inactivityPeriod, positions, balance,
                   lastWrite, promised, donated>>

\* A pool is created and dated; anyone may do it before the launch graduates.
Created(o) == [o EXCEPT !.exists = TRUE,
                        !.ring[0] = [ts |-> now % Width, initialized |-> TRUE]]

CreatePool(p) ==
    /\ ~oracle[p].exists
    /\ oracle' = [oracle EXCEPT ![p] = Created(@)]
    /\ lastWrite' = [lastWrite EXCEPT ![p] = now]
    /\ UNCHANGED <<now, creatorOf, locks, inactivityPeriod, positions, balance,
                   promised, donated>>

\* A stranger's own liquidity in a launch's pool: an observation is written
\* only when its range holds the current price.
MintByStranger(id, p, amounts, inRange) ==
    /\ oracle[p].exists /\ positions[id].holder = "nobody"
    /\ positions' = [positions EXCEPT ![id] =
          [holder |-> "stranger", pool |-> p, principal |-> amounts, owed |-> <<0, 0>>]]
    /\ IF inRange THEN Observe(p) ELSE UNCHANGED <<oracle, lastWrite>>
    /\ UNCHANGED <<now, creatorOf, locks, inactivityPeriod, balance, promised, donated>>

\* onERC721Received: the lock accepts a position and records nothing.
SendToLock(id) ==
    /\ positions[id].holder = "stranger"
    /\ positions' = [positions EXCEPT ![id].holder = "lock"]
    /\ UNCHANGED <<now, creatorOf, locks, inactivityPeriod, oracle, balance,
                   lastWrite, promised, donated>>

\* Somebody sends tokens to the lock.
Donate(x) ==
    /\ donated[x] < MaxDonations
    /\ donated' = [donated EXCEPT ![x] = @ + 1]
    /\ balance' = [balance EXCEPT ![lock][x] = @ + 1]
    /\ UNCHANGED <<now, creatorOf, locks, inactivityPeriod, positions, oracle,
                   lastWrite, promised>>

----------------------------------------------------------------------------
(* The lock. *)

(* The end of GraduationManager.graduate, which runs once for a launch: the
   pool is created if need be, the position minted to the lock and, in the
   same transaction, registerLock called. *)
registerLock(id, p, amounts, lockUntil, creatorFeeBps) ==
    /\ \A i \in Ids : locks[i].launchToken # p
    /\ positions[id].holder = "nobody"
    /\ creatorFeeBps <= MAX_CREATOR_FEE_BPS
    /\ locks[id].origin = "None"
    /\ oracle' = [oracle EXCEPT ![p] = IF @.exists THEN Written(@) ELSE Created(@)]
    /\ lastWrite' = [lastWrite EXCEPT ![p] = now]
    /\ positions' = [positions EXCEPT ![id] =
          [holder |-> "lock", pool |-> p, principal |-> amounts, owed |-> <<0, 0>>]]
    /\ locks' = [locks EXCEPT ![id] =
          [origin |-> "Launch", launchToken |-> p, lockUntil |-> lockUntil,
           creatorFeeBps |-> creatorFeeBps, reclaimed |-> FALSE]]
    /\ promised' = [promised EXCEPT ![id] =
          [lockUntil |-> lockUntil, period |-> inactivityPeriod]]
    /\ UNCHANGED <<now, creatorOf, inactivityPeriod, balance, donated>>

(* Mutant: any date at all. *)
AnyDate(id, newLockUntil) == TRUE

Lengthens(id, newLockUntil) == newLockUntil > locks[id].lockUntil
IsLaunchCreator(caller, id) == caller = creatorOf[locks[id].launchToken]

extend(caller, id, newLockUntil) ==
    /\ locks[id].origin # "None" /\ ~locks[id].reclaimed
    /\ IsLaunchCreator(caller, id)
    /\ Lengthens(id, newLockUntil)
    /\ locks' = [locks EXCEPT ![id].lockUntil = newLockUntil]
    /\ UNCHANGED <<now, creatorOf, inactivityPeriod, positions, oracle, balance,
                   lastWrite, promised, donated>>

(* Mutants: the split rounded up; the whole balance paid. *)
ShareRoundedUp(id, amount) ==
    CeilDiv(amount * locks[id].creatorFeeBps, MAX_CREATOR_FEE_BPS)
PayWholeBalance(from, b, to, x, amount) ==
    [b EXCEPT ![from][x] = 0, ![to][x] = @ + b[from][x]]

\* The creator's part of an amount collected; nothing without a launch lock.
CreatorPart(id, amount) ==
    IF locks[id].origin = "Launch"
    THEN BpsOf(amount, locks[id].creatorFeeBps, MAX_CREATOR_FEE_BPS) ELSE 0

\* The account that part is for: only asked when the part is positive.
CreatorOfLock(id) == creatorOf[locks[id].launchToken]

Pay(from, b, to, x, amount) ==
    IF amount = 0 THEN b
    ELSE [b EXCEPT ![from][x] = @ - amount, ![to][x] = @ + amount]

PayOut(id, b, x, amount) ==
    LET part == CreatorPart(id, amount)
        rest == Pay(lock, b, treasury, x, amount - part)
    IN  IF part = 0 THEN rest ELSE Pay(lock, rest, CreatorOfLock(id), x, part)

\* What the position manager pays out arrives at the lock.
PaidIn(p, amount0, amount1) ==
    LET own == [balance[lock] EXCEPT ![token0(p)] = @ + amount0,
                                     ![token1(p)] = @ + amount1]
    IN  [balance EXCEPT ![lock] = own]

\* collect: the position manager pays the lock, the lock pays out the split.
collect(id) ==
    LET pos == positions[id]
        t0 == token0(pos.pool)
        t1 == token1(pos.pool)
        paidIn == PaidIn(pos.pool, pos.owed[1], pos.owed[2])
    IN  /\ pos.holder = "lock"
        /\ positions' = [positions EXCEPT ![id].owed = <<0, 0>>]
        /\ balance' = PayOut(id, PayOut(id, paidIn, t0, pos.owed[1]), t1, pos.owed[2])
        /\ UNCHANGED <<now, creatorOf, locks, inactivityPeriod, oracle, lastWrite,
                       promised, donated>>

BurnsToken0(p) == p \in LaunchFirst
Swept(id) == <<positions[id].principal[1] + positions[id].owed[1],
               positions[id].principal[2] + positions[id].owed[2]>>

\* reclaim: the position is drained and burned, the launch token goes to DEAD
\* and the WETH to the treasury; removing liquidity writes an observation.
reclaim(id) ==
    LET p == locks[id].launchToken
        amount0 == Swept(id)[1]
        amount1 == Swept(id)[2]
        tokensBurned == IF BurnsToken0(p) THEN amount0 ELSE amount1
        ethAmount == IF BurnsToken0(p) THEN amount1 ELSE amount0
        paidIn == PaidIn(p, amount0, amount1)
    IN  /\ reclaimBlocker(id) = "NoBlocker"
        /\ positions[id].holder = "lock"
        /\ tokensBurned <= paidIn[lock][p] /\ ethAmount <= paidIn[lock][weth]
        /\ locks' = [locks EXCEPT ![id].reclaimed = TRUE]
        /\ positions' = [positions EXCEPT ![id] =
              [@ EXCEPT !.holder = "burned", !.principal = <<0, 0>>, !.owed = <<0, 0>>]]
        /\ balance' = Pay(lock, Pay(lock, paidIn, DEAD, p, tokensBurned),
                          treasury, weth, ethAmount)
        /\ IF positions[id].principal # <<0, 0>> THEN Observe(p)
           ELSE UNCHANGED <<oracle, lastWrite>>
        /\ UNCHANGED <<now, creatorOf, inactivityPeriod, promised, donated>>

NotShorter(newPeriod) == newPeriod >= inactivityPeriod

setInactivityPeriod(caller, newPeriod) ==
    /\ caller = owner
    /\ NotShorter(newPeriod)
    /\ inactivityPeriod' = newPeriod
    /\ UNCHANGED <<now, creatorOf, locks, positions, oracle, balance, lastWrite,
                   promised, donated>>

----------------------------------------------------------------------------
Seeds == Worth \X Worth

LockExpiries == {now + d : d \in Durations} \cup {PERMANENT}

Next ==
    \/ Tick
    \/ \E p \in LaunchTokens, side \in 1..2, moves \in BOOLEAN : Swap(p, side, moves)
    \/ \E p \in LaunchTokens : IncreaseObservationCardinality(p)
    \/ \E p \in LaunchTokens : CreatePool(p)
    \/ \E id \in Ids, p \in LaunchTokens, s \in Seeds, r \in BOOLEAN :
          MintByStranger(id, p, s, r)
    \/ \E id \in Ids : SendToLock(id)
    \/ \E x \in Assets : Donate(x)
    \/ \E id \in Ids, p \in LaunchTokens, s \in Seeds, e \in LockExpiries,
          f \in CreatorShares : registerLock(id, p, s, e, f)
    \/ \E c \in Callers, id \in Ids, e \in (0..MaxTime) \cup {PERMANENT} : extend(c, id, e)
    \/ \E id \in Ids : collect(id)
    \/ \E id \in Ids : reclaim(id)
    \/ \E c \in Callers, n \in 0..(Width - 1) : setInactivityPeriod(c, n)

Spec == Init /\ [][Next]_vars
----------------------------------------------------------------------------
(* Properties. *)

Pair == Nat \X Nat

TypeOK ==
    /\ now \in Nat
    /\ creatorOf \in [LaunchTokens -> Creators]
    /\ locks \in [Ids -> [origin : Origins, launchToken : Assets, lockUntil : Nat,
                          creatorFeeBps : 0..MAX_CREATOR_FEE_BPS, reclaimed : BOOLEAN]]
    /\ inactivityPeriod \in 0..(Width - 1)
    /\ positions \in [Ids -> [holder : {"nobody", "stranger", "lock", "burned"},
                              pool : Assets, principal : Pair, owed : Pair]]
    /\ oracle \in [LaunchTokens ->
          [exists : BOOLEAN, index : 0..(MaxCardinality - 1),
           cardinality : 1..MaxCardinality, cardinalityNext : 1..MaxCardinality,
           ring : [0..(MaxCardinality - 1) ->
                      [ts : 0..(Width - 1), initialized : BOOLEAN]]]]
    /\ balance \in [Accounts -> [Assets -> Nat]]
    /\ lastWrite \in [LaunchTokens -> Nat]
    /\ promised \in [Ids -> [lockUntil : Nat, period : 0..(Width - 1)]]
    /\ donated \in [Assets -> Nat]

\* How long a pool has really been quiet.
Idle(p) == now - lastWrite[p]

\* The liquidity of a position the lock holds leaves it only when the terms
\* in force on the day it was locked are met: the expiry promised then has
\* passed, it was not promised for ever, and the pool has really been quiet
\* for the period promised then.  Whatever the owner retunes, whoever extends
\* and however the ring grew or the 32-bit clock wrapped since.
PrincipalStep ==
    \A id \in Ids :
        (positions[id].holder = "lock" /\ positions[id].principal # <<0, 0>>
         /\ positions'[id].principal # positions[id].principal) =>
            /\ locks[id].origin = "Launch"
            /\ promised[id].lockUntil # PERMANENT
            /\ now > promised[id].lockUntil
            /\ Idle(positions[id].pool) >= promised[id].period

PrincipalLeavesOnlyAsPromised == [][PrincipalStep]_vars

\* The pool's age read through the ring is never more than the true one, so a
\* wrap or a stale slot can only delay a reclaim; and it is the true age as
\* long as the pool has been quiet for less than one turn of the clock.
AgeFailsClosed ==
    \A p \in LaunchTokens : oracle[p].exists =>
        /\ secondsSincePoolActivity(p) <= Idle(p)
        /\ Idle(p) < Width => secondsSincePoolActivity(p) = Idle(p)

\* "NoBlocker means it would succeed": no later check or transfer of reclaim
\* can fail, and the position is still there to be drained.
NoBlockerMeansSuccess ==
    \A id \in Ids : reclaimBlocker(id) = "NoBlocker" => ENABLED reclaim(id)

\* The lock keeps nothing for itself and pays nothing out of what others sent
\* to it: collections and reclaims move exactly what the position paid.
LockKeepsNothing == \A x \in Assets : balance[lock][x] = donated[x]

\* A reclaim drains the position: all of the launch token in it, principal
\* and uncollected fees, is burned, all of the WETH goes to the treasury, and
\* the creator gets none, whichever of the two the pool lists first.
ReclaimStep ==
    \A id \in Ids : (locks'[id].reclaimed /\ ~locks[id].reclaimed) =>
        LET p == locks[id].launchToken
            held(x) == LET i == IF token0(p) = x THEN 1 ELSE 2
                       IN  positions[id].principal[i] + positions[id].owed[i]
        IN  /\ balance'[DEAD][p] = balance[DEAD][p] + held(p)
            /\ balance'[treasury][weth] = balance[treasury][weth] + held(weth)
            /\ \A c \in Creators : balance'[c] = balance[c]

ReclaimDrainsThePosition == [][ReclaimStep]_vars

\* Over any series of collections the creator never gets more than the share
\* frozen at lock time of what was paid in the launch's token.
CreatorShareBounded ==
    \A id \in Ids : locks[id].origin = "Launch" =>
        LET L == locks[id].launchToken
            c == balance[creatorOf[L]][L]
        IN  c * MAX_CREATOR_FEE_BPS
              <= locks[id].creatorFeeBps * (c + balance[treasury][L])

\* A lock's terms only move in the creator's favour, and a permanent lock is
\* terminal; a record once made never turns into another.
TermsStep ==
    \A id \in Ids : locks[id].origin # "None" =>
        /\ locks'[id].lockUntil >= locks[id].lockUntil
        /\ locks[id].lockUntil = PERMANENT => ~locks'[id].reclaimed
        /\ locks[id].reclaimed => UNCHANGED <<locks[id], positions[id]>>
        /\ locks'[id].creatorFeeBps = locks[id].creatorFeeBps
        /\ inactivityPeriod' >= inactivityPeriod

TermsOnlyImprove == [][TermsStep]_vars
============================================================================
