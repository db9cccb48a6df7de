---------------------------- MODULE LPLockProofs ----------------------------
(***************************************************************************)
(* What holds of LPLock for every set of launches, creators and positions, *)
(* every width of the clock and every bound.                               *)
(*                                                                         *)
(* Three facts carry the rest: the newest slot of a pool's ring dates its  *)
(* last write modulo the width of the clock (RingDatesLastWrite), a        *)
(* position under a launch's lock stays where the record says and its      *)
(* terms only grew since the day of the lock (LocksAreBacked), and a       *)
(* creator holds none of a token that has no lock (OnlyLocksPayCreators).  *)
(***************************************************************************)
EXTENDS LockCard, CurveMathProofs

----------------------------------------------------------------------------
(* The inductive invariant. *)

RingDatesLastWrite ==
    \A p \in LaunchTokens :
        /\ oracle[p].exists =>
              /\ lastWrite[p] <= now
              /\ oracle[p].ring[oracle[p].index].initialized
              /\ oracle[p].ring[oracle[p].index].ts = lastWrite[p] % Width
        /\ ~oracle[p].exists => oracle[p].index = 0

LocksAreBacked ==
    \A id \in Ids :
        /\ locks[id].origin \in {"None", "Launch"}
        /\ locks[id].origin = "None" =>
              locks[id].launchToken = weth /\ ~locks[id].reclaimed
        /\ locks[id].origin = "Launch" =>
              /\ locks[id].launchToken \in LaunchTokens
              /\ oracle[locks[id].launchToken].exists
              /\ positions[id].pool = locks[id].launchToken
              /\ positions[id].holder = IF locks[id].reclaimed THEN "burned" ELSE "lock"
              /\ promised[id].lockUntil <= locks[id].lockUntil
              /\ locks[id].lockUntil <= PERMANENT
              /\ promised[id].period <= inactivityPeriod

PositionsMakeSense ==
    \A id \in Ids :
        /\ positions[id].holder # "nobody" => positions[id].pool \in LaunchTokens
        /\ positions[id].holder = "burned" => positions[id].principal = <<0, 0>>

OneLockPerLaunch ==
    \A i, j \in Ids :
        (locks[i].origin = "Launch" /\ locks[j].origin = "Launch"
         /\ locks[i].launchToken = locks[j].launchToken) => i = j

OnlyLocksPayCreators ==
    \A p \in LaunchTokens :
        (\A id \in Ids : locks[id].launchToken # p) => balance[creatorOf[p]][p] = 0

WithinTime == now <= MaxTime

Terms == RingDatesLastWrite /\ LocksAreBacked /\ PositionsMakeSense /\ WithinTime
Books == OneLockPerLaunch /\ OnlyLocksPayCreators /\ LockKeepsNothing
         /\ CreatorShareBounded
LockInv == TypeOK /\ Terms /\ Books

----------------------------------------------------------------------------
(* The clock of 32 bits. *)

\* A number is its quotient and its remainder.
LEMMA ModParts ==
    ASSUME NEW n \in Nat, NEW W \in Nat, W > 0
    PROVE  /\ n \div W \in Nat /\ n % W \in 0..(W - 1)
           /\ n = (n \div W) * W + (n % W)
<1> DEFINE q == n \div W
           r == n % W
<1>1. q \in Nat /\ r \in 0..(W - 1)
  BY SMT
<1>2. r = n - W * q
  BY SMT
<1> HIDE DEF q, r
<1>3. W * q = q * W /\ W * q \in Nat
  BY <1>1, SMT
<1>4. n = q * W + r
  BY <1>1, <1>2, <1>3, SMT
<1> QED
  BY <1>1, <1>4 DEF q, r

\* The remainder is the only one.
LEMMA ModUnique ==
    ASSUME NEW q \in Nat, NEW s \in Nat, NEW W \in Nat, W > 0,
           NEW r \in 0..(W - 1), NEW t \in 0..(W - 1), q * W + r = s * W + t
    PROVE  r = t
<1>1. q * W \in Nat /\ s * W \in Nat /\ (q + 1) * W = q * W + W /\ (s + 1) * W = s * W + W
  BY SMT
<1>2. CASE q < s
  <2>1. (q + 1) * W <= s * W
    BY <1>2, MulMono
  <2> QED
    BY <1>1, <2>1, SMT
<1>3. CASE s < q
  <2>1. (s + 1) * W <= q * W
    BY <1>3, MulMono
  <2> QED
    BY <1>1, <2>1, SMT
<1>4. CASE q = s
  BY <1>1, <1>4, SMT
<1> QED
  BY <1>2, <1>3, <1>4

\* An age read through a stamp that has lost its high bits is never more than
\* the true age, and is the true age within one turn of the clock.
LEMMA WrappedAge ==
    ASSUME NEW n \in Nat, NEW w \in Nat, NEW W \in Nat, W > 0, w <= n
    PROVE  LET age == (n - (w % W)) % W
           IN  age \in 0..(W - 1) /\ age <= n - w /\ (n - w < W => age = n - w)
<1> DEFINE q == w \div W
           r == w % W
           d == n - w
           m == n - r
           k == m \div W
           a == m % W
           e == d \div W
           f == d % W
<1>1. q \in Nat /\ r \in 0..(W - 1) /\ w = q * W + r /\ q * W \in Nat
  BY ModParts, SMT
<1>2. d \in Nat /\ m \in Nat /\ m = d + q * W
  BY <1>1, SMT
<1>3. k \in Nat /\ a \in 0..(W - 1) /\ m = k * W + a
  <2> HIDE DEF m
  <2> QED
    BY <1>2, ModParts
<1>4. e \in Nat /\ f \in 0..(W - 1) /\ d = e * W + f /\ e * W \in Nat
  <2> HIDE DEF d
  <2> QED
    BY <1>2, ModParts, SMT
<1>5. (e + q) * W = e * W + q * W /\ e + q \in Nat
  BY <1>1, <1>4, SMT
<1>6. k * W + a = (e + q) * W + f
  BY <1>2, <1>3, <1>4, <1>5, SMT
<1>7. a = f
  <2> HIDE DEF a, f, k, e, q
  <2> QED
    BY <1>1, <1>3, <1>4, <1>5, <1>6, ModUnique
<1>8. d < W => f = d
  <2>1. SUFFICES ASSUME d < W PROVE f = d
    OBVIOUS
  <2>2. d \in 0..(W - 1) /\ 0 * W + d = e * W + f
    BY <1>2, <1>4, <2>1, SMT
  <2> HIDE DEF d, e, f
  <2> QED
    BY <1>4, <2>2, ModUnique
<1> HIDE DEF a, f
<1>9. a \in 0..(W - 1) /\ a <= d /\ (d < W => a = d)
  BY <1>3, <1>4, <1>7, <1>8, SMT
<1> QED
  BY <1>9 DEF a

----------------------------------------------------------------------------
(* The observation ring. *)

Observations == [ts : 0..(Width - 1), initialized : BOOLEAN]
Rings == [0..(MaxCardinality - 1) -> Observations]
Oracles == [exists : BOOLEAN, index : 0..(MaxCardinality - 1),
            cardinality : 1..MaxCardinality, cardinalityNext : 1..MaxCardinality,
            ring : Rings]

\* The newest slot of a ring.
Newest(o) == o.ring[o.index]

\* An age read through a dated ring is never more than the true one.
LEMMA AgeIsSafe ==
    TypeOK /\ RingDatesLastWrite => AgeFailsClosed
<1> SUFFICES ASSUME TypeOK, RingDatesLastWrite, NEW p \in LaunchTokens, oracle[p].exists
             PROVE  /\ secondsSincePoolActivity(p) <= Idle(p)
                    /\ Idle(p) < Width => secondsSincePoolActivity(p) = Idle(p)
  BY DEF AgeFailsClosed
<1>1. /\ lastWrite[p] <= now
      /\ oracle[p].ring[oracle[p].index].initialized
      /\ oracle[p].ring[oracle[p].index].ts = lastWrite[p] % Width
  BY DEF RingDatesLastWrite
<1>2. now \in Nat /\ lastWrite[p] \in Nat
  BY DEF TypeOK
<1>3. Width \in Nat /\ Width > 0
  BY LockConstants
<1>4. secondsSincePoolActivity(p) = (now - (lastWrite[p] % Width)) % Width
  BY <1>1 DEF secondsSincePoolActivity
<1>5. LET age == (now - (lastWrite[p] % Width)) % Width
      IN  age <= now - lastWrite[p] /\ (now - lastWrite[p] < Width => age = now - lastWrite[p])
  BY <1>1, <1>2, <1>3, WrappedAge
<1> QED
  BY <1>4, <1>5 DEF Idle

\* The pool's write dates the newest slot and keeps the ring well formed.
LEMMA WrittenIsDated ==
    ASSUME NEW o \in Oracles, Newest(o).initialized, now \in Nat
    PROVE  /\ Written(o) \in Oracles
           /\ Written(o).exists = o.exists
           /\ Newest(Written(o)).initialized
           /\ Newest(Written(o)).ts = now % Width
<1> DEFINE stamp == now % Width
           size == IF o.cardinalityNext > o.cardinality /\ o.index = o.cardinality - 1
                   THEN o.cardinalityNext ELSE o.cardinality
           i == (o.index + 1) % size
           entry == [ts |-> stamp, initialized |-> TRUE]
           new == [o EXCEPT !.cardinality = size, !.index = i, !.ring[i] = entry]
<1>1. stamp \in 0..(Width - 1)
  BY LockConstants, ModParts
<1>2. /\ o.index \in 0..(MaxCardinality - 1) /\ o.ring \in Rings /\ MaxCardinality \in Nat
      /\ size \in 1..MaxCardinality
  BY LockConstants DEF Oracles
<1>3. i \in 0..(MaxCardinality - 1)
  <2> HIDE DEF size
  <2>1. o.index + 1 \in Nat /\ size \in Nat /\ size > 0
    BY <1>2
  <2>2. i \in 0..(size - 1)
    BY <2>1, ModParts
  <2> HIDE DEF i
  <2> QED
    BY <1>2, <2>2
<1>4. entry \in Observations
  <2> HIDE DEF stamp
  <2> QED
    BY <1>1 DEF Observations
<1>5. CASE o.ring[o.index].ts = stamp
  <2>1. Written(o) = o
    BY <1>5 DEF Written
  <2> QED
    BY <1>5, <2>1 DEF Newest
<1>6. CASE o.ring[o.index].ts # stamp
  <2>1. Written(o) = new
    BY <1>6 DEF Written
  <2> DEFINE ringed == [o.ring EXCEPT ![i] = entry]
  <2>2. new = [o EXCEPT !.cardinality = size, !.index = i, !.ring = ringed]
    OBVIOUS
  <2> HIDE DEF stamp, size, i, new
  <2>3. ringed \in Rings /\ ringed[i] = entry
    BY <1>2, <1>3, <1>4 DEF Rings
  <2> HIDE DEF ringed, entry
  <2>4. new \in Oracles
    BY <1>2, <1>3, <2>2, <2>3 DEF Oracles
  <2>5. new.exists = o.exists /\ new.index = i /\ new.ring = ringed
    BY <2>2 DEF Oracles
  <2>6. Newest(new) = entry
    BY <2>3, <2>5 DEF Newest
  <2> QED
    BY <2>1, <2>4, <2>5, <2>6 DEF entry, stamp
<1> QED
  BY <1>5, <1>6

\* A pool's creation dates its first slot.
LEMMA CreatedIsDated ==
    ASSUME NEW o \in Oracles, o.index = 0, now \in Nat
    PROVE  /\ Created(o) \in Oracles
           /\ Created(o).exists
           /\ Newest(Created(o)).initialized
           /\ Newest(Created(o)).ts = now % Width
<1> DEFINE entry == [ts |-> now % Width, initialized |-> TRUE]
           ringed == [o.ring EXCEPT ![0] = entry]
           new == [o EXCEPT !.exists = TRUE, !.ring = ringed]
<1>1. now % Width \in 0..(Width - 1)
  BY LockConstants, ModParts
<1>2. entry \in Observations
  BY <1>1 DEF Observations
<1>3. Created(o) = new
  BY DEF Created
<1> HIDE DEF entry
<1>4. 0 \in 0..(MaxCardinality - 1)
  BY LockConstants
<1>5. o.ring \in Rings
  BY DEF Oracles
<1>6. ringed \in Rings /\ ringed[0] = entry
  BY <1>2, <1>4, <1>5 DEF Rings
<1> HIDE DEF ringed
<1>7. new \in Oracles /\ new.exists /\ new.index = 0 /\ new.ring = ringed
  BY <1>6 DEF Oracles
<1> HIDE DEF new
<1>8. Newest(new) = entry
  BY <1>6, <1>7 DEF Newest
<1> QED
  BY <1>3, <1>7, <1>8 DEF entry

\* The parts of the type that concern the pools.
LEMMA OracleTypes ==
    TypeOK => /\ now \in Nat /\ oracle \in [LaunchTokens -> Oracles]
              /\ lastWrite \in [LaunchTokens -> Nat]
  BY DEF TypeOK, Oracles, Rings, Observations

\* The period is a number.
LEMMA PeriodType ==
    TypeOK => inactivityPeriod \in Nat
  BY LockConstants DEF TypeOK

\* One pool's oracle is replaced by one dated now.
LEMMA DatedPool ==
    ASSUME TypeOK, RingDatesLastWrite, now' = now, NEW p \in LaunchTokens,
           NEW o \in Oracles, o.exists, Newest(o).initialized, Newest(o).ts = now % Width,
           oracle' = [oracle EXCEPT ![p] = o], lastWrite' = [lastWrite EXCEPT ![p] = now]
    PROVE  /\ oracle' \in [LaunchTokens -> Oracles]
           /\ lastWrite' \in [LaunchTokens -> Nat]
           /\ RingDatesLastWrite'
           /\ \A q \in LaunchTokens : oracle[q].exists => oracle'[q].exists
           /\ oracle'[p].exists
<1>1. now \in Nat /\ oracle \in [LaunchTokens -> Oracles] /\ lastWrite \in [LaunchTokens -> Nat]
  BY OracleTypes
<1>2. oracle' \in [LaunchTokens -> Oracles] /\ lastWrite' \in [LaunchTokens -> Nat]
  BY <1>1
<1>3. oracle'[p] = o /\ lastWrite'[p] = now
  BY <1>1
<1>4. \A q \in LaunchTokens : q # p => oracle'[q] = oracle[q] /\ lastWrite'[q] = lastWrite[q]
  BY <1>1
<1>5. ASSUME NEW q \in LaunchTokens
      PROVE  /\ oracle'[q].exists =>
                   /\ lastWrite'[q] <= now'
                   /\ oracle'[q].ring[oracle'[q].index].initialized
                   /\ oracle'[q].ring[oracle'[q].index].ts = lastWrite'[q] % Width
             /\ ~oracle'[q].exists => oracle'[q].index = 0
  <2>1. CASE q = p
    BY <1>1, <1>3, <2>1 DEF Newest
  <2>2. CASE q # p
    BY <1>4, <2>2 DEF RingDatesLastWrite
  <2> QED
    BY <2>1, <2>2
<1>6. RingDatesLastWrite'
  BY <1>5 DEF RingDatesLastWrite
<1> QED
  BY <1>2, <1>3, <1>4, <1>6

\* Writing an observation to a pool that exists.
LEMMA ObserveDates ==
    ASSUME TypeOK, RingDatesLastWrite, now' = now, NEW p \in LaunchTokens,
           oracle[p].exists, Observe(p)
    PROVE  /\ oracle' \in [LaunchTokens -> Oracles]
           /\ lastWrite' \in [LaunchTokens -> Nat]
           /\ RingDatesLastWrite'
           /\ \A q \in LaunchTokens : oracle[q].exists => oracle'[q].exists
<1>1. now \in Nat /\ oracle[p] \in Oracles
  BY OracleTypes
<1>2. Newest(oracle[p]).initialized
  BY DEF RingDatesLastWrite, Newest
<1>3. oracle' = [oracle EXCEPT ![p] = Written(oracle[p])]
      /\ lastWrite' = [lastWrite EXCEPT ![p] = now]
  BY DEF Observe
<1> DEFINE o == Written(oracle[p])
<1>4. o \in Oracles /\ o.exists /\ Newest(o).initialized /\ Newest(o).ts = now % Width
  BY <1>1, <1>2, WrittenIsDated
<1>5. oracle' = [oracle EXCEPT ![p] = o]
  BY <1>3
<1> HIDE DEF o
<1> QED
  BY <1>3, <1>4, <1>5, DatedPool

\* The pools untouched while the clock does not go back.
LEMMA QuietPools ==
    ASSUME TypeOK, RingDatesLastWrite, now' \in Nat, now <= now',
           UNCHANGED <<oracle, lastWrite>>
    PROVE  /\ oracle' \in [LaunchTokens -> Oracles]
           /\ lastWrite' \in [LaunchTokens -> Nat]
           /\ RingDatesLastWrite'
           /\ \A q \in LaunchTokens : oracle[q].exists => oracle'[q].exists
<1>1. now \in Nat /\ oracle \in [LaunchTokens -> Oracles] /\ lastWrite \in [LaunchTokens -> Nat]
  BY OracleTypes
<1>2. \A q \in LaunchTokens : lastWrite[q] <= now => lastWrite[q] <= now'
  BY <1>1
<1> QED
  BY <1>1, <1>2 DEF RingDatesLastWrite

\* A lock stays backed while its record, its position's place and what was
\* promised stay, and the period only grows.
LEMMA LocksStayBacked ==
    ASSUME TypeOK, LocksAreBacked, UNCHANGED <<locks, promised>>,
           inactivityPeriod' \in Nat, inactivityPeriod <= inactivityPeriod',
           \A q \in LaunchTokens : oracle[q].exists => oracle'[q].exists,
           \A id \in Ids : positions[id].holder \in {"lock", "burned"} =>
               positions'[id].pool = positions[id].pool
               /\ positions'[id].holder = positions[id].holder
    PROVE  LocksAreBacked'
<1> SUFFICES ASSUME NEW id \in Ids
             PROVE  /\ locks[id].origin \in {"None", "Launch"}
                    /\ locks[id].origin = "None" =>
                          locks[id].launchToken = weth /\ ~locks[id].reclaimed
                    /\ locks[id].origin = "Launch" =>
                          /\ locks[id].launchToken \in LaunchTokens
                          /\ oracle'[locks[id].launchToken].exists
                          /\ positions'[id].pool = locks[id].launchToken
                          /\ positions'[id].holder =
                                IF locks[id].reclaimed THEN "burned" ELSE "lock"
                          /\ promised[id].lockUntil <= locks[id].lockUntil
                          /\ locks[id].lockUntil <= PERMANENT
                          /\ promised[id].period <= inactivityPeriod'
  BY DEF LocksAreBacked, PERMANENT
<1>1. inactivityPeriod \in Nat /\ promised[id].period \in Nat
  BY LockConstants DEF TypeOK
<1>2. promised[id].period <= inactivityPeriod => promised[id].period <= inactivityPeriod'
  BY <1>1
<1> QED
  BY <1>2 DEF LocksAreBacked

----------------------------------------------------------------------------
(* The actions that move no balance. *)

\* Books are read from the locks, the creators and the balances only.
LEMMA BooksStay ==
    Books /\ UNCHANGED <<locks, creatorOf, balance, donated>> => Books'
  BY DEF Books, OneLockPerLaunch, OnlyLocksPayCreators, LockKeepsNothing,
         CreatorShareBounded

\* A fee changes what a position is owed, and nothing else of it; a burned
\* position earns none.
LEMMA FeesOnlyOwe ==
    ASSUME TypeOK, PositionsMakeSense, NEW p \in LaunchTokens, NEW side \in 1..2
    PROVE  /\ WithFee(p, side) \in [Ids -> [holder : {"nobody", "stranger", "lock", "burned"},
                                            pool : Assets, principal : Pair, owed : Pair]]
           /\ \A id \in Ids :
                 /\ WithFee(p, side)[id].holder = positions[id].holder
                 /\ WithFee(p, side)[id].pool = positions[id].pool
                 /\ WithFee(p, side)[id].principal = positions[id].principal
                 /\ positions[id].holder = "burned" =>
                       WithFee(p, side)[id] = positions[id]
<1> DEFINE Position == [holder : {"nobody", "stranger", "lock", "burned"},
                        pool : Assets, principal : Pair, owed : Pair]
<1>1. ASSUME NEW id \in Ids
      PROVE  /\ WithFee(p, side)[id] \in Position
             /\ WithFee(p, side)[id].holder = positions[id].holder
             /\ WithFee(p, side)[id].pool = positions[id].pool
             /\ WithFee(p, side)[id].principal = positions[id].principal
             /\ positions[id].holder = "burned" => WithFee(p, side)[id] = positions[id]
  <2>1. positions[id] \in Position
    BY DEF TypeOK
  <2> DEFINE owed == positions[id].owed
             more == [owed EXCEPT ![side] = owed[side] + 1]
             paid == [positions[id] EXCEPT !.owed = more]
  <2>2. owed \in Pair
    BY <2>1
  <2>3. more \in Pair
    <3> HIDE DEF owed
    <3>1. owed = <<owed[1], owed[2]>> /\ owed[1] \in Nat /\ owed[2] \in Nat
      BY <2>2 DEF Pair
    <3>2. CASE side = 1
      <4>1. more = <<owed[1] + 1, owed[2]>>
        BY <3>1, <3>2
      <4> QED
        BY <3>1, <4>1 DEF Pair
    <3>3. CASE side = 2
      <4>1. more = <<owed[1], owed[2] + 1>>
        BY <3>1, <3>3
      <4> QED
        BY <3>1, <4>1 DEF Pair
    <3> QED
      BY <3>2, <3>3
  <2>4. WithFee(p, side)[id] = IF Earns(id, p, side) THEN paid ELSE positions[id]
    BY DEF WithFee
  <2>5. positions[id].holder = "burned" => ~Earns(id, p, side)
    BY DEF PositionsMakeSense, Earns
  <2> HIDE DEF more
  <2>6. paid \in Position /\ paid.holder = positions[id].holder
        /\ paid.pool = positions[id].pool /\ paid.principal = positions[id].principal
    BY <2>1, <2>3
  <2> HIDE DEF paid
  <2> QED
    BY <2>1, <2>4, <2>5, <2>6
<1>2. WithFee(p, side) = [id \in Ids |-> WithFee(p, side)[id]]
  BY DEF WithFee
<1> QED
  BY <1>1, <1>2

\* A swap earns fees and may write an observation.
LEMMA SwapKeeps ==
    ASSUME LockInv, NEW p \in LaunchTokens, NEW side \in 1..2, NEW moves \in BOOLEAN,
           Swap(p, side, moves)
    PROVE  LockInv'
<1> USE DEF LockInv, Terms
<1>1. /\ positions' = WithFee(p, side) /\ oracle[p].exists
      /\ UNCHANGED <<now, creatorOf, locks, inactivityPeriod, balance, promised, donated>>
      /\ now \in Nat /\ inactivityPeriod \in Nat
  BY LockConstants DEF Swap, TypeOK
<1>2. /\ oracle' \in [LaunchTokens -> Oracles] /\ lastWrite' \in [LaunchTokens -> Nat]
      /\ RingDatesLastWrite'
      /\ \A q \in LaunchTokens : oracle[q].exists => oracle'[q].exists
  <2>1. CASE moves
    BY <1>1, <2>1, ObserveDates DEF Swap
  <2>2. CASE ~moves
    BY <1>1, <2>2, QuietPools DEF Swap
  <2> QED
    BY <2>1, <2>2
<1>3. TypeOK'
  BY <1>1, <1>2, FeesOnlyOwe DEF TypeOK, Oracles, Rings, Observations
<1>4. LocksAreBacked'
  BY <1>1, <1>2, FeesOnlyOwe, LocksStayBacked
<1>5. PositionsMakeSense'
  BY <1>1, FeesOnlyOwe DEF PositionsMakeSense
<1>6. WithinTime'
  BY <1>1 DEF WithinTime
<1>7. Books'
  BY <1>1, BooksStay
<1> QED
  BY <1>2, <1>3, <1>4, <1>5, <1>6, <1>7

\* Time passing keeps what is dated in the past.
LEMMA TickKeeps ==
    ASSUME LockInv, Tick
    PROVE  LockInv'
<1> USE DEF LockInv, Terms
<1>1. /\ now' = now + 1 /\ now < MaxTime /\ now \in Nat /\ MaxTime \in Nat
      /\ UNCHANGED <<creatorOf, locks, inactivityPeriod, positions, oracle, balance,
                     lastWrite, promised, donated>>
      /\ inactivityPeriod \in Nat
  BY LockConstants DEF Tick, TypeOK
<1>2. now' \in Nat /\ now <= now'
  BY <1>1
<1>3. RingDatesLastWrite'
  BY <1>1, <1>2, QuietPools
<1>4. LocksAreBacked'
  BY <1>1, LocksStayBacked
<1>5. TypeOK' /\ PositionsMakeSense' /\ WithinTime'
  BY <1>1, <1>2 DEF TypeOK, PositionsMakeSense, WithinTime
<1> QED
  BY <1>1, <1>3, <1>4, <1>5, BooksStay

\* A ring made longer keeps its newest slot.
LEMMA IncreaseObservationCardinalityKeeps ==
    ASSUME LockInv, NEW p \in LaunchTokens, IncreaseObservationCardinality(p)
    PROVE  LockInv'
<1> USE DEF LockInv, Terms
<1> DEFINE o == [oracle[p] EXCEPT !.cardinalityNext = oracle[p].cardinalityNext + 1]
<1>1. /\ oracle' = [oracle EXCEPT ![p] = o] /\ oracle[p].cardinalityNext < MaxCardinality
      /\ UNCHANGED <<now, creatorOf, locks, inactivityPeriod, positions, balance,
                     lastWrite, promised, donated>>
  BY DEF IncreaseObservationCardinality
<1>2. oracle \in [LaunchTokens -> Oracles] /\ inactivityPeriod \in Nat
  BY OracleTypes, PeriodType
<1>3. oracle[p].cardinalityNext + 1 \in 1..MaxCardinality
  BY <1>1, <1>2, LockConstants DEF Oracles
<1>4. o \in Oracles /\ o.exists = oracle[p].exists /\ o.index = oracle[p].index
      /\ o.ring = oracle[p].ring
  BY <1>2, <1>3 DEF Oracles
<1> HIDE DEF o
<1>5. oracle' \in [LaunchTokens -> Oracles]
  BY <1>1, <1>2, <1>4
<1>6. \A q \in LaunchTokens : oracle'[q].exists = oracle[q].exists
         /\ oracle'[q].index = oracle[q].index /\ oracle'[q].ring = oracle[q].ring
  BY <1>1, <1>2, <1>4
<1>7. RingDatesLastWrite'
  BY <1>1, <1>6 DEF RingDatesLastWrite
<1>8. LocksAreBacked'
  BY <1>1, <1>2, <1>6, LocksStayBacked
<1>9. TypeOK' /\ PositionsMakeSense' /\ WithinTime'
  BY <1>1, <1>5 DEF TypeOK, PositionsMakeSense, WithinTime, Oracles, Rings, Observations
<1> QED
  BY <1>1, <1>7, <1>8, <1>9, BooksStay

\* A pool's creation dates it.
LEMMA CreatePoolKeeps ==
    ASSUME LockInv, NEW p \in LaunchTokens, CreatePool(p)
    PROVE  LockInv'
<1> USE DEF LockInv, Terms
<1> DEFINE o == Created(oracle[p])
<1>1. /\ oracle' = [oracle EXCEPT ![p] = o] /\ ~oracle[p].exists
      /\ lastWrite' = [lastWrite EXCEPT ![p] = now]
      /\ UNCHANGED <<now, creatorOf, locks, inactivityPeriod, positions, balance,
                     promised, donated>>
  BY DEF CreatePool
<1>2. now \in Nat /\ oracle[p] \in Oracles /\ inactivityPeriod \in Nat
  BY OracleTypes, PeriodType
<1>3. oracle[p].index = 0
  BY <1>1 DEF RingDatesLastWrite
<1>4. o \in Oracles /\ o.exists /\ Newest(o).initialized /\ Newest(o).ts = now % Width
  BY <1>2, <1>3, CreatedIsDated
<1> HIDE DEF o
<1>5. /\ oracle' \in [LaunchTokens -> Oracles] /\ lastWrite' \in [LaunchTokens -> Nat]
      /\ RingDatesLastWrite'
      /\ \A q \in LaunchTokens : oracle[q].exists => oracle'[q].exists
  BY <1>1, <1>4, DatedPool
<1>6. LocksAreBacked'
  BY <1>1, <1>2, <1>5, LocksStayBacked
<1>7. TypeOK' /\ PositionsMakeSense' /\ WithinTime'
  BY <1>1, <1>5 DEF TypeOK, PositionsMakeSense, WithinTime, Oracles, Rings, Observations
<1> QED
  BY <1>1, <1>5, <1>6, <1>7, BooksStay

\* Strangers mint positions nobody holds yet.
LEMMA MintByStrangerKeeps ==
    ASSUME LockInv, NEW id \in Ids, NEW p \in LaunchTokens, NEW amounts \in Seeds,
           NEW inRange \in BOOLEAN, MintByStranger(id, p, amounts, inRange)
    PROVE  LockInv'
<1> USE DEF LockInv, Terms
<1> DEFINE new == [holder |-> "stranger", pool |-> p, principal |-> amounts, owed |-> <<0, 0>>]
<1>1. /\ positions' = [positions EXCEPT ![id] = new] /\ oracle[p].exists
      /\ positions[id].holder = "nobody"
      /\ UNCHANGED <<now, creatorOf, locks, inactivityPeriod, balance, promised, donated>>
      /\ now \in Nat /\ inactivityPeriod \in Nat
  BY LockConstants DEF MintByStranger, TypeOK
<1>2. new \in [holder : {"nobody", "stranger", "lock", "burned"},
               pool : Assets, principal : Pair, owed : Pair]
  <2>1. amounts \in Pair /\ <<0, 0>> \in Pair /\ p \in Assets
    BY LockConstants DEF Seeds, Pair, Assets
  <2> QED
    BY <2>1
<1>3. new.holder = "stranger" /\ new.pool = p
  OBVIOUS
<1> HIDE DEF new
<1>4. /\ oracle' \in [LaunchTokens -> Oracles] /\ lastWrite' \in [LaunchTokens -> Nat]
      /\ RingDatesLastWrite'
      /\ \A q \in LaunchTokens : oracle[q].exists => oracle'[q].exists
  <2>1. CASE inRange
    BY <1>1, <2>1, ObserveDates DEF MintByStranger
  <2>2. CASE ~inRange
    BY <1>1, <2>2, QuietPools DEF MintByStranger
  <2> QED
    BY <2>1, <2>2
<1>5. positions'[id] = new /\ \A i \in Ids : i # id => positions'[i] = positions[i]
  BY <1>1 DEF TypeOK
<1>6. TypeOK'
  BY <1>1, <1>2, <1>4 DEF TypeOK, Oracles, Rings, Observations
<1>7. LocksAreBacked'
  BY <1>1, <1>4, <1>5, LocksStayBacked
<1>8. PositionsMakeSense' /\ WithinTime'
  BY <1>1, <1>3, <1>5 DEF PositionsMakeSense, WithinTime
<1> QED
  BY <1>1, <1>4, <1>6, <1>7, <1>8, BooksStay

\* A position sent to the lock gets no record.
LEMMA SendToLockKeeps ==
    ASSUME LockInv, NEW id \in Ids, SendToLock(id)
    PROVE  LockInv'
<1> USE DEF LockInv, Terms
<1> DEFINE new == [positions[id] EXCEPT !.holder = "lock"]
<1>1. /\ positions' = [positions EXCEPT ![id] = new] /\ positions[id].holder = "stranger"
      /\ UNCHANGED <<now, creatorOf, locks, inactivityPeriod, oracle, balance,
                     lastWrite, promised, donated>>
      /\ now \in Nat /\ inactivityPeriod \in Nat
  BY LockConstants DEF SendToLock, TypeOK
<1>2. /\ new \in [holder : {"nobody", "stranger", "lock", "burned"},
                  pool : Assets, principal : Pair, owed : Pair]
      /\ new.holder = "lock" /\ new.pool = positions[id].pool
  <2> DEFINE old == positions[id]
  <2>1. old \in [holder : {"nobody", "stranger", "lock", "burned"},
                 pool : Assets, principal : Pair, owed : Pair]
    BY DEF TypeOK
  <2>2. new = [old EXCEPT !.holder = "lock"]
    OBVIOUS
  <2> HIDE DEF old, new
  <2>3. /\ new \in [holder : {"nobody", "stranger", "lock", "burned"},
                    pool : Assets, principal : Pair, owed : Pair]
        /\ new.holder = "lock" /\ new.pool = old.pool
    BY <2>1, <2>2
  <2> QED BY <2>3 DEF old
<1> HIDE DEF new
<1>3. positions'[id] = new /\ \A i \in Ids : i # id => positions'[i] = positions[i]
  BY <1>1 DEF TypeOK
<1>4. TypeOK'
  BY <1>1, <1>2 DEF TypeOK
<1>5. RingDatesLastWrite' /\ LocksAreBacked'
  BY <1>1, <1>3, QuietPools, LocksStayBacked
<1>6. PositionsMakeSense' /\ WithinTime'
  BY <1>1, <1>2, <1>3 DEF PositionsMakeSense, WithinTime
<1> QED
  BY <1>1, <1>4, <1>5, <1>6, BooksStay

\* The period only grows, so what was promised stays kept.
LEMMA SetInactivityPeriodKeeps ==
    ASSUME LockInv, NEW c \in Callers, NEW n \in 0..(Width - 1), setInactivityPeriod(c, n)
    PROVE  LockInv'
<1> USE DEF LockInv, Terms
<1>1. /\ inactivityPeriod' = n /\ inactivityPeriod <= n /\ n \in Nat
      /\ UNCHANGED <<now, creatorOf, locks, positions, oracle, balance, lastWrite,
                     promised, donated>>
      /\ now \in Nat /\ inactivityPeriod \in Nat
  BY LockConstants DEF setInactivityPeriod, NotShorter, TypeOK
<1>2. TypeOK' /\ PositionsMakeSense' /\ WithinTime'
  BY <1>1 DEF TypeOK, PositionsMakeSense, WithinTime
<1>3. RingDatesLastWrite' /\ LocksAreBacked'
  BY <1>1, QuietPools, LocksStayBacked
<1> QED
  BY <1>1, <1>2, <1>3, BooksStay

----------------------------------------------------------------------------
(* A lock is made, lengthened. *)

LockRecords == [origin : Origins, launchToken : Assets, lockUntil : Nat,
                creatorFeeBps : 0..MAX_CREATOR_FEE_BPS, reclaimed : BOOLEAN]

\* The parts of the type that concern the locks.
LEMMA LockTypes ==
    TypeOK => /\ locks \in [Ids -> LockRecords]
              /\ promised \in [Ids -> [lockUntil : Nat, period : 0..(Width - 1)]]
              /\ creatorOf \in [LaunchTokens -> Creators]
              /\ donated \in [Assets -> Nat]
  BY DEF TypeOK, LockRecords

\* A lock that is lengthened outlasts what was promised.
LEMMA ExtendKeeps ==
    ASSUME LockInv, NEW c \in Callers, NEW id \in Ids,
           NEW e \in (0..MaxTime) \cup {PERMANENT}, extend(c, id, e)
    PROVE  LockInv'
<1> USE DEF LockInv, Terms
<1> DEFINE new == [locks[id] EXCEPT !.lockUntil = e]
<1>1. /\ locks' = [locks EXCEPT ![id] = new] /\ locks[id].lockUntil < e
      /\ UNCHANGED <<now, creatorOf, inactivityPeriod, positions, oracle, balance,
                     lastWrite, promised, donated>>
  BY DEF extend, Lengthens
<1>2. locks \in [Ids -> LockRecords] /\ promised[id].lockUntil \in Nat
  BY LockTypes
<1>3. e \in Nat /\ e <= PERMANENT
  BY LockConstants DEF PERMANENT
<1>4. /\ new \in LockRecords /\ new.origin = locks[id].origin
      /\ new.launchToken = locks[id].launchToken /\ new.lockUntil = e
      /\ new.creatorFeeBps = locks[id].creatorFeeBps /\ new.reclaimed = locks[id].reclaimed
  BY <1>2, <1>3 DEF LockRecords
<1> HIDE DEF new
<1>5. locks'[id] = new /\ \A i \in Ids : i # id => locks'[i] = locks[i]
  BY <1>1, <1>2
<1>6. locks' \in [Ids -> LockRecords]
  BY <1>1, <1>2, <1>4
<1>7. TypeOK'
  BY <1>1, <1>6 DEF TypeOK, LockRecords
<1>8. now \in Nat
  BY OracleTypes
<1>9. RingDatesLastWrite' /\ PositionsMakeSense' /\ WithinTime'
  BY <1>1, <1>8, QuietPools DEF PositionsMakeSense, WithinTime
<1>10. LocksAreBacked'
  <2>1. promised[id].lockUntil <= locks[id].lockUntil => promised[id].lockUntil <= e
    BY <1>1, <1>2, <1>3 DEF LockRecords
  <2> QED
    BY <1>1, <1>3, <1>4, <1>5, <2>1 DEF LocksAreBacked, PERMANENT
<1>11. \A i \in Ids : /\ locks'[i].origin = locks[i].origin
                      /\ locks'[i].launchToken = locks[i].launchToken
                      /\ locks'[i].creatorFeeBps = locks[i].creatorFeeBps
  BY <1>4, <1>5
<1>12. Books'
  <2>1. OneLockPerLaunch'
    BY <1>11 DEF Books, OneLockPerLaunch
  <2>2. OnlyLocksPayCreators' /\ LockKeepsNothing'
    BY <1>1, <1>11 DEF Books, OnlyLocksPayCreators, LockKeepsNothing
  <2>3. CreatorShareBounded'
    BY <1>1, <1>11 DEF Books, CreatorShareBounded
  <2> QED
    BY <2>1, <2>2, <2>3 DEF Books
<1> QED
  BY <1>7, <1>9, <1>10, <1>12

\* A new lock is the launch's first, over a pool dated now, and its creator has
\* been paid nothing in its token yet.
LEMMA RegisterLockKeeps ==
    ASSUME LockInv, NEW id \in Ids, NEW p \in LaunchTokens, NEW amounts \in Seeds,
           NEW e \in LockExpiries, NEW f \in CreatorShares,
           registerLock(id, p, amounts, e, f)
    PROVE  LockInv'
<1> USE DEF LockInv, Terms
<1> DEFINE pos == [holder |-> "lock", pool |-> p, principal |-> amounts, owed |-> <<0, 0>>]
           new == [origin |-> "Launch", launchToken |-> p, lockUntil |-> e,
                   creatorFeeBps |-> f, reclaimed |-> FALSE]
           word == [lockUntil |-> e, period |-> inactivityPeriod]
           o == IF oracle[p].exists THEN Written(oracle[p]) ELSE Created(oracle[p])
<1>1. /\ \A i \in Ids : locks[i].launchToken # p
      /\ locks[id].origin = "None" /\ positions[id].holder = "nobody"
      /\ oracle' = [oracle EXCEPT ![p] = o]
      /\ lastWrite' = [lastWrite EXCEPT ![p] = now]
      /\ positions' = [positions EXCEPT ![id] = pos]
      /\ locks' = [locks EXCEPT ![id] = new]
      /\ promised' = [promised EXCEPT ![id] = word]
      /\ UNCHANGED <<now, creatorOf, inactivityPeriod, balance, donated>>
  BY DEF registerLock
<1>2. now \in Nat /\ oracle[p] \in Oracles /\ inactivityPeriod \in Nat
  BY OracleTypes, PeriodType
<1>3. locks \in [Ids -> LockRecords]
      /\ promised \in [Ids -> [lockUntil : Nat, period : 0..(Width - 1)]]
  BY LockTypes
<1>4. e \in Nat /\ e <= PERMANENT
  BY <1>2, LockConstants DEF PERMANENT, LockExpiries, WithinTime
<1>5. f \in 0..MAX_CREATOR_FEE_BPS
  BY LockConstants
<1>6. o \in Oracles /\ o.exists /\ Newest(o).initialized /\ Newest(o).ts = now % Width
  <2>1. CASE oracle[p].exists
    <3>1. Newest(oracle[p]).initialized
      BY <2>1 DEF RingDatesLastWrite, Newest
    <3> QED
      BY <1>2, <2>1, <3>1, WrittenIsDated
  <2>2. CASE ~oracle[p].exists
    <3>1. oracle[p].index = 0
      BY <2>2 DEF RingDatesLastWrite
    <3> QED
      BY <1>2, <2>2, <3>1, CreatedIsDated
  <2> QED
    BY <2>1, <2>2
<1> HIDE DEF o
<1>7. /\ oracle' \in [LaunchTokens -> Oracles] /\ lastWrite' \in [LaunchTokens -> Nat]
      /\ RingDatesLastWrite'
      /\ \A q \in LaunchTokens : oracle[q].exists => oracle'[q].exists
      /\ oracle'[p].exists
  BY <1>1, <1>6, DatedPool
<1>8. /\ pos \in [holder : {"nobody", "stranger", "lock", "burned"},
                  pool : Assets, principal : Pair, owed : Pair]
      /\ pos.holder = "lock" /\ pos.pool = p
  <2>1. amounts \in Pair /\ <<0, 0>> \in Pair /\ p \in Assets
    BY LockConstants DEF Seeds, Pair, Assets
  <2> QED
    BY <2>1
<1>9. /\ new \in LockRecords /\ new.origin = "Launch" /\ new.launchToken = p
      /\ new.lockUntil = e /\ new.creatorFeeBps = f /\ new.reclaimed = FALSE
  BY <1>4, <1>5 DEF LockRecords, Origins, Assets
<1>10. /\ word \in [lockUntil : Nat, period : 0..(Width - 1)]
       /\ word.lockUntil = e /\ word.period = inactivityPeriod
  BY <1>4 DEF TypeOK
<1> HIDE DEF pos, new, word
<1>11. positions \in [Ids -> [holder : {"nobody", "stranger", "lock", "burned"},
                              pool : Assets, principal : Pair, owed : Pair]]
  BY DEF TypeOK
<1>12. /\ positions'[id] = pos /\ \A i \in Ids : i # id => positions'[i] = positions[i]
       /\ locks'[id] = new /\ \A i \in Ids : i # id => locks'[i] = locks[i]
       /\ promised'[id] = word /\ \A i \in Ids : i # id => promised'[i] = promised[i]
  BY <1>1, <1>3, <1>11
<1>13. TypeOK'
  <2>1. positions' \in [Ids -> [holder : {"nobody", "stranger", "lock", "burned"},
                                pool : Assets, principal : Pair, owed : Pair]]
    BY <1>1, <1>8, <1>11
  <2>2. locks' \in [Ids -> LockRecords]
        /\ promised' \in [Ids -> [lockUntil : Nat, period : 0..(Width - 1)]]
    BY <1>1, <1>3, <1>9, <1>10
  <2> QED
    BY <1>1, <1>7, <2>1, <2>2 DEF TypeOK, LockRecords, Oracles, Rings, Observations
<1>14. LocksAreBacked'
  <2> SUFFICES ASSUME NEW i \in Ids
               PROVE  /\ locks'[i].origin \in {"None", "Launch"}
                      /\ locks'[i].origin = "None" =>
                            locks'[i].launchToken = weth /\ ~locks'[i].reclaimed
                      /\ locks'[i].origin = "Launch" =>
                            /\ locks'[i].launchToken \in LaunchTokens
                            /\ oracle'[locks'[i].launchToken].exists
                            /\ positions'[i].pool = locks'[i].launchToken
                            /\ positions'[i].holder =
                                  IF locks'[i].reclaimed THEN "burned" ELSE "lock"
                            /\ promised'[i].lockUntil <= locks'[i].lockUntil
                            /\ locks'[i].lockUntil <= PERMANENT
                            /\ promised'[i].period <= inactivityPeriod'
    BY DEF LocksAreBacked, PERMANENT
  <2>1. CASE i = id
    BY <1>1, <1>2, <1>4, <1>7, <1>8, <1>9, <1>10, <1>12, <2>1
  <2>2. CASE i # id
    BY <1>1, <1>7, <1>12, <2>2 DEF LocksAreBacked
  <2> QED
    BY <2>1, <2>2
<1>15. PositionsMakeSense' /\ WithinTime'
  BY <1>1, <1>8, <1>12 DEF PositionsMakeSense, WithinTime
<1>16. OneLockPerLaunch'
  BY <1>1, <1>9, <1>12 DEF Books, OneLockPerLaunch
<1>17. OnlyLocksPayCreators'
  <2>1. \A q \in LaunchTokens : (\A i \in Ids : locks'[i].launchToken # q) =>
            (\A i \in Ids : locks[i].launchToken # q)
    BY <1>1, <1>12, LockConstants DEF LocksAreBacked
  <2> QED
    BY <1>1, <2>1 DEF Books, OnlyLocksPayCreators
<1>18. CreatorShareBounded'
  <2>1. balance[creatorOf[p]][p] = 0
    BY <1>1 DEF Books, OnlyLocksPayCreators
  <2>2. balance[treasury][p] \in Nat
    BY DEF TypeOK, Accounts, Assets
  <2>3. 0 * MAX_CREATOR_FEE_BPS <= f * (0 + balance[treasury][p])
    <3> DEFINE t == balance[treasury][p]
    <3>1. 0 * MAX_CREATOR_FEE_BPS = 0 /\ f * t \in Nat /\ 0 + t = t
      BY <1>5, <2>2, LockConstants, SMT
    <3> QED
      BY <3>1
  <2> SUFFICES ASSUME NEW i \in Ids, locks'[i].origin = "Launch"
               PROVE  LET L == locks'[i].launchToken
                          c == balance[creatorOf[L]][L]
                      IN  c * MAX_CREATOR_FEE_BPS
                            <= locks'[i].creatorFeeBps * (c + balance[treasury][L])
    BY <1>1 DEF CreatorShareBounded
  <2>4. CASE i = id
    BY <1>9, <1>12, <2>1, <2>3, <2>4
  <2>5. CASE i # id
    BY <1>12, <2>5 DEF Books, CreatorShareBounded
  <2> QED
    BY <2>4, <2>5
<1>19. LockKeepsNothing'
  BY <1>1 DEF Books, LockKeepsNothing
<1> QED
  BY <1>7, <1>13, <1>14, <1>15, <1>16, <1>17, <1>18, <1>19 DEF Books

----------------------------------------------------------------------------
(* Money: what a payment, a split and a collection move. *)

Balances == [Accounts -> [Assets -> Nat]]

\* The accounts of the lock's transfers are accounts, all different.
LEMMA AccountsDiffer ==
    /\ lock \in Accounts /\ treasury \in Accounts /\ DEAD \in Accounts
    /\ lock # treasury /\ lock # DEAD /\ treasury # DEAD
    /\ \A c \in Creators : c \in Accounts /\ c # lock /\ c # treasury /\ c # DEAD
    /\ weth \in Assets
    /\ \A p \in LaunchTokens : p \in Assets /\ p # weth
  BY LockConstants DEF Accounts, Assets

\* A payment takes from one account what it adds to the other, and reaches no
\* third account and no other asset.
LEMMA PayMoves ==
    ASSUME NEW b \in Balances, NEW from \in Accounts, NEW to \in Accounts, from # to,
           NEW x \in Assets, NEW amount \in Nat, amount <= b[from][x]
    PROVE  /\ Pay(from, b, to, x, amount) \in Balances
           /\ Pay(from, b, to, x, amount)[from][x] = b[from][x] - amount
           /\ Pay(from, b, to, x, amount)[to][x] = b[to][x] + amount
           /\ \A a \in Accounts : a # from /\ a # to =>
                 Pay(from, b, to, x, amount)[a] = b[a]
           /\ \A a \in Accounts, y \in Assets : y # x =>
                 Pay(from, b, to, x, amount)[a][y] = b[a][y]
<1>1. CASE amount = 0
  <2>1. Pay(from, b, to, x, amount) = b
    BY <1>1 DEF Pay
  <2>2. b[from][x] \in Nat /\ b[to][x] \in Nat
    BY DEF Balances
  <2> QED
    BY <1>1, <2>1, <2>2
<1>2. CASE amount # 0
  <2> DEFINE less == [b[from] EXCEPT ![x] = b[from][x] - amount]
             more == [b[to] EXCEPT ![x] = b[to][x] + amount]
             new == [b EXCEPT ![from] = less, ![to] = more]
  <2>1. b[from] \in [Assets -> Nat] /\ b[to] \in [Assets -> Nat]
        /\ b[from][x] - amount \in Nat /\ b[to][x] + amount \in Nat
    BY DEF Balances
  <2>2. Pay(from, b, to, x, amount) = new
    BY <1>2 DEF Pay, Balances
  <2>3. less \in [Assets -> Nat] /\ less[x] = b[from][x] - amount
        /\ \A y \in Assets : y # x => less[y] = b[from][y]
    BY <2>1
  <2>4. more \in [Assets -> Nat] /\ more[x] = b[to][x] + amount
        /\ \A y \in Assets : y # x => more[y] = b[to][y]
    BY <2>1
  <2> HIDE DEF less, more
  <2>5. new \in Balances
    BY <2>3, <2>4 DEF Balances
  <2>6. new[from] = less /\ new[to] = more
        /\ \A a \in Accounts : a # from /\ a # to => new[a] = b[a]
    BY DEF Balances
  <2> HIDE DEF new
  <2>7. \A a \in Accounts, y \in Assets : y # x => new[a][y] = b[a][y]
    BY <2>3, <2>4, <2>6
  <2> QED
    BY <2>2, <2>3, <2>4, <2>5, <2>6, <2>7
<1> QED
  BY <1>1, <1>2

\* The creator's part of an amount, rounded down.
LEMMA PartBounds ==
    ASSUME TypeOK, NEW id \in Ids, NEW amount \in Nat
    PROVE  /\ CreatorPart(id, amount) \in 0..amount
           /\ CreatorPart(id, amount) * MAX_CREATOR_FEE_BPS
                 <= locks[id].creatorFeeBps * amount
           /\ locks[id].origin # "Launch" => CreatorPart(id, amount) = 0
<1> DEFINE f == locks[id].creatorFeeBps
           B == MAX_CREATOR_FEE_BPS
           q == (amount * f) \div B
<1>1. f \in 0..B /\ B \in Nat /\ B > 0
  BY LockConstants DEF TypeOK
<1> HIDE DEF f, B
<1>2. amount * f \in Nat /\ amount * f = f * amount
  BY <1>1, SMT
<1>3. q \in Nat /\ q * B <= amount * f
  BY <1>1, <1>2, DivBounds
<1>4. q <= amount
  <2> HIDE DEF q
  <2>1. SUFFICES ASSUME amount + 1 <= q PROVE FALSE
    BY <1>3
  <2>2. (amount + 1) * B <= q * B
    BY <1>1, <1>3, <2>1, MulMono
  <2>3. f * amount <= B * amount
    BY <1>1, MulMono
  <2>4. (amount + 1) * B = B * amount + B
    BY <1>1, SMT
  <2>5. q * B \in Nat /\ (amount + 1) * B \in Nat /\ B * amount \in Nat
    BY <1>1, <1>3, SMT
  <2> HIDE DEF f, B
  <2> QED
    BY <1>1, <1>2, <1>3, <2>2, <2>3, <2>4, <2>5
<1>5. CASE locks[id].origin = "Launch"
  <2>1. CreatorPart(id, amount) = q
    BY <1>5 DEF CreatorPart, BpsOf, f, B
  <2> HIDE DEF q
  <2> QED
    BY <1>2, <1>3, <1>4, <1>5, <2>1 DEF f, B
<1>6. CASE locks[id].origin # "Launch"
  <2>1. CreatorPart(id, amount) = 0
    BY <1>6 DEF CreatorPart
  <2>2. 0 * B = 0 /\ f * amount \in Nat
    BY <1>1, SMT
  <2> QED
    BY <1>6, <2>1, <2>2 DEF f, B
<1> QED
  BY <1>5, <1>6

\* Paying out an amount takes it from the lock: the creator's part goes to the
\* launch's creator, the rest to the treasury.
LEMMA PayOutMoves ==
    ASSUME TypeOK, LocksAreBacked, NEW id \in Ids, NEW b \in Balances, NEW x \in Assets,
           NEW amount \in Nat, amount <= b[lock][x]
    PROVE  /\ PayOut(id, b, x, amount) \in Balances
           /\ PayOut(id, b, x, amount)[lock][x] = b[lock][x] - amount
           /\ PayOut(id, b, x, amount)[treasury][x] =
                 b[treasury][x] + (amount - CreatorPart(id, amount))
           /\ locks[id].origin = "Launch" =>
                 PayOut(id, b, x, amount)[CreatorOfLock(id)][x] =
                    b[CreatorOfLock(id)][x] + CreatorPart(id, amount)
           /\ \A a \in Accounts, y \in Assets : y # x =>
                 PayOut(id, b, x, amount)[a][y] = b[a][y]
           /\ \A a \in Accounts : (/\ a # lock /\ a # treasury
                                   /\ locks[id].origin = "Launch" => a # CreatorOfLock(id))
                 => PayOut(id, b, x, amount)[a] = b[a]
<1> DEFINE part == CreatorPart(id, amount)
           rest == Pay(lock, b, treasury, x, amount - part)
           all == Pay(lock, rest, CreatorOfLock(id), x, part)
<1>1. part \in 0..amount /\ (locks[id].origin # "Launch" => part = 0)
  BY PartBounds
<1>2. locks[id].origin = "Launch" => CreatorOfLock(id) \in Creators
  BY LockTypes DEF CreatorOfLock, LocksAreBacked
<1>3. PayOut(id, b, x, amount) = IF part = 0 THEN rest ELSE all
  BY DEF PayOut
<1>4. b[lock][x] \in Nat /\ b[treasury][x] \in Nat
  BY AccountsDiffer DEF Balances
<1> HIDE DEF part
<1>5. amount - part \in Nat /\ amount - part <= b[lock][x] /\ part <= b[lock][x] - (amount - part)
      /\ part \in Nat
  BY <1>1, <1>4
<1>6. /\ rest \in Balances
      /\ rest[lock][x] = b[lock][x] - (amount - part)
      /\ rest[treasury][x] = b[treasury][x] + (amount - part)
      /\ \A a \in Accounts : a # lock /\ a # treasury => rest[a] = b[a]
      /\ \A a \in Accounts, y \in Assets : y # x => rest[a][y] = b[a][y]
  BY <1>5, AccountsDiffer, PayMoves
<1> HIDE DEF rest
<1>7. CASE part = 0
  <2>1. PayOut(id, b, x, amount) = rest
    BY <1>3, <1>7
  <2>2. locks[id].origin = "Launch" =>
           b[CreatorOfLock(id)][x] + part = rest[CreatorOfLock(id)][x]
    BY <1>2, <1>6, <1>7, AccountsDiffer DEF Balances
  <2> QED
    BY <1>4, <1>6, <1>7, <2>1, <2>2 DEF part
<1>8. CASE part # 0
  <2>1. locks[id].origin = "Launch" /\ CreatorOfLock(id) \in Creators
    BY <1>1, <1>2, <1>8
  <2>2. PayOut(id, b, x, amount) = all
    BY <1>3, <1>8
  <2> DEFINE c == CreatorOfLock(id)
  <2>3. c \in Accounts /\ c # lock /\ c # treasury
    BY <2>1, AccountsDiffer
  <2> HIDE DEF c
  <2>4. all = Pay(lock, rest, c, x, part)
    BY DEF c
  <2> HIDE DEF all
  <2>5. /\ all \in Balances
        /\ all[lock][x] = rest[lock][x] - part
        /\ all[c][x] = rest[c][x] + part
        /\ \A a \in Accounts : a # lock /\ a # c => all[a] = rest[a]
        /\ \A a \in Accounts, y \in Assets : y # x => all[a][y] = rest[a][y]
    BY <1>5, <1>6, <2>3, <2>4, AccountsDiffer, PayMoves
  <2>6. all[lock][x] = b[lock][x] - amount
    BY <1>4, <1>5, <1>6, <2>5
  <2>7. all[treasury][x] = b[treasury][x] + (amount - part) /\ all[c][x] = b[c][x] + part
    BY <1>6, <2>3, <2>5, AccountsDiffer
  <2>8. \A a \in Accounts, y \in Assets : y # x => all[a][y] = b[a][y]
    BY <1>6, <2>5
  <2>9. \A a \in Accounts : a # lock /\ a # treasury /\ a # c => all[a] = b[a]
    BY <1>6, <2>5
  <2> QED
    BY <2>1, <2>2, <2>5, <2>6, <2>7, <2>8, <2>9 DEF c, part
<1> QED
  BY <1>7, <1>8

\* A pool's two tokens are its launch token and WETH.
LEMMA PoolTokens ==
    ASSUME NEW p \in LaunchTokens
    PROVE  /\ token0(p) \in Assets /\ token1(p) \in Assets /\ token0(p) # token1(p)
           /\ token0(p) = p => token1(p) = weth
           /\ token0(p) # p => token0(p) = weth /\ token1(p) = p
           /\ BurnsToken0(p) <=> token0(p) = p
  BY AccountsDiffer DEF token0, token1, BurnsToken0

\* What the position manager pays reaches the lock in the pool's two tokens.
LEMMA PaidInMoves ==
    ASSUME balance \in Balances, NEW p \in LaunchTokens, NEW m \in Nat, NEW n \in Nat
    PROVE  /\ PaidIn(p, m, n) \in Balances
           /\ PaidIn(p, m, n)[lock][token0(p)] = balance[lock][token0(p)] + m
           /\ PaidIn(p, m, n)[lock][token1(p)] = balance[lock][token1(p)] + n
           /\ \A y \in Assets : y # token0(p) /\ y # token1(p) =>
                 PaidIn(p, m, n)[lock][y] = balance[lock][y]
           /\ \A a \in Accounts : a # lock => PaidIn(p, m, n)[a] = balance[a]
<1> DEFINE s == token0(p)
           t == token1(p)
           own == [balance[lock] EXCEPT ![s] = @ + m, ![t] = @ + n]
<1>1. PaidIn(p, m, n) = [balance EXCEPT ![lock] = own]
  BY DEF PaidIn
<1>2. balance[lock] \in [Assets -> Nat] /\ lock \in Accounts
  BY AccountsDiffer DEF Balances
<1>3. s \in Assets /\ t \in Assets /\ s # t
  BY PoolTokens
<1> HIDE DEF s, t
<1>4. /\ own \in [Assets -> Nat]
      /\ own[s] = balance[lock][s] + m /\ own[t] = balance[lock][t] + n
      /\ \A y \in Assets : y # s /\ y # t => own[y] = balance[lock][y]
  BY <1>2, <1>3
<1> HIDE DEF own
<1> DEFINE paid == [balance EXCEPT ![lock] = own]
<1>5. paid \in Balances /\ paid[lock] = own
      /\ \A a \in Accounts : a # lock => paid[a] = balance[a]
  BY <1>2, <1>4 DEF Balances
<1> HIDE DEF paid
<1> QED
  BY <1>1, <1>4, <1>5 DEF paid, s, t

----------------------------------------------------------------------------
(* Collecting the fees. *)

Positions == [holder : {"nobody", "stranger", "lock", "burned"},
              pool : Assets, principal : Pair, owed : Pair]

\* The parts of the type that concern the positions and the money.
LEMMA MoneyTypes ==
    TypeOK => balance \in Balances /\ positions \in [Ids -> Positions]
  BY DEF TypeOK, Balances, Positions

\* A position's amounts are two numbers.
LEMMA PairParts ==
    ASSUME NEW pos \in Positions
    PROVE  /\ pos.owed[1] \in Nat /\ pos.owed[2] \in Nat
           /\ pos.principal[1] \in Nat /\ pos.principal[2] \in Nat
  BY DEF Positions, Pair

\* A collection leaves the lock's own balances as they were and splits what
\* the position was owed in its launch token, which is the one it may share
\* with the launch's creator: nobody else gains or loses in that token, and
\* no other launch's token moves.
LEMMA CollectMoves ==
    ASSUME LockInv, NEW id \in Ids, collect(id), NEW p, p = positions[id].pool
    PROVE  /\ p \in LaunchTokens
           /\ balance' \in Balances
           /\ \A x \in Assets : balance'[lock][x] = balance[lock][x]
           /\ \A x \in Assets, a \in Accounts : x # p /\ x # weth =>
                 balance'[a][x] = balance[a][x]
           /\ \A a \in Accounts : (/\ a # lock /\ a # treasury
                                   /\ locks[id].origin = "Launch" => a # CreatorOfLock(id))
                 => balance'[a] = balance[a]
           /\ \E amount \in Nat :
                 /\ balance'[treasury][p] =
                       balance[treasury][p] + (amount - CreatorPart(id, amount))
                 /\ locks[id].origin = "Launch" =>
                       balance'[CreatorOfLock(id)][p] =
                          balance[CreatorOfLock(id)][p] + CreatorPart(id, amount)
<1> DEFINE s == token0(p)
           t == token1(p)
           m == positions[id].owed[1]
           n == positions[id].owed[2]
           paid == PaidIn(p, m, n)
           first == PayOut(id, paid, s, m)
           second == PayOut(id, first, t, n)
<1>1. TypeOK /\ LocksAreBacked /\ balance \in Balances
  BY MoneyTypes DEF LockInv, Terms
<1>2. positions[id].holder = "lock" /\ balance' = second
  BY DEF collect
<1>3. p \in LaunchTokens
  BY <1>2 DEF LockInv, Terms, PositionsMakeSense
<1>4. m \in Nat /\ n \in Nat
  BY MoneyTypes, PairParts DEF LockInv
<1>5. s \in Assets /\ t \in Assets /\ s # t /\ {s, t} = {p, weth} /\ p # weth /\ p \in Assets
  BY <1>3, PoolTokens, AccountsDiffer
<1> HIDE DEF m, n
<1>6. /\ paid \in Balances
      /\ paid[lock][s] = balance[lock][s] + m
      /\ paid[lock][t] = balance[lock][t] + n
      /\ \A y \in Assets : y # s /\ y # t => paid[lock][y] = balance[lock][y]
      /\ \A a \in Accounts : a # lock => paid[a] = balance[a]
  BY <1>1, <1>3, <1>4, PaidInMoves
<1> HIDE DEF s, t, paid
<1>7. balance[lock][s] \in Nat /\ balance[lock][t] \in Nat
  BY <1>1, <1>5, AccountsDiffer DEF Balances
<1>8. /\ first \in Balances
      /\ first[lock][s] = paid[lock][s] - m
      /\ first[treasury][s] = paid[treasury][s] + (m - CreatorPart(id, m))
      /\ locks[id].origin = "Launch" =>
            first[CreatorOfLock(id)][s] = paid[CreatorOfLock(id)][s] + CreatorPart(id, m)
      /\ \A a \in Accounts, y \in Assets : y # s => first[a][y] = paid[a][y]
      /\ \A a \in Accounts : (/\ a # lock /\ a # treasury
                              /\ locks[id].origin = "Launch" => a # CreatorOfLock(id))
            => first[a] = paid[a]
  <2>1. m <= paid[lock][s]
    BY <1>4, <1>6, <1>7
  <2> QED
    BY <1>1, <1>4, <1>5, <1>6, <2>1, PayOutMoves
<1> HIDE DEF first
<1>9. first[lock][t] = balance[lock][t] + n
  BY <1>5, <1>6, <1>8, AccountsDiffer
<1>10. /\ second \in Balances
       /\ second[lock][t] = first[lock][t] - n
       /\ second[treasury][t] = first[treasury][t] + (n - CreatorPart(id, n))
       /\ locks[id].origin = "Launch" =>
             second[CreatorOfLock(id)][t] = first[CreatorOfLock(id)][t] + CreatorPart(id, n)
       /\ \A a \in Accounts, y \in Assets : y # t => second[a][y] = first[a][y]
       /\ \A a \in Accounts : (/\ a # lock /\ a # treasury
                               /\ locks[id].origin = "Launch" => a # CreatorOfLock(id))
             => second[a] = first[a]
  <2>1. n <= first[lock][t]
    BY <1>4, <1>7, <1>9
  <2> QED
    BY <1>1, <1>4, <1>5, <1>8, <2>1, PayOutMoves
<1> HIDE DEF second
<1>11. locks[id].origin = "Launch" =>
          CreatorOfLock(id) \in Accounts /\ CreatorOfLock(id) # lock
  BY <1>1, LockTypes, AccountsDiffer DEF CreatorOfLock, LocksAreBacked
<1>12. \A x \in Assets : second[lock][x] = balance[lock][x]
  <2> TAKE x \in Assets
  <2>1. CASE x = s
    BY <1>4, <1>5, <1>6, <1>7, <1>8, <1>10, <2>1, AccountsDiffer
  <2>2. CASE x = t
    BY <1>4, <1>7, <1>9, <1>10, <2>2
  <2>3. CASE x # s /\ x # t
    BY <1>6, <1>8, <1>10, <2>3, AccountsDiffer
  <2> QED
    BY <2>1, <2>2, <2>3
<1>13. \A x \in Assets, a \in Accounts : x # p /\ x # weth => second[a][x] = balance[a][x]
  <2> TAKE x \in Assets, a \in Accounts
  <2> HAVE x # p /\ x # weth
  <2>1. x # s /\ x # t
    BY <1>5
  <2>2. second[a][x] = paid[a][x]
    BY <1>8, <1>10, <2>1
  <2> QED
    BY <1>6, <2>1, <2>2
<1>14. \A a \in Accounts : (/\ a # lock /\ a # treasury
                            /\ locks[id].origin = "Launch" => a # CreatorOfLock(id))
          => second[a] = balance[a]
  BY <1>6, <1>8, <1>10
<1>15. \E amount \in Nat :
          /\ second[treasury][p] =
                balance[treasury][p] + (amount - CreatorPart(id, amount))
          /\ locks[id].origin = "Launch" =>
                second[CreatorOfLock(id)][p] =
                   balance[CreatorOfLock(id)][p] + CreatorPart(id, amount)
  <2>1. CASE p = s
    <3>1. /\ second[treasury][p] = paid[treasury][p] + (m - CreatorPart(id, m))
          /\ locks[id].origin = "Launch" =>
                second[CreatorOfLock(id)][p] = paid[CreatorOfLock(id)][p] + CreatorPart(id, m)
      BY <1>5, <1>8, <1>10, <1>11, <2>1, AccountsDiffer
    <3>2. /\ second[treasury][p] = balance[treasury][p] + (m - CreatorPart(id, m))
          /\ locks[id].origin = "Launch" =>
                second[CreatorOfLock(id)][p] = balance[CreatorOfLock(id)][p] + CreatorPart(id, m)
      BY <1>6, <1>11, <3>1, AccountsDiffer
    <3> QED
      BY <1>4, <3>2
  <2>2. CASE p = t
    <3>1. \A a \in Accounts : a # lock => first[a][p] = balance[a][p]
      BY <1>5, <1>6, <1>8, <2>2
    <3>2. /\ second[treasury][p] = balance[treasury][p] + (n - CreatorPart(id, n))
          /\ locks[id].origin = "Launch" =>
                second[CreatorOfLock(id)][p] = balance[CreatorOfLock(id)][p] + CreatorPart(id, n)
      BY <1>10, <1>11, <2>2, <3>1, AccountsDiffer
    <3> QED
      BY <1>4, <3>2
  <2> QED
    BY <1>5, <2>1, <2>2
<1> QED
  BY <1>2, <1>3, <1>10, <1>12, <1>13, <1>14, <1>15

\* A split that keeps within the creator's share keeps the sums within it.
LEMMA ShareKept ==
    ASSUME NEW c \in Nat, NEW t \in Nat, NEW amount \in Nat, NEW part \in 0..amount,
           NEW f \in Nat, NEW B \in Nat, c * B <= f * (c + t), part * B <= f * amount
    PROVE  (c + part) * B <= f * ((c + part) + (t + (amount - part)))
<1> DEFINE u == c + t
<1>1. (c + part) + (t + (amount - part)) = u + amount /\ u \in Nat /\ part \in Nat
  OBVIOUS
<1>2. c * B <= f * u
  OBVIOUS
<1> HIDE DEF u
<1>3. (c + part) * B = c * B + part * B /\ f * (u + amount) = f * u + f * amount
  BY <1>1, SMT
<1>4. c * B \in Nat /\ part * B \in Nat /\ f * u \in Nat /\ f * amount \in Nat
  BY <1>1, SMT
<1>5. c * B + part * B <= f * u + f * amount
  BY <1>2, <1>4
<1> QED
  BY <1>1, <1>3, <1>5

\* A collection keeps every creator within the share.
LEMMA CollectKeeps ==
    ASSUME LockInv, NEW id \in Ids, collect(id)
    PROVE  LockInv'
<1> USE DEF LockInv, Terms
<1> DEFINE p == positions[id].pool
           new == [positions[id] EXCEPT !.owed = <<0, 0>>]
<1>1. /\ positions' = [positions EXCEPT ![id] = new]
      /\ UNCHANGED <<now, creatorOf, locks, inactivityPeriod, oracle, lastWrite,
                     promised, donated>>
  BY DEF collect
<1>2. /\ p \in LaunchTokens
      /\ balance' \in Balances
      /\ \A x \in Assets : balance'[lock][x] = balance[lock][x]
      /\ \A x \in Assets, a \in Accounts : x # p /\ x # weth =>
            balance'[a][x] = balance[a][x]
      /\ \A a \in Accounts : (/\ a # lock /\ a # treasury
                              /\ locks[id].origin = "Launch" => a # CreatorOfLock(id))
            => balance'[a] = balance[a]
      /\ \E amount \in Nat :
            /\ balance'[treasury][p] =
                  balance[treasury][p] + (amount - CreatorPart(id, amount))
            /\ locks[id].origin = "Launch" =>
                  balance'[CreatorOfLock(id)][p] =
                     balance[CreatorOfLock(id)][p] + CreatorPart(id, amount)
  BY CollectMoves
<1>3. positions[id].pool = p
  OBVIOUS
<1> HIDE DEF p
<1>4. /\ positions \in [Ids -> Positions] /\ balance \in Balances
      /\ now \in Nat /\ inactivityPeriod \in Nat
  BY MoneyTypes, OracleTypes, PeriodType
<1>5. /\ new \in Positions /\ new.holder = positions[id].holder
      /\ new.pool = positions[id].pool /\ new.principal = positions[id].principal
  <2>1. <<0, 0>> \in Pair
    BY DEF Pair
  <2> QED
    BY <1>4, <2>1 DEF Positions
<1> HIDE DEF new
<1>6. \A i \in Ids : /\ positions'[i].holder = positions[i].holder
                     /\ positions'[i].pool = positions[i].pool
                     /\ positions'[i].principal = positions[i].principal
  BY <1>1, <1>4, <1>5
<1>7. TypeOK'
  <2>1. positions' \in [Ids -> Positions]
    BY <1>1, <1>4, <1>5
  <2> QED
    BY <1>1, <1>2, <2>1 DEF TypeOK, Balances, Positions
<1>8. RingDatesLastWrite' /\ WithinTime'
  BY <1>1, <1>4, QuietPools DEF WithinTime
<1>9. LocksAreBacked'
  BY <1>1, <1>4, <1>6, LocksStayBacked
<1>10. PositionsMakeSense'
  BY <1>6 DEF PositionsMakeSense
<1>11. OneLockPerLaunch' /\ LockKeepsNothing'
  BY <1>1, <1>2 DEF Books, OneLockPerLaunch, LockKeepsNothing
<1>12. creatorOf \in [LaunchTokens -> Creators]
  BY LockTypes
<1>13. locks[id].origin = "Launch" => locks[id].launchToken = p
  BY <1>3 DEF LocksAreBacked
<1>14. OnlyLocksPayCreators'
  <2> SUFFICES ASSUME NEW q \in LaunchTokens, \A i \in Ids : locks[i].launchToken # q
               PROVE  balance'[creatorOf[q]][q] = 0
    BY <1>1 DEF OnlyLocksPayCreators
  <2>1. balance[creatorOf[q]][q] = 0
    BY DEF Books, OnlyLocksPayCreators
  <2>2. creatorOf[q] \in Accounts /\ creatorOf[q] # lock /\ creatorOf[q] # treasury
        /\ q \in Assets /\ q # weth
    BY <1>12, AccountsDiffer
  <2>3. CASE q # p
    BY <1>2, <2>1, <2>2, <2>3
  <2>4. CASE q = p
    <3>1. locks[id].origin # "Launch"
      BY <1>13, <2>4
    <3> QED
      BY <1>2, <2>1, <2>2, <3>1
  <2> QED
    BY <2>3, <2>4
<1>15. CreatorShareBounded'
  <2> DEFINE c(L) == balance[creatorOf[L]][L]
             t(L) == balance[treasury][L]
             d(L) == balance'[creatorOf[L]][L]
             u(L) == balance'[treasury][L]
             B == MAX_CREATOR_FEE_BPS
  <2> SUFFICES ASSUME NEW i \in Ids, locks[i].origin = "Launch",
                      NEW L, L = locks[i].launchToken
               PROVE  d(L) * B <= locks[i].creatorFeeBps * (d(L) + u(L))
    BY <1>1 DEF CreatorShareBounded
  <2> DEFINE f == locks[i].creatorFeeBps
  <2>1. L \in LaunchTokens /\ L \in Assets /\ L # weth
    BY AccountsDiffer DEF LocksAreBacked
  <2>2. creatorOf[L] \in Accounts /\ creatorOf[L] # lock /\ creatorOf[L] # treasury
    BY <1>12, <2>1, AccountsDiffer
  <2>3. c(L) \in Nat /\ t(L) \in Nat
    BY <1>4, <2>1, <2>2, AccountsDiffer DEF Balances
  <2>4. f \in Nat /\ B \in Nat
    BY LockConstants DEF TypeOK
  <2>5. c(L) * B <= f * (c(L) + t(L))
    BY DEF Books, CreatorShareBounded
  <2>6. CASE L # p
    BY <1>2, <2>1, <2>2, <2>5, <2>6, AccountsDiffer
  <2>7. CASE L = p /\ i = id
    <3>1. CreatorOfLock(id) = creatorOf[L]
      BY <2>7 DEF CreatorOfLock
    <3>2. PICK amount \in Nat :
             /\ u(L) = t(L) + (amount - CreatorPart(id, amount))
             /\ d(L) = c(L) + CreatorPart(id, amount)
      BY <1>2, <2>7, <3>1
    <3> DEFINE part == CreatorPart(id, amount)
    <3>3. part \in 0..amount /\ part * B <= f * amount
      BY <2>7, PartBounds
    <3> HIDE DEF c, t, f, B, part
    <3>4. (c(L) + part) * B <= f * ((c(L) + part) + (t(L) + (amount - part)))
      BY <2>3, <2>4, <2>5, <3>3, ShareKept
    <3> QED
      BY <3>2, <3>4 DEF part, B, f
  <2>8. CASE L = p /\ i # id
    <3>1. locks[id].origin # "Launch"
      BY <1>13, <2>8 DEF Books, OneLockPerLaunch
    <3>2. d(L) = c(L)
      BY <1>2, <2>2, <3>1
    <3>3. PICK amount \in Nat : u(L) = t(L) + (amount - CreatorPart(id, amount))
      BY <1>2, <2>8
    <3>4. CreatorPart(id, amount) = 0
      BY <3>1, PartBounds
    <3>5. 0 \in 0..amount /\ 0 * B <= f * amount
      <4>1. 0 * B = 0 /\ f * amount \in Nat
        BY <2>4, SMT
      <4> QED
        BY <4>1
    <3> HIDE DEF c, t, f, B
    <3>6. (c(L) + 0) * B <= f * ((c(L) + 0) + (t(L) + (amount - 0)))
      BY <2>3, <2>4, <2>5, <3>5, ShareKept
    <3>7. c(L) + 0 = c(L) /\ u(L) = t(L) + (amount - 0)
      BY <2>3, <3>3, <3>4
    <3> QED
      BY <3>2, <3>6, <3>7 DEF f, B
  <2> QED
    BY <2>6, <2>7, <2>8
<1> QED
  BY <1>7, <1>8, <1>9, <1>10, <1>11, <1>14, <1>15 DEF Books

\* A gift is counted as one.
LEMMA DonateKeeps ==
    ASSUME LockInv, NEW x \in Assets, Donate(x)
    PROVE  LockInv'
<1> USE DEF LockInv, Terms
<1> DEFINE own == [balance[lock] EXCEPT ![x] = balance[lock][x] + 1]
<1>1. /\ donated' = [donated EXCEPT ![x] = donated[x] + 1]
      /\ UNCHANGED <<now, creatorOf, locks, inactivityPeriod, positions, oracle,
                     lastWrite, promised>>
  BY DEF Donate
<1>2. /\ balance \in Balances /\ now \in Nat /\ inactivityPeriod \in Nat
      /\ donated \in [Assets -> Nat] /\ creatorOf \in [LaunchTokens -> Creators]
  BY MoneyTypes, OracleTypes, PeriodType, LockTypes
<1>3. balance' = [balance EXCEPT ![lock] = own]
  BY <1>2, AccountsDiffer DEF Donate, Balances
<1>4. /\ own \in [Assets -> Nat] /\ own[x] = balance[lock][x] + 1
      /\ \A y \in Assets : y # x => own[y] = balance[lock][y]
  BY <1>2, AccountsDiffer DEF Balances
<1> HIDE DEF own
<1>5. /\ balance' \in Balances /\ balance'[lock] = own
      /\ \A a \in Accounts : a # lock => balance'[a] = balance[a]
  BY <1>2, <1>3, <1>4, AccountsDiffer DEF Balances
<1>6. TypeOK'
  <2>1. donated' \in [Assets -> Nat]
    BY <1>1, <1>2
  <2> QED
    BY <1>1, <1>5, <2>1 DEF TypeOK, Balances
<1>7. RingDatesLastWrite' /\ LocksAreBacked' /\ PositionsMakeSense' /\ WithinTime'
  BY <1>1, <1>2, QuietPools, LocksStayBacked DEF PositionsMakeSense, WithinTime
<1>8. LockKeepsNothing'
  BY <1>1, <1>2, <1>4, <1>5 DEF Books, LockKeepsNothing
<1>9. \A L \in LaunchTokens : balance'[creatorOf[L]] = balance[creatorOf[L]]
         /\ balance'[treasury] = balance[treasury]
  BY <1>2, <1>5, AccountsDiffer
<1>10. OneLockPerLaunch' /\ OnlyLocksPayCreators'
  BY <1>1, <1>9 DEF Books, OneLockPerLaunch, OnlyLocksPayCreators
<1>11. CreatorShareBounded'
  <2> SUFFICES ASSUME NEW i \in Ids, locks[i].origin = "Launch"
               PROVE  LET L == locks[i].launchToken
                          c == balance'[creatorOf[L]][L]
                      IN  c * MAX_CREATOR_FEE_BPS
                            <= locks[i].creatorFeeBps * (c + balance'[treasury][L])
    BY <1>1 DEF CreatorShareBounded
  <2>1. locks[i].launchToken \in LaunchTokens
    BY DEF LocksAreBacked
  <2> QED
    BY <1>9, <2>1 DEF Books, CreatorShareBounded
<1> QED
  BY <1>6, <1>7, <1>8, <1>10, <1>11 DEF Books

----------------------------------------------------------------------------
(* Reclaiming an expired lock. *)

\* What a position holds of one of its pool's tokens.
HeldIn(id, p, x) == Swept(id)[IF token0(p) = x THEN 1 ELSE 2]

\* What no blocker means.
LEMMA NothingBlocks ==
    ASSUME NEW id \in Ids, reclaimBlocker(id) = "NoBlocker"
    PROVE  /\ locks[id].origin = "Launch" /\ ~locks[id].reclaimed
           /\ locks[id].lockUntil # PERMANENT
           /\ ~(now <= locks[id].lockUntil)
           /\ ~(secondsSincePoolActivity(locks[id].launchToken) < inactivityPeriod)
  BY DEF reclaimBlocker

\* A reclaim moves what the position held: the launch token to DEAD, the WETH
\* to the treasury, and nothing else.
LEMMA ReclaimMoves ==
    ASSUME LockInv, NEW id \in Ids, reclaim(id), NEW p, p = locks[id].launchToken
    PROVE  /\ p \in LaunchTokens
           /\ balance' \in Balances
           /\ \A x \in Assets : balance'[lock][x] = balance[lock][x]
           /\ balance'[DEAD][p] = balance[DEAD][p] + HeldIn(id, p, p)
           /\ balance'[treasury][weth] = balance[treasury][weth] + HeldIn(id, p, weth)
           /\ \A x \in Assets : x # weth => balance'[treasury][x] = balance[treasury][x]
           /\ \A a \in Accounts : a # lock /\ a # DEAD /\ a # treasury =>
                 balance'[a] = balance[a]
<1> DEFINE m == Swept(id)[1]
           n == Swept(id)[2]
           burned == IF BurnsToken0(p) THEN m ELSE n
           eth == IF BurnsToken0(p) THEN n ELSE m
           paid == PaidIn(p, m, n)
           first == Pay(lock, paid, DEAD, p, burned)
           second == Pay(lock, first, treasury, weth, eth)
<1>1. TypeOK /\ LocksAreBacked /\ balance \in Balances /\ positions[id] \in Positions
  BY MoneyTypes DEF LockInv, Terms
<1>2. balance' = second
  BY DEF reclaim
<1>3. reclaimBlocker(id) = "NoBlocker" /\ p \in LaunchTokens
  BY <1>1, NothingBlocks DEF reclaim, LocksAreBacked
<1>4. m \in Nat /\ n \in Nat
  BY <1>1, PairParts DEF Swept
<1>5. p \in Assets /\ weth \in Assets /\ p # weth
      /\ token0(p) \in Assets /\ token1(p) \in Assets
      /\ (BurnsToken0(p) => token0(p) = p /\ token1(p) = weth)
      /\ (~BurnsToken0(p) => token0(p) = weth /\ token1(p) = p)
  BY <1>3, PoolTokens, AccountsDiffer
<1>6. burned = HeldIn(id, p, p) /\ eth = HeldIn(id, p, weth)
  BY <1>5 DEF HeldIn
<1> HIDE DEF m, n
<1>7. burned \in Nat /\ eth \in Nat
  BY <1>4
<1>8. /\ paid \in Balances
      /\ paid[lock][token0(p)] = balance[lock][token0(p)] + m
      /\ paid[lock][token1(p)] = balance[lock][token1(p)] + n
      /\ \A y \in Assets : y # token0(p) /\ y # token1(p) =>
            paid[lock][y] = balance[lock][y]
      /\ \A a \in Accounts : a # lock => paid[a] = balance[a]
  BY <1>1, <1>3, <1>4, PaidInMoves
<1> HIDE DEF paid
<1>9. /\ paid[lock][p] = balance[lock][p] + burned
      /\ paid[lock][weth] = balance[lock][weth] + eth
      /\ \A y \in Assets : y # p /\ y # weth => paid[lock][y] = balance[lock][y]
  <2>1. CASE BurnsToken0(p)
    BY <1>5, <1>8, <2>1
  <2>2. CASE ~BurnsToken0(p)
    BY <1>5, <1>8, <2>2
  <2> QED
    BY <2>1, <2>2
<1> HIDE DEF burned, eth
<1>10. balance[lock][p] \in Nat /\ balance[lock][weth] \in Nat
  BY <1>1, <1>5, AccountsDiffer DEF Balances
<1>11. /\ first \in Balances
       /\ first[lock][p] = paid[lock][p] - burned
       /\ first[DEAD][p] = paid[DEAD][p] + burned
       /\ \A a \in Accounts : a # lock /\ a # DEAD => first[a] = paid[a]
       /\ \A a \in Accounts, y \in Assets : y # p => first[a][y] = paid[a][y]
  <2>1. burned <= paid[lock][p]
    BY <1>7, <1>9, <1>10
  <2> QED
    BY <1>5, <1>7, <1>8, <2>1, AccountsDiffer, PayMoves
<1> HIDE DEF first
<1>12. first[lock][weth] = balance[lock][weth] + eth
  BY <1>5, <1>9, <1>11, AccountsDiffer
<1>13. /\ second \in Balances
       /\ second[lock][weth] = first[lock][weth] - eth
       /\ second[treasury][weth] = first[treasury][weth] + eth
       /\ \A a \in Accounts : a # lock /\ a # treasury => second[a] = first[a]
       /\ \A a \in Accounts, y \in Assets : y # weth => second[a][y] = first[a][y]
  <2>1. eth <= first[lock][weth]
    BY <1>7, <1>10, <1>12
  <2> QED
    BY <1>5, <1>7, <1>11, <2>1, AccountsDiffer, PayMoves
<1> HIDE DEF second
<1>14. \A x \in Assets : second[lock][x] = balance[lock][x]
  <2> TAKE x \in Assets
  <2>1. CASE x = p
    BY <1>5, <1>7, <1>9, <1>10, <1>11, <1>13, <2>1, AccountsDiffer
  <2>2. CASE x = weth
    BY <1>7, <1>10, <1>12, <1>13, <2>2
  <2>3. CASE x # p /\ x # weth
    BY <1>9, <1>11, <1>13, <2>3, AccountsDiffer
  <2> QED
    BY <2>1, <2>2, <2>3
<1>15. /\ second[DEAD][p] = balance[DEAD][p] + burned
       /\ second[treasury][weth] = balance[treasury][weth] + eth
       /\ \A x \in Assets : x # weth => second[treasury][x] = balance[treasury][x]
  BY <1>5, <1>8, <1>11, <1>13, AccountsDiffer
<1>16. \A a \in Accounts : a # lock /\ a # DEAD /\ a # treasury => second[a] = balance[a]
  BY <1>8, <1>11, <1>13
<1> QED
  BY <1>2, <1>3, <1>6, <1>13, <1>14, <1>15, <1>16

\* A reclaim burns the position its record names.
LEMMA ReclaimKeeps ==
    ASSUME LockInv, NEW id \in Ids, reclaim(id)
    PROVE  LockInv'
<1> USE DEF LockInv, Terms
<1> DEFINE p == locks[id].launchToken
           new == [positions[id] EXCEPT !.holder = "burned",
                                        !.principal = <<0, 0>>, !.owed = <<0, 0>>]
           done == [locks[id] EXCEPT !.reclaimed = TRUE]
<1>1. /\ locks' = [locks EXCEPT ![id] = done]
      /\ positions' = [positions EXCEPT ![id] = new]
      /\ reclaimBlocker(id) = "NoBlocker"
      /\ UNCHANGED <<now, creatorOf, inactivityPeriod, promised, donated>>
  BY DEF reclaim
<1>2. locks[id].origin = "Launch"
  BY <1>1, NothingBlocks
<1>3. /\ p \in LaunchTokens
      /\ balance' \in Balances
      /\ \A x \in Assets : balance'[lock][x] = balance[lock][x]
      /\ \A x \in Assets : x # weth => balance'[treasury][x] = balance[treasury][x]
      /\ \A a \in Accounts : a # lock /\ a # DEAD /\ a # treasury => balance'[a] = balance[a]
  BY ReclaimMoves
<1>4. /\ positions \in [Ids -> Positions] /\ locks \in [Ids -> LockRecords]
      /\ creatorOf \in [LaunchTokens -> Creators] /\ now \in Nat
      /\ inactivityPeriod \in Nat
  BY MoneyTypes, LockTypes, OracleTypes, PeriodType
<1>5. /\ new \in Positions /\ new.holder = "burned" /\ new.pool = positions[id].pool
      /\ new.principal = <<0, 0>>
  <2>1. <<0, 0>> \in Pair
    BY DEF Pair
  <2> QED
    BY <1>4, <2>1 DEF Positions
<1>6. /\ done \in LockRecords /\ done.origin = locks[id].origin
      /\ done.launchToken = locks[id].launchToken /\ done.lockUntil = locks[id].lockUntil
      /\ done.creatorFeeBps = locks[id].creatorFeeBps /\ done.reclaimed = TRUE
  BY <1>4 DEF LockRecords
<1> HIDE DEF new, done
<1>7. /\ positions'[id] = new /\ \A i \in Ids : i # id => positions'[i] = positions[i]
      /\ locks'[id] = done /\ \A i \in Ids : i # id => locks'[i] = locks[i]
  BY <1>1, <1>4
<1>8. /\ oracle' \in [LaunchTokens -> Oracles] /\ lastWrite' \in [LaunchTokens -> Nat]
      /\ RingDatesLastWrite'
      /\ \A q \in LaunchTokens : oracle[q].exists => oracle'[q].exists
  <2>1. oracle[p].exists
    BY <1>2 DEF LocksAreBacked
  <2>2. Observe(p) \/ UNCHANGED <<oracle, lastWrite>>
    BY DEF reclaim
  <2>3. CASE Observe(p)
    <3> HIDE DEF p
    <3> QED
      BY <1>1, <1>3, <2>1, <2>3, ObserveDates
  <2>4. CASE UNCHANGED <<oracle, lastWrite>>
    BY <1>1, <1>4, <2>4, QuietPools
  <2> QED
    BY <2>2, <2>3, <2>4
<1>9. TypeOK'
  <2>1. positions' \in [Ids -> Positions] /\ locks' \in [Ids -> LockRecords]
    BY <1>1, <1>4, <1>5, <1>6
  <2> QED
    BY <1>1, <1>3, <1>8, <2>1
       DEF TypeOK, Balances, Positions, LockRecords, Oracles, Rings, Observations
<1>10. \A i \in Ids : /\ locks'[i].origin = locks[i].origin
                      /\ locks'[i].launchToken = locks[i].launchToken
                      /\ locks'[i].lockUntil = locks[i].lockUntil
                      /\ locks'[i].creatorFeeBps = locks[i].creatorFeeBps
  BY <1>6, <1>7
<1>11. LocksAreBacked'
  <2> SUFFICES ASSUME NEW i \in Ids
               PROVE  /\ locks'[i].origin \in {"None", "Launch"}
                      /\ locks'[i].origin = "None" =>
                            locks'[i].launchToken = weth /\ ~locks'[i].reclaimed
                      /\ locks'[i].origin = "Launch" =>
                            /\ locks'[i].launchToken \in LaunchTokens
                            /\ oracle'[locks'[i].launchToken].exists
                            /\ positions'[i].pool = locks'[i].launchToken
                            /\ positions'[i].holder =
                                  IF locks'[i].reclaimed THEN "burned" ELSE "lock"
                            /\ promised'[i].lockUntil <= locks'[i].lockUntil
                            /\ locks'[i].lockUntil <= PERMANENT
                            /\ promised'[i].period <= inactivityPeriod'
    BY DEF LocksAreBacked, PERMANENT
  <2>1. CASE i = id
    BY <1>1, <1>2, <1>5, <1>6, <1>7, <1>8, <2>1 DEF LocksAreBacked
  <2>2. CASE i # id
    BY <1>1, <1>7, <1>8, <2>2 DEF LocksAreBacked
  <2> QED
    BY <2>1, <2>2
<1>12. PositionsMakeSense' /\ WithinTime'
  BY <1>1, <1>2, <1>3, <1>5, <1>7 DEF PositionsMakeSense, WithinTime, LocksAreBacked
<1>13. OneLockPerLaunch' /\ LockKeepsNothing'
  BY <1>1, <1>3, <1>10 DEF Books, OneLockPerLaunch, LockKeepsNothing
<1>14. \A L \in LaunchTokens : /\ creatorOf' = creatorOf
                               /\ balance'[creatorOf[L]] = balance[creatorOf[L]]
                               /\ balance'[treasury][L] = balance[treasury][L]
  BY <1>1, <1>3, <1>4, AccountsDiffer
<1>15. OnlyLocksPayCreators'
  BY <1>1, <1>10, <1>14 DEF Books, OnlyLocksPayCreators
<1>16. CreatorShareBounded'
  <2> SUFFICES ASSUME NEW i \in Ids, locks[i].origin = "Launch"
               PROVE  LET L == locks[i].launchToken
                          c == balance'[creatorOf[L]][L]
                      IN  c * MAX_CREATOR_FEE_BPS
                            <= locks[i].creatorFeeBps * (c + balance'[treasury][L])
    BY <1>1, <1>10 DEF CreatorShareBounded
  <2>1. locks[i].launchToken \in LaunchTokens
    BY DEF LocksAreBacked
  <2> QED
    BY <1>14, <2>1 DEF Books, CreatorShareBounded
<1> QED
  BY <1>8, <1>9, <1>11, <1>12, <1>13, <1>15, <1>16 DEF Books

----------------------------------------------------------------------------
(* The theorems. *)

\* The lock starts empty.
LEMMA InitSound ==
    Init => LockInv
<1> SUFFICES ASSUME Init PROVE LockInv
  OBVIOUS
<1> USE DEF Init
<1>1. NoPool \in Oracles
  BY LockConstants DEF NoPool, Oracles, Rings, Observations
<1>2. UnregisteredLock \in LockRecords
  BY LockConstants DEF UnregisteredLock, LockRecords, Origins, Assets
<1>3. NoPosition \in Positions
  BY DEF NoPosition, Positions, Pair, Assets
<1>4. TypeOK
  BY <1>1, <1>2, <1>3, LockConstants
     DEF TypeOK, Oracles, Rings, Observations, LockRecords, Positions
<1>5. RingDatesLastWrite /\ WithinTime
  BY LockConstants DEF RingDatesLastWrite, WithinTime, NoPool
<1>6. LocksAreBacked /\ PositionsMakeSense
  BY DEF LocksAreBacked, PositionsMakeSense, UnregisteredLock, NoPosition
<1>7. OneLockPerLaunch /\ CreatorShareBounded
  BY DEF OneLockPerLaunch, CreatorShareBounded, UnregisteredLock
<1>8. OnlyLocksPayCreators /\ LockKeepsNothing
  BY AccountsDiffer DEF OnlyLocksPayCreators, LockKeepsNothing
<1> QED
  BY <1>4, <1>5, <1>6, <1>7, <1>8 DEF LockInv, Terms, Books

\* Every step keeps the invariant.
LEMMA StepSound ==
    LockInv /\ [Next]_vars => LockInv'
<1> SUFFICES ASSUME LockInv, [Next]_vars PROVE LockInv'
  OBVIOUS
<1>1. CASE UNCHANGED vars
  BY <1>1 DEF vars, LockInv, TypeOK, Terms, RingDatesLastWrite, LocksAreBacked,
     PositionsMakeSense, WithinTime, Books, OneLockPerLaunch, OnlyLocksPayCreators,
     LockKeepsNothing, CreatorShareBounded, PERMANENT
<1>2. CASE Tick
  BY <1>2, TickKeeps
<1>3. CASE \E p \in LaunchTokens, side \in 1..2, moves \in BOOLEAN : Swap(p, side, moves)
  BY <1>3, SwapKeeps
<1>4. CASE \E p \in LaunchTokens : IncreaseObservationCardinality(p)
  BY <1>4, IncreaseObservationCardinalityKeeps
<1>5. CASE \E p \in LaunchTokens : CreatePool(p)
  BY <1>5, CreatePoolKeeps
<1>6. CASE \E id \in Ids, p \in LaunchTokens, s \in Seeds, r \in BOOLEAN :
              MintByStranger(id, p, s, r)
  BY <1>6, MintByStrangerKeeps
<1>7. CASE \E id \in Ids : SendToLock(id)
  BY <1>7, SendToLockKeeps
<1>8. CASE \E x \in Assets : Donate(x)
  BY <1>8, DonateKeeps
<1>9. CASE \E id \in Ids, p \in LaunchTokens, s \in Seeds, e \in LockExpiries,
             f \in CreatorShares : registerLock(id, p, s, e, f)
  BY <1>9, RegisterLockKeeps
<1>10. CASE \E c \in Callers, id \in Ids, e \in (0..MaxTime) \cup {PERMANENT} :
               extend(c, id, e)
  BY <1>10, ExtendKeeps
<1>11. CASE \E id \in Ids : collect(id)
  BY <1>11, CollectKeeps
<1>12. CASE \E id \in Ids : reclaim(id)
  BY <1>12, ReclaimKeeps
<1>13. CASE \E c \in Callers, n \in 0..(Width - 1) : setInactivityPeriod(c, n)
  BY <1>13, SetInactivityPeriodKeeps
<1> QED
  BY <1>1, <1>2, <1>3, <1>4, <1>5, <1>6, <1>7, <1>8, <1>9, <1>10, <1>11, <1>12, <1>13
     DEF Next

\* The invariant holds in every state the lock can reach.
THEOREM LockInvHolds == Spec => []LockInv
<1>1. Init => LockInv
  BY InitSound
<1>2. LockInv /\ [Next]_vars => LockInv'
  BY StepSound
<1> QED
  BY <1>1, <1>2, PTL DEF Spec

\* Every variable of the lock, the positions and the pools keeps its type.
THEOREM LockIsTyped == Spec => []TypeOK
<1>1. LockInv => TypeOK
  BY DEF LockInv
<1> QED
  BY <1>1, LockInvHolds, PTL

\* The age a reclaim trusts never exceeds the true one, whatever the ring's
\* length and however often the 32-bit clock has wrapped.
THEOREM AgeIsNeverOverstated == Spec => []AgeFailsClosed
<1>1. LockInv => AgeFailsClosed
  BY AgeIsSafe DEF LockInv, Terms
<1> QED
  BY <1>1, LockInvHolds, PTL

\* Collections and reclaims leave the lock exactly what was given to it.
THEOREM LockIsAConduit == Spec => []LockKeepsNothing
<1>1. LockInv => LockKeepsNothing
  BY DEF LockInv, Books
<1> QED
  BY <1>1, LockInvHolds, PTL

\* The roundings of any series of collections never add up to more than the
\* creator's share.
THEOREM CreatorNeverOverpaid == Spec => []CreatorShareBounded
<1>1. LockInv => CreatorShareBounded
  BY DEF LockInv, Books
<1> QED
  BY <1>1, LockInvHolds, PTL

----------------------------------------------------------------------------
(* What a step may never do. *)

\* Only a reclaim touches the principal of a position the lock holds; a
\* burned position is left alone by every step.
LEMMA OnlyReclaimDrains ==
    ASSUME LockInv, [Next]_vars, NEW id \in Ids, ~reclaim(id)
    PROVE  /\ positions[id].holder = "lock" => positions'[id].principal = positions[id].principal
           /\ positions[id].holder = "burned" => positions'[id] = positions[id]
<1>1. positions \in [Ids -> Positions] /\ TypeOK /\ PositionsMakeSense
  BY MoneyTypes DEF LockInv, Terms
<1>2. CASE UNCHANGED positions
  BY <1>2
<1>3. CASE \E p \in LaunchTokens, side \in 1..2, moves \in BOOLEAN : Swap(p, side, moves)
  BY <1>1, <1>3, FeesOnlyOwe DEF Swap
<1>4. CASE \E i \in Ids, p \in LaunchTokens, s \in Seeds, r \in BOOLEAN :
              MintByStranger(i, p, s, r)
  BY <1>1, <1>4 DEF MintByStranger
<1>5. CASE \E i \in Ids : SendToLock(i)
  BY <1>1, <1>5 DEF SendToLock
<1>6. CASE \E i \in Ids, p \in LaunchTokens, s \in Seeds, e \in LockExpiries,
              f \in CreatorShares : registerLock(i, p, s, e, f)
  BY <1>1, <1>6 DEF registerLock
<1>7. CASE \E i \in Ids : collect(i)
  <2>1. PICK i \in Ids : collect(i)
    BY <1>7
  <2>2. positions' = [positions EXCEPT ![i].owed = <<0, 0>>] /\ positions[i].holder = "lock"
    BY <2>1 DEF collect
  <2> QED
    BY <1>1, <2>2 DEF Positions
<1>8. CASE \E i \in Ids : reclaim(i)
  <2>1. PICK i \in Ids : reclaim(i)
    BY <1>8
  <2>2. i # id
    BY <2>1
  <2>3. positions'[id] = positions[id]
    BY <1>1, <2>1, <2>2 DEF reclaim
  <2> QED
    BY <2>3
<1>9. CASE \/ Tick
           \/ \E p \in LaunchTokens : IncreaseObservationCardinality(p)
           \/ \E p \in LaunchTokens : CreatePool(p)
           \/ \E x \in Assets : Donate(x)
           \/ \E c \in Callers, i \in Ids, e \in (0..MaxTime) \cup {PERMANENT} : extend(c, i, e)
           \/ \E c \in Callers, n \in 0..(Width - 1) : setInactivityPeriod(c, n)
  BY <1>2, <1>9 DEF Tick, IncreaseObservationCardinality, CreatePool, Donate, extend,
                    setInactivityPeriod
<1> QED
  BY <1>2, <1>3, <1>4, <1>5, <1>6, <1>7, <1>8, <1>9 DEF Next, vars

\* A step that takes a held position's principal is a reclaim the terms allow.
LEMMA PrincipalStepHolds ==
    LockInv /\ [Next]_vars => PrincipalStep
<1> SUFFICES ASSUME LockInv, [Next]_vars, NEW id \in Ids, positions[id].holder = "lock",
                    positions'[id].principal # positions[id].principal
             PROVE  /\ locks[id].origin = "Launch"
                    /\ promised[id].lockUntil # PERMANENT
                    /\ now > promised[id].lockUntil
                    /\ Idle(positions[id].pool) >= promised[id].period
  BY DEF PrincipalStep
<1> DEFINE p == locks[id].launchToken
           age == secondsSincePoolActivity(p)
<1>1. TypeOK /\ LocksAreBacked /\ AgeFailsClosed
  BY AgeIsSafe DEF LockInv, Terms
<1>2. reclaim(id)
  BY OnlyReclaimDrains
<1>3. /\ locks[id].origin = "Launch" /\ locks[id].lockUntil # PERMANENT
      /\ ~(now <= locks[id].lockUntil) /\ ~(age < inactivityPeriod)
  BY <1>2, NothingBlocks DEF reclaim
<1>4. /\ p \in LaunchTokens /\ oracle[p].exists /\ positions[id].pool = p
      /\ promised[id].lockUntil <= locks[id].lockUntil
      /\ locks[id].lockUntil <= PERMANENT /\ promised[id].period <= inactivityPeriod
  BY <1>1, <1>3 DEF LocksAreBacked
<1>5. /\ now \in Nat /\ lastWrite[p] \in Nat /\ locks[id].lockUntil \in Nat
      /\ promised[id].lockUntil \in Nat /\ promised[id].period \in Nat
      /\ inactivityPeriod \in Nat /\ PERMANENT \in Nat
  BY <1>1, <1>4, LockConstants, OracleTypes, LockTypes, PeriodType DEF LockRecords, PERMANENT
<1>6. age <= Idle(p)
  BY <1>1, <1>4 DEF AgeFailsClosed
<1>8. age \in Nat
  <2>1. lastWrite[p] <= now /\ oracle[p].ring[oracle[p].index].initialized
        /\ oracle[p].ring[oracle[p].index].ts = lastWrite[p] % Width
    BY <1>4 DEF LockInv, Terms, RingDatesLastWrite
  <2>2. age = (now - (lastWrite[p] % Width)) % Width
    BY <2>1 DEF secondsSincePoolActivity
  <2>3. Width \in Nat /\ Width > 0
    BY LockConstants
  <2> HIDE DEF age, p
  <2>4. age \in 0..(Width - 1)
    BY <1>5, <2>1, <2>2, <2>3, WrappedAge
  <2> QED
    BY <2>3, <2>4
<1>9. Idle(p) \in Int
  BY <1>5 DEF Idle
<1> HIDE DEF age, p
<1>10. Idle(p) >= promised[id].period
  BY <1>3, <1>4, <1>5, <1>6, <1>8, <1>9
<1> QED
  BY <1>3, <1>4, <1>5, <1>10

\* What a launch's position holds leaves it only on the terms promised on the
\* day it was locked: an expiry that has passed, and a pool that has really
\* been quiet for the period then in force.
THEOREM PrincipalIsKept == Spec => PrincipalLeavesOnlyAsPromised
<1>1. LockInv /\ [Next]_vars => [PrincipalStep]_vars
  BY PrincipalStepHolds
<1> QED
  BY <1>1, LockInvHolds, PTL DEF Spec, PrincipalLeavesOnlyAsPromised

\* A reclaimed lock was never permanent.
ReclaimedWasFinite ==
    \A id \in Ids : locks[id].reclaimed => locks[id].lockUntil # PERMANENT

\* What a step may do to a lock's record: reclaim it, lengthen it while it is
\* not reclaimed, make it, or nothing.
LEMMA RecordSteps ==
    ASSUME LockInv, [Next]_vars, NEW id \in Ids
    PROVE  \/ locks'[id] = locks[id]
           \/ /\ reclaim(id)
              /\ locks'[id] = [locks[id] EXCEPT !.reclaimed = TRUE]
           \/ /\ ~locks[id].reclaimed
              /\ \E e \in Nat : /\ e > locks[id].lockUntil
                                /\ locks'[id] = [locks[id] EXCEPT !.lockUntil = e]
           \/ locks[id].origin = "None" /\ ~locks'[id].reclaimed
<1>1. locks \in [Ids -> LockRecords]
  BY LockTypes DEF LockInv
<1>2. CASE UNCHANGED locks
  BY <1>2
<1>3. CASE \E i \in Ids : reclaim(i)
  <2>1. PICK i \in Ids : reclaim(i)
    BY <1>3
  <2>2. locks' = [locks EXCEPT ![i].reclaimed = TRUE]
    BY <2>1 DEF reclaim
  <2>3. CASE i = id
    BY <1>1, <2>1, <2>2, <2>3
  <2>4. CASE i # id
    BY <1>1, <2>2, <2>4
  <2> QED
    BY <2>3, <2>4
<1>4. CASE \E c \in Callers, i \in Ids, e \in (0..MaxTime) \cup {PERMANENT} : extend(c, i, e)
  <2>1. PICK c \in Callers, i \in Ids, e \in (0..MaxTime) \cup {PERMANENT} : extend(c, i, e)
    BY <1>4
  <2>2. locks' = [locks EXCEPT ![i].lockUntil = e] /\ ~locks[i].reclaimed
        /\ e > locks[i].lockUntil
    BY <2>1 DEF extend, Lengthens
  <2>3. e \in Nat
    BY LockConstants DEF PERMANENT
  <2>4. CASE i = id
    BY <1>1, <2>2, <2>3, <2>4
  <2>5. CASE i # id
    BY <1>1, <2>2, <2>5
  <2> QED
    BY <2>4, <2>5
<1>5. CASE \E i \in Ids, p \in LaunchTokens, s \in Seeds, e \in LockExpiries,
              f \in CreatorShares : registerLock(i, p, s, e, f)
  BY <1>1, <1>5 DEF registerLock
<1>6. CASE \/ Tick
           \/ \E p \in LaunchTokens, side \in 1..2, moves \in BOOLEAN : Swap(p, side, moves)
           \/ \E p \in LaunchTokens : IncreaseObservationCardinality(p)
           \/ \E p \in LaunchTokens : CreatePool(p)
           \/ \E i \in Ids, p \in LaunchTokens, s \in Seeds, r \in BOOLEAN :
                 MintByStranger(i, p, s, r)
           \/ \E i \in Ids : SendToLock(i)
           \/ \E x \in Assets : Donate(x)
           \/ \E i \in Ids : collect(i)
           \/ \E c \in Callers, n \in 0..(Width - 1) : setInactivityPeriod(c, n)
  BY <1>2, <1>6 DEF Tick, Swap, IncreaseObservationCardinality, CreatePool,
                    MintByStranger, SendToLock, Donate, collect, setInactivityPeriod
<1> QED
  BY <1>2, <1>3, <1>4, <1>5, <1>6 DEF Next, vars

\* Reclaims leave the date of a lock as it is, and a permanent one is refused.
LEMMA ReclaimedStaysFinite ==
    LockInv /\ ReclaimedWasFinite /\ [Next]_vars => ReclaimedWasFinite'
<1> SUFFICES ASSUME LockInv, ReclaimedWasFinite, [Next]_vars, NEW id \in Ids,
                    locks'[id].reclaimed
             PROVE  locks'[id].lockUntil # PERMANENT
  BY DEF ReclaimedWasFinite, PERMANENT
<1>1. locks[id] \in LockRecords
  BY LockTypes DEF LockInv
<1>2. CASE locks'[id] = locks[id]
  BY <1>2 DEF ReclaimedWasFinite
<1>3. CASE reclaim(id) /\ locks'[id] = [locks[id] EXCEPT !.reclaimed = TRUE]
  <2>1. locks[id].lockUntil # PERMANENT
    BY <1>3, NothingBlocks DEF reclaim
  <2> QED
    BY <1>1, <1>3, <2>1 DEF LockRecords
<1>4. CASE ~locks[id].reclaimed
           /\ \E e \in Nat : locks'[id] = [locks[id] EXCEPT !.lockUntil = e]
  BY <1>1, <1>4 DEF LockRecords
<1> QED
  BY <1>2, <1>3, <1>4, RecordSteps

\* No step makes a record's terms worse.
LEMMA TermsStepHolds ==
    LockInv /\ ReclaimedWasFinite /\ [Next]_vars => TermsStep
<1> SUFFICES ASSUME LockInv, ReclaimedWasFinite, [Next]_vars,
                    NEW id \in Ids, locks[id].origin # "None"
             PROVE  /\ locks'[id].lockUntil >= locks[id].lockUntil
                    /\ locks[id].lockUntil = PERMANENT => ~locks'[id].reclaimed
                    /\ locks[id].reclaimed => UNCHANGED <<locks[id], positions[id]>>
                    /\ locks'[id].creatorFeeBps = locks[id].creatorFeeBps
                    /\ inactivityPeriod' >= inactivityPeriod
  BY DEF TermsStep
<1>1. /\ locks[id] \in LockRecords /\ inactivityPeriod \in Nat /\ LocksAreBacked
  BY LockTypes, PeriodType DEF LockInv, Terms
<1>2. inactivityPeriod' >= inactivityPeriod
  <2>1. CASE \E c \in Callers, n \in 0..(Width - 1) : setInactivityPeriod(c, n)
    BY <1>1, <2>1 DEF setInactivityPeriod, NotShorter
  <2>2. CASE UNCHANGED inactivityPeriod
    BY <1>1, <2>2
  <2> QED
    BY <2>1, <2>2 DEF Next, vars, Tick, Swap, IncreaseObservationCardinality, CreatePool,
       MintByStranger, SendToLock, Donate, registerLock, extend, collect, reclaim
<1>3. locks[id].reclaimed => positions[id].holder = "burned" /\ ~reclaim(id)
  BY <1>1, NothingBlocks DEF LocksAreBacked, reclaim, LockRecords, Origins
<1>4. locks[id].reclaimed => positions'[id] = positions[id]
  BY <1>3, OnlyReclaimDrains
<1>5. CASE locks'[id] = locks[id]
  BY <1>1, <1>2, <1>4, <1>5 DEF ReclaimedWasFinite, LockRecords
<1>6. CASE reclaim(id) /\ locks'[id] = [locks[id] EXCEPT !.reclaimed = TRUE]
  <2>1. locks[id].lockUntil # PERMANENT /\ ~locks[id].reclaimed
    BY <1>6, NothingBlocks DEF reclaim
  <2>2. locks'[id].lockUntil = locks[id].lockUntil
        /\ locks'[id].creatorFeeBps = locks[id].creatorFeeBps
    BY <1>1, <1>6 DEF LockRecords
  <2>3. locks[id].lockUntil >= locks[id].lockUntil
    BY <1>1 DEF LockRecords
  <2> QED
    BY <1>2, <2>1, <2>2, <2>3
<1>7. CASE ~locks[id].reclaimed
           /\ \E e \in Nat : e > locks[id].lockUntil
                             /\ locks'[id] = [locks[id] EXCEPT !.lockUntil = e]
  <2>1. PICK e \in Nat : e > locks[id].lockUntil
                         /\ locks'[id] = [locks[id] EXCEPT !.lockUntil = e]
    BY <1>7
  <2>2. /\ locks'[id].lockUntil = e /\ locks'[id].reclaimed = locks[id].reclaimed
        /\ locks'[id].creatorFeeBps = locks[id].creatorFeeBps
        /\ locks[id].lockUntil \in Nat
    BY <1>1, <2>1 DEF LockRecords
  <2> QED
    BY <1>2, <1>7, <2>1, <2>2
<1> QED
  BY <1>5, <1>6, <1>7, RecordSteps

\* Neither the creator, nor the owner, nor time can make a lock's terms worse
\* than they were: dates and the period only grow, a share is never changed, a
\* permanent lock is never reclaimed and a reclaimed one never touched again.
THEOREM TermsNeverWorsen == Spec => TermsOnlyImprove
<1>1. Init => ReclaimedWasFinite
  BY DEF Init, ReclaimedWasFinite, UnregisteredLock
<1>2. LockInv /\ ReclaimedWasFinite /\ [Next]_vars => ReclaimedWasFinite'
  BY ReclaimedStaysFinite
<1>3. LockInv /\ ReclaimedWasFinite /\ [Next]_vars => [TermsStep]_vars
  BY TermsStepHolds
<1> QED
  BY <1>1, <1>2, <1>3, LockInvHolds, PTL DEF Spec, TermsOnlyImprove

\* The step of a reclaim, in the terms of the property.
LEMMA ReclaimStepHolds ==
    LockInv /\ [Next]_vars => ReclaimStep
<1> SUFFICES ASSUME LockInv, [Next]_vars, NEW id \in Ids,
                    locks'[id].reclaimed, ~locks[id].reclaimed
             PROVE  LET p == locks[id].launchToken
                        held(x) == LET i == IF token0(p) = x THEN 1 ELSE 2
                                   IN  positions[id].principal[i] + positions[id].owed[i]
                    IN  /\ balance'[DEAD][p] = balance[DEAD][p] + held(p)
                        /\ balance'[treasury][weth] = balance[treasury][weth] + held(weth)
                        /\ \A c \in Creators : balance'[c] = balance[c]
  BY DEF ReclaimStep
<1>1. locks[id] \in LockRecords
  BY LockTypes DEF LockInv
<1>2. reclaim(id)
  BY <1>1, RecordSteps DEF LockRecords
<1> DEFINE p == locks[id].launchToken
<1>3. /\ balance'[DEAD][p] = balance[DEAD][p] + HeldIn(id, p, p)
      /\ balance'[treasury][weth] = balance[treasury][weth] + HeldIn(id, p, weth)
      /\ \A a \in Accounts : a # lock /\ a # DEAD /\ a # treasury => balance'[a] = balance[a]
  BY <1>2, ReclaimMoves
<1>4. \A x : HeldIn(id, p, x) =
                LET i == IF token0(p) = x THEN 1 ELSE 2
                IN  positions[id].principal[i] + positions[id].owed[i]
  BY DEF HeldIn, Swept
<1> QED
  BY <1>3, <1>4, AccountsDiffer

\* A reclaim burns all of the launch token a position held, sends the treasury
\* all of its WETH and gives the creators nothing, in either token order.
THEOREM ReclaimDrainsAll == Spec => ReclaimDrainsThePosition
<1>1. LockInv /\ [Next]_vars => [ReclaimStep]_vars
  BY ReclaimStepHolds
<1> QED
  BY <1>1, LockInvHolds, PTL DEF Spec, ReclaimDrainsThePosition

----------------------------------------------------------------------------
(* NoBlocker means it would succeed. *)

\* What reclaim asks for once nothing blocks it: the position is there to be drained,
\* and each of its two transfers is covered by what the lock then holds.
WouldSucceed(id) ==
    LET p == locks[id].launchToken
        amount0 == Swept(id)[1]
        amount1 == Swept(id)[2]
        tokensBurned == IF BurnsToken0(p) THEN amount0 ELSE amount1
        ethAmount == IF BurnsToken0(p) THEN amount1 ELSE amount0
        paidIn == PaidIn(p, amount0, amount1)
    IN  /\ positions[id].holder = "lock" /\ oracle[p].exists
        /\ tokensBurned <= paidIn[lock][p]
        /\ ethAmount <= Pay(lock, paidIn, DEAD, p, tokensBurned)[lock][weth]

LEMMA TransfersAreCovered ==
    ASSUME LockInv, NEW id \in Ids, reclaimBlocker(id) = "NoBlocker"
    PROVE  WouldSucceed(id)
<1> DEFINE p == locks[id].launchToken
           m == Swept(id)[1]
           n == Swept(id)[2]
           burned == IF BurnsToken0(p) THEN m ELSE n
           eth == IF BurnsToken0(p) THEN n ELSE m
           paid == PaidIn(p, m, n)
           first == Pay(lock, paid, DEAD, p, burned)
<1>1. balance \in Balances /\ positions[id] \in Positions
  BY MoneyTypes DEF LockInv
<1>2. p \in LaunchTokens /\ positions[id].holder = "lock" /\ oracle[p].exists
  BY NothingBlocks DEF LockInv, Terms, LocksAreBacked
<1>3. m \in Nat /\ n \in Nat
  BY <1>1, PairParts DEF Swept
<1>4. p \in Assets /\ weth \in Assets /\ p # weth
      /\ (BurnsToken0(p) => token0(p) = p /\ token1(p) = weth)
      /\ (~BurnsToken0(p) => token0(p) = weth /\ token1(p) = p)
  BY <1>2, PoolTokens, AccountsDiffer
<1> HIDE DEF p, m, n
<1>5. burned \in Nat /\ eth \in Nat
  BY <1>3
<1>6. /\ paid \in Balances
      /\ paid[lock][token0(p)] = balance[lock][token0(p)] + m
      /\ paid[lock][token1(p)] = balance[lock][token1(p)] + n
  BY <1>1, <1>2, <1>3, PaidInMoves
<1> HIDE DEF paid
<1>7. /\ paid[lock][p] = balance[lock][p] + burned
      /\ paid[lock][weth] = balance[lock][weth] + eth
  BY <1>4, <1>6
<1>8. balance[lock][p] \in Nat /\ balance[lock][weth] \in Nat
  BY <1>1, <1>4, AccountsDiffer DEF Balances
<1> HIDE DEF burned, eth
<1>9. burned <= paid[lock][p]
  BY <1>5, <1>7, <1>8
<1>10. first[lock][weth] = paid[lock][weth]
  BY <1>4, <1>5, <1>6, <1>9, AccountsDiffer, PayMoves
<1> HIDE DEF first
<1>11. eth <= first[lock][weth]
  BY <1>5, <1>7, <1>8, <1>10
<1> QED BY <1>2, <1>9, <1>11 DEF WouldSucceed, p, m, n, burned, eth, paid, first

\* When the contract says that nothing blocks a reclaim, none of the checks and transfers
\* after it can fail (LPLock.sol's reclaimBlocker and reclaim).
THEOREM NoBlockerIsTheLastCheck ==
    Spec => [](\A id \in Ids : reclaimBlocker(id) = "NoBlocker" => WouldSucceed(id))
<1>1. LockInv => \A id \in Ids : reclaimBlocker(id) = "NoBlocker" => WouldSucceed(id)
  BY TransfersAreCovered
<1> QED
  BY <1>1, LockInvHolds, PTL

----------------------------------------------------------------------------
(* What the token page says of a lock. *)

\* A value that was read is not taken for one that was not.
LEMMA ReadsArrive ==
    /\ \A x : /\ Arrived([amounts |-> x]) /\ Arrived([tokenIsToken0 |-> x])
              /\ Arrived([share |-> x]) /\ Arrived([known |-> x]) /\ Arrived([n |-> x])
    /\ \A x, y, z : Arrived([lockUntil |-> x, permanent |-> y, reclaimed |-> z])
  BY DEF Arrived, UNREAD

\* The number the contract answers names the verdict it means.
LEMMA VerdictIsNamed == \A id \in Ids : Verdict(ValueOf(id)) = reclaimBlocker(id)
<1> SUFFICES ASSUME NEW id \in Ids PROVE Verdict(ValueOf(id)) = reclaimBlocker(id)
  OBVIOUS
<1> DEFINE v == CHOOSE n \in 0..5 : ReclaimBlocker[n + 1] = reclaimBlocker(id)
<1>1. \E n \in 0..5 : ReclaimBlocker[n + 1] = reclaimBlocker(id)
  <2>1. reclaimBlocker(id) \in Blockers
    BY DEF reclaimBlocker, Blockers
  <2>2. /\ ReclaimBlocker[0 + 1] = "NoBlocker" /\ ReclaimBlocker[1 + 1] = "NotALaunchPosition"
        /\ ReclaimBlocker[2 + 1] = "AlreadyReclaimed" /\ ReclaimBlocker[3 + 1] = "PermanentLock"
        /\ ReclaimBlocker[4 + 1] = "NotExpired" /\ ReclaimBlocker[5 + 1] = "PoolActive"
    BY DEF ReclaimBlocker
  <2> QED
    BY <2>1, <2>2 DEF Blockers
<1>2. v \in 0..5 /\ ReclaimBlocker[v + 1] = reclaimBlocker(id)
  BY <1>1
<1> HIDE DEF v
<1>3. v + 1 \in DOMAIN ReclaimBlocker
  BY <1>2 DEF ReclaimBlocker
<1>4. ValueOf(id) = [n |-> v]
  BY DEF ValueOf, v
<1>5. Arrived([n |-> v])
  BY ReadsArrive
<1> QED
  BY <1>2, <1>3, <1>4, <1>5 DEF Verdict, isKnownReclaimBlocker

\* What a card with every read in shows: the row's state and, beside it, a
\* verdict that fits it.
CardsFit ==
    \A id \in Ids : Registered(id) =>
        LET card == LockCardText([known |-> TRUE], TRUE, RowOf(id), now, ValueOf(id))
        IN  card.status = lockState(RowOf(id), now) /\ card.note \in Beside(card.status)

\* A registered lock is reclaimed, permanent, running or past its end, and each
\* of the four has its verdicts.
LEMMA CardsFitTheLock == LockInv => CardsFit
<1> SUFFICES ASSUME LockInv, NEW id \in Ids, Registered(id)
             PROVE  LET card == LockCardText([known |-> TRUE], TRUE, RowOf(id), now, ValueOf(id))
                    IN  card.status = lockState(RowOf(id), now)
                        /\ card.note \in Beside(card.status)
  BY DEF CardsFit
<1> DEFINE row == RowOf(id)
           status == lockState(row, now)
           note == IF status = "reclaimed" THEN "wound up" ELSE reclaimBlocker(id)
<1>1. locks[id] \in LockRecords /\ now \in Nat
  BY LockTypes, OracleTypes DEF LockInv
<1>2. /\ row.lockUntil = locks[id].lockUntil /\ row.reclaimed = locks[id].reclaimed
      /\ row.permanent <=> locks[id].lockUntil = PERMANENT
  BY DEF RowOf
<1>3. LockCardText([known |-> TRUE], TRUE, row, now, ValueOf(id))
        = [status |-> status, note |-> note]
  <2>1. Arrived([known |-> TRUE]) /\ Arrived(row)
    BY ReadsArrive DEF RowOf
  <2> QED
    BY <2>1, VerdictIsNamed DEF LockCardText, LockState
<1> HIDE DEF row
<1>4. note \in Beside(status)
  <2>1. CASE locks[id].reclaimed
    BY <1>2, <2>1 DEF lockState, Beside
  <2>2. CASE ~locks[id].reclaimed /\ locks[id].lockUntil = PERMANENT
    <3>1. status = "permanent"
      BY <1>2, <2>2 DEF lockState
    <3>2. reclaimBlocker(id) = "PermanentLock"
      BY <2>2 DEF reclaimBlocker, Registered
    <3> QED
      BY <3>1, <3>2 DEF Beside
  <2>3. CASE ~locks[id].reclaimed /\ locks[id].lockUntil # PERMANENT /\ now <= locks[id].lockUntil
    <3>1. status = "locked"
      BY <1>2, <2>3 DEF lockState
    <3>2. reclaimBlocker(id) = "NotExpired"
      BY <2>3 DEF reclaimBlocker, Registered
    <3> QED
      BY <3>1, <3>2 DEF Beside
  <2>4. CASE ~locks[id].reclaimed /\ locks[id].lockUntil # PERMANENT /\ ~(now <= locks[id].lockUntil)
    <3>1. status = "expired"
      BY <1>2, <2>4 DEF lockState
    <3>2. reclaimBlocker(id) \in {"PoolActive", "NoBlocker"}
      BY <2>4 DEF reclaimBlocker, Registered
    <3> QED
      BY <3>1, <3>2 DEF Beside
  <2>5. locks[id].reclaimed \in BOOLEAN
    BY <1>1 DEF LockRecords
  <2> HIDE DEF status, note
  <2> QED
    BY <2>1, <2>2, <2>3, <2>4, <2>5, Zenon
<1> HIDE DEF status, note
<1> DEFINE card == LockCardText([known |-> TRUE], TRUE, row, now, ValueOf(id))
<1> HIDE DEF card
<1>5. card.status = status /\ card.note = note
  <2>1. card = [status |-> status, note |-> note]
    BY <1>3 DEF card
  <2> QED
    BY <2>1
<1>6. card.status = lockState(row, now) /\ card.note \in Beside(card.status)
  BY <1>4, <1>5 DEF status
<1> QED
  BY <1>6 DEF row, card

\* What a row that missed a step says of the lock after it.
StaleRowsHold ==
    \A id \in Ids : Registered(id) =>
        LET stale == lockState(RowOf(id), now')
        IN  /\ stale \in {"locked", "permanent"} => (reclaimBlocker(id) # "NoBlocker")'
            /\ stale \in {"permanent", "reclaimed"} => lockState(RowOf(id), now)' = stale

\* Dates only grow, nothing is permanent beyond the sentinel, and a permanent or
\* reclaimed record stays so: a missed step cannot have opened what the row calls
\* closed.
LEMMA StaleRowsStillHold ==
    LockInv /\ LockInv' /\ ReclaimedWasFinite /\ [Next]_vars =>
        StaleRowsHold /\ \A id \in Ids : Registered(id) => Registered(id)'
<1> SUFFICES ASSUME LockInv, LockInv', ReclaimedWasFinite, [Next]_vars,
                    NEW id \in Ids, Registered(id)
             PROVE  LET stale == lockState(RowOf(id), now')
                    IN  /\ stale \in {"locked", "permanent"} =>
                              (reclaimBlocker(id) # "NoBlocker")'
                        /\ stale \in {"permanent", "reclaimed"} =>
                              lockState(RowOf(id), now)' = stale
                        /\ Registered(id)'
  BY DEF StaleRowsHold
<1> DEFINE row == RowOf(id)
           new == [lockUntil |-> locks'[id].lockUntil,
                   permanent |-> locks'[id].lockUntil = PERMANENT,
                   reclaimed |-> locks'[id].reclaimed]
           stale == lockState(row, now')
           fresh == lockState(new, now')
<1>1. /\ locks[id] \in LockRecords /\ locks' \in [Ids -> LockRecords]
      /\ LocksAreBacked' /\ PERMANENT \in Nat /\ now' \in Nat
  BY LockTypes, LockConstants DEF LockInv, Terms, PERMANENT, TypeOK, LockRecords
<1>2. locks'[id].origin = "Launch"
  BY <1>1, RecordSteps DEF LockRecords, Registered
<1>3. /\ locks'[id].lockUntil >= locks[id].lockUntil
      /\ locks[id].lockUntil = PERMANENT => ~locks'[id].reclaimed
      /\ locks[id].reclaimed => locks'[id] = locks[id]
  BY TermsStepHolds DEF TermsStep, Registered
<1>4. locks'[id].lockUntil <= PERMANENT
  BY <1>1, <1>2 DEF LocksAreBacked, PERMANENT
<1>5. /\ row.lockUntil = locks[id].lockUntil /\ row.reclaimed = locks[id].reclaimed
      /\ row.permanent <=> locks[id].lockUntil = PERMANENT
      /\ new.lockUntil = locks'[id].lockUntil /\ new.reclaimed = locks'[id].reclaimed
      /\ new.permanent <=> locks'[id].lockUntil = PERMANENT
  BY DEF RowOf
<1>6. RowOf(id)' = new
  BY DEF RowOf, PERMANENT
<1> HIDE DEF row, new
<1>7. stale = "permanent" => locks'[id].lockUntil = PERMANENT /\ ~locks'[id].reclaimed
  BY <1>1, <1>3, <1>4, <1>5 DEF lockState, LockRecords
<1>8. stale = "locked" => now' <= locks'[id].lockUntil
  BY <1>1, <1>3, <1>5 DEF lockState, LockRecords
<1>9. stale = "reclaimed" => locks'[id].reclaimed
  BY <1>3, <1>5 DEF lockState
<1>10. stale \in {"locked", "permanent"} => reclaimBlocker(id)' # "NoBlocker"
  BY <1>7, <1>8 DEF reclaimBlocker, PERMANENT
<1>11. stale \in {"permanent", "reclaimed"} => fresh = stale
  BY <1>5, <1>7, <1>9 DEF lockState, PERMANENT
<1>12. lockState(RowOf(id), now)' = fresh
  BY <1>6 DEF lockState, PERMANENT
<1> QED
  BY <1>2, <1>10, <1>11, <1>12 DEF row, Registered

\* A collection would pay the shares the card shows, whichever token the pool
\* lists first.
FeesFit ==
    \A id \in Ids : Registered(id) =>
        LET L == locks[id].launchToken
            c == creatorOf[L]
        IN  /\ FeesOf(id).creatorToken = Brings(id, c, L)
            /\ FeesOf(id).creatorWeth = Brings(id, c, weth)
            /\ FeesOf(id).treasuryToken = Brings(id, treasury, L)
            /\ FeesOf(id).treasuryWeth = Brings(id, treasury, weth)

\* Both token orders: what the page splits by asset, the lock splits by the
\* pool's side.
LEMMA FeesFitTheLock == LockInv => FeesFit
<1> SUFFICES ASSUME LockInv, NEW id \in Ids, Registered(id)
             PROVE  LET L == locks[id].launchToken
                        c == creatorOf[L]
                    IN  /\ FeesOf(id).creatorToken = Brings(id, c, L)
                        /\ FeesOf(id).creatorWeth = Brings(id, c, weth)
                        /\ FeesOf(id).treasuryToken = Brings(id, treasury, L)
                        /\ FeesOf(id).treasuryWeth = Brings(id, treasury, weth)
  BY DEF FeesFit
<1> DEFINE L == locks[id].launchToken
           c == creatorOf[L]
           s == token0(L)
           t == token1(L)
           m == positions[id].owed[1]
           n == positions[id].owed[2]
           paid == PaidIn(L, m, n)
           first == PayOut(id, paid, s, m)
           second == PayOut(id, first, t, n)
           mine(x) == CreatorPart(id, x)
           gain(a, x) == second[a][x] - balance[a][x]
<1>1. /\ TypeOK /\ LocksAreBacked /\ balance \in Balances
      /\ locks[id].origin = "Launch" /\ L \in LaunchTokens /\ positions[id].pool = L
      /\ c \in Creators /\ CreatorOfLock(id) = c
  BY MoneyTypes, LockTypes DEF LockInv, Terms, LocksAreBacked, Registered, CreatorOfLock
<1>2. m \in Nat /\ n \in Nat
  BY MoneyTypes, PairParts DEF LockInv
<1>3. /\ s \in Assets /\ t \in Assets /\ s # t
      /\ s = L => t = weth
      /\ s # L => s = weth /\ t = L
      /\ BurnsToken0(L) <=> s = L
  BY <1>1, PoolTokens
<1>4. \A a \in Accounts, x \in Assets : Brings(id, a, x) = gain(a, x)
  BY <1>1 DEF Brings
<1>5. /\ mine(m) \in 0..m /\ mine(n) \in 0..n
      /\ mine(m) = BpsOf(m, locks[id].creatorFeeBps, MAX_CREATOR_FEE_BPS)
      /\ mine(n) = BpsOf(n, locks[id].creatorFeeBps, MAX_CREATOR_FEE_BPS)
  BY <1>1, <1>2, PartBounds DEF CreatorPart
<1>6. /\ FeesOf(id).creatorToken = mine(IF s = L THEN m ELSE n)
      /\ FeesOf(id).creatorWeth = mine(IF s = L THEN n ELSE m)
      /\ FeesOf(id).treasuryToken = (IF s = L THEN m - mine(m) ELSE n - mine(n))
      /\ FeesOf(id).treasuryWeth = (IF s = L THEN n - mine(n) ELSE m - mine(m))
  <2> DEFINE byAsset == byPoolOrder(m, n, BurnsToken0(L))
  <2>1. FeesOf(id) = splitCreatorFees(byAsset.token, byAsset.weth, locks[id].creatorFeeBps)
    BY ReadsArrive DEF FeesOf, ClaimableFees, OrderOf
  <2>2. /\ byAsset.token = (IF s = L THEN m ELSE n)
        /\ byAsset.weth = (IF s = L THEN n ELSE m)
    BY <1>3 DEF byPoolOrder
  <2> HIDE DEF byAsset, m, n, s, L
  <2>3. CASE s = L
    BY <1>5, <2>1, <2>2, <2>3 DEF splitCreatorFees
  <2>4. CASE s # L
    BY <1>5, <2>1, <2>2, <2>4 DEF splitCreatorFees
  <2> QED
    BY <2>3, <2>4
<1> HIDE DEF m, n
<1>7. /\ paid \in Balances
      /\ paid[lock][s] = balance[lock][s] + m
      /\ paid[lock][t] = balance[lock][t] + n
      /\ \A a \in Accounts : a # lock => paid[a] = balance[a]
  BY <1>1, <1>2, PaidInMoves
<1> HIDE DEF L, c, s, t, paid
<1>8. /\ balance[lock][s] \in Nat /\ balance[lock][t] \in Nat
      /\ c \in Accounts /\ c # lock /\ c # treasury
      /\ \A a \in Accounts : balance[a][s] \in Nat /\ balance[a][t] \in Nat
  BY <1>1, <1>3, AccountsDiffer DEF Balances
<1>9. /\ first \in Balances
      /\ first[treasury][s] = paid[treasury][s] + (m - mine(m))
      /\ first[c][s] = paid[c][s] + mine(m)
      /\ \A a \in Accounts, y \in Assets : y # s => first[a][y] = paid[a][y]
  <2>1. m <= paid[lock][s]
    BY <1>2, <1>7, <1>8
  <2> QED
    BY <1>1, <1>2, <1>3, <1>7, <2>1, PayOutMoves
<1> HIDE DEF first
<1>10. /\ second[treasury][t] = first[treasury][t] + (n - mine(n))
       /\ second[c][t] = first[c][t] + mine(n)
       /\ \A a \in Accounts, y \in Assets : y # t => second[a][y] = first[a][y]
  <2>1. n <= first[lock][t]
    BY <1>2, <1>3, <1>7, <1>8, <1>9, AccountsDiffer
  <2> QED
    BY <1>1, <1>2, <1>3, <1>9, <2>1, PayOutMoves
<1> HIDE DEF second, mine
<1>11. /\ second[c][s] = balance[c][s] + mine(m)
       /\ second[c][t] = balance[c][t] + mine(n)
       /\ second[treasury][s] = balance[treasury][s] + (m - mine(m))
       /\ second[treasury][t] = balance[treasury][t] + (n - mine(n))
  BY <1>3, <1>7, <1>8, <1>9, <1>10, AccountsDiffer
<1>12. /\ gain(c, s) = mine(m) /\ gain(c, t) = mine(n)
       /\ gain(treasury, s) = m - mine(m) /\ gain(treasury, t) = n - mine(n)
  BY <1>2, <1>5, <1>8, <1>11, AccountsDiffer
<1> HIDE DEF gain
<1>13. /\ FeesOf(id).creatorToken = gain(c, L)
       /\ FeesOf(id).creatorWeth = gain(c, weth)
       /\ FeesOf(id).treasuryToken = gain(treasury, L)
       /\ FeesOf(id).treasuryWeth = gain(treasury, weth)
  <2>1. CASE s = L
    BY <1>3, <1>6, <1>12, <2>1
  <2>2. CASE s # L
    BY <1>3, <1>6, <1>12, <2>2
  <2> QED
    BY <2>1, <2>2
<1>14. L \in Assets /\ weth \in Assets /\ treasury \in Accounts
  BY <1>3, AccountsDiffer
<1> QED
  BY <1>4, <1>8, <1>13, <1>14 DEF L, c

\* The three together.
LEMMA CardStepHolds ==
    LockInv /\ LockInv' /\ ReclaimedWasFinite /\ CardsFit' /\ [Next]_vars => CardStep
<1> SUFFICES ASSUME LockInv, LockInv', ReclaimedWasFinite, CardsFit', [Next]_vars,
                    NEW id \in Ids, Registered(id)
             PROVE  LET row == RowOf(id)
                        card == LockCardText([known |-> TRUE], TRUE, row, now, ValueOf(id))'
                        stale == lockState(row, now')
                    IN /\ stale \in {"locked", "permanent"} => (reclaimBlocker(id) # "NoBlocker")'
                       /\ stale \in {"permanent", "reclaimed"} => card.status = stale
                       /\ card.note \in Beside(card.status)
                       /\ FeesShown(row, TRUE, FeesOf(id)) = "amounts" =>
                            LET L == locks[id].launchToken
                                c == creatorOf[L]
                            IN /\ FeesOf(id).creatorToken = Brings(id, c, L)
                               /\ FeesOf(id).creatorWeth = Brings(id, c, weth)
                               /\ FeesOf(id).treasuryToken = Brings(id, treasury, L)
                               /\ FeesOf(id).treasuryWeth = Brings(id, treasury, weth)
  BY DEF CardStep
<1> QED
  BY StaleRowsStillHold, FeesFitTheLock DEF StaleRowsHold, FeesFit, CardsFit

\* The token page tells the truth of every launch's lock: the verdict shown fits
\* the status beside it, a row one change old never calls locked what can be
\* reclaimed nor takes back an end it named, and the shares shown as waiting are
\* what a collection would pay, in either token order.
THEOREM CardsAgree == Spec => CardsTellTheLock
<1>1. Init => ReclaimedWasFinite
  BY DEF Init, ReclaimedWasFinite, UnregisteredLock
<1>2. LockInv /\ ReclaimedWasFinite /\ [Next]_vars => ReclaimedWasFinite'
  BY ReclaimedStaysFinite
<1>3. LockInv => CardsFit
  BY CardsFitTheLock
<1>4. LockInv /\ LockInv' /\ ReclaimedWasFinite /\ CardsFit' /\ [Next]_vars => [CardStep]_vars
  BY CardStepHolds
<1> QED
  BY <1>1, <1>2, <1>3, <1>4, LockInvHolds, PTL DEF Spec, CardsTellTheLock
=============================================================================
