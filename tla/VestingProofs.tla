---------------------------- MODULE VestingProofs ----------------------------
(***************************************************************************)
(* DevVesting's properties for any tokens, amounts, windows and clock.     *)
(*                                                                         *)
(* The inductive invariant adds to the properties what makes the schedule  *)
(* well defined (a grant has a positive window, a graduation is not in the *)
(* future) and the one fact everything hangs on: what was claimed is at    *)
(* most what has vested, and what has vested never shrinks.                *)
(***************************************************************************)
EXTENDS VestingCard, CurveMathProofs

WellFormed ==
    \A t \in Tokens :
        /\ grants[t].total # 0 => /\ grants[t].duration > 0
                                  /\ grants[t].creator \in Creators
        /\ grants[t].total = 0 => grants[t].claimed = 0
        /\ graduatedAt[t] <= now

ClaimedWithinVested == \A t \in Tokens : grants[t].claimed <= vestedAmount(t)

Inv ==
    /\ TypeOK
    /\ now > 0
    /\ WellFormed
    /\ ClaimedWithinVested
    /\ VaultCoversGrants
    /\ OnlyTheCreatorIsPaid

\* The range of the schedule, and its slope.
VestedBound(t) ==
    /\ vestedAmount(t) \in Nat
    /\ vestedAmount(t) <= grants[t].total
    /\ graduatedAt[t] = 0 => vestedAmount(t) = 0
    /\ graduatedAt[t] # 0 =>
         vestedAmount(t) * grants[t].duration <= grants[t].total * Elapsed(t)

VestedBounded == \A t \in Tokens : VestedBound(t)

LEMMA VestedBounds == TypeOK /\ WellFormed => VestedBounded
<1> SUFFICES ASSUME TypeOK, WellFormed, NEW t \in Tokens PROVE VestedBound(t)
  BY DEF VestedBounded
<1> USE DEF VestedBound
<1> DEFINE g == grants[t]
           e == Elapsed(t)
<1>1. g \in Grant /\ g.total \in Nat /\ g.duration \in Nat
  BY DEF TypeOK, Grant
<1>2. e \in Nat
  BY DEF TypeOK, WellFormed, Elapsed, vestingStart
<1>3. CASE g.total = 0 \/ vestingStart(t) = 0
  <2>1. vestedAmount(t) = 0
    BY <1>3 DEF vestedAmount
  <2>2. g.total * e >= 0 /\ 0 * g.duration = 0
    BY <1>1, <1>2, SMT
  <2> QED BY <1>1, <2>1, <2>2
<1>4. CASE g.total # 0 /\ vestingStart(t) # 0 /\ e >= g.duration
  <2>1. vestedAmount(t) = g.total
    BY <1>4 DEF vestedAmount
  <2>2. g.total * g.duration <= g.total * e
    BY <1>1, <1>2, <1>4, MulMono, SMT
  <2> QED BY <1>1, <1>4, <2>1, <2>2 DEF vestingStart
<1>5. CASE g.total # 0 /\ vestingStart(t) # 0 /\ e < g.duration
  <2>1. vestedAmount(t) = (g.total * e) \div g.duration
    BY <1>1, <1>2, <1>5 DEF vestedAmount
  <2>2. g.total * e \in Nat
    BY <1>1, <1>2, SMT
  <2>3. /\ vestedAmount(t) \in Nat
        /\ vestedAmount(t) * g.duration <= g.total * e
    BY <1>1, <1>5, <2>1, <2>2, DivBounds DEF WellFormed
  <2>4. vestedAmount(t) <= g.total
    <3>1. g.total * e <= g.total * g.duration
      BY <1>1, <1>2, <1>5, MulMono, SMT
    <3>2. vestedAmount(t) * g.duration <= g.total * g.duration
      BY <1>1, <1>2, <2>2, <2>3, <3>1, SMT
    <3>3. SUFFICES ASSUME g.total < vestedAmount(t) PROVE FALSE
      BY <1>1, <2>3
    <3>4. g.total * g.duration < vestedAmount(t) * g.duration
      BY <1>1, <1>5, <2>3, <3>3, MulStrict DEF WellFormed
    <3> QED BY <1>1, <2>3, <3>2, <3>4, SMT
  <2> QED BY <1>5, <2>3, <2>4 DEF vestingStart
<1> QED
  BY <1>1, <1>2, <1>3, <1>4, <1>5

\* What has vested never shrinks while the terms stay and time does not run
\* back: the one place where a step's clock and a grant meet.
LEMMA VestedMonotone ==
    ASSUME TypeOK, WellFormed, NEW t \in Tokens, now' \in Nat, now <= now',
           grants'[t].total = grants[t].total,
           grants'[t].duration = grants[t].duration,
           graduatedAt[t] # 0 => graduatedAt'[t] = graduatedAt[t],
           graduatedAt'[t] \in Nat, graduatedAt'[t] <= now'
    PROVE  vestedAmount(t) <= vestedAmount(t)'
<1> DEFINE g == grants[t]
           h == grants'[t]
           e == now - graduatedAt[t]
           f == now' - graduatedAt'[t]
<1>1. /\ g \in Grant /\ g.total \in Nat /\ g.duration \in Nat
      /\ now \in Nat /\ graduatedAt[t] \in Nat /\ graduatedAt[t] <= now
  BY DEF TypeOK, Grant, WellFormed
<1>2. vestedAmount(t)' = IF h.total = 0 \/ graduatedAt'[t] = 0 THEN 0
                         ELSE IF f >= h.duration THEN h.total
                         ELSE (h.total * f) \div h.duration
  BY DEF vestedAmount, vestingStart, Elapsed
<1>3. vestedAmount(t) = IF g.total = 0 \/ graduatedAt[t] = 0 THEN 0
                        ELSE IF e >= g.duration THEN g.total
                        ELSE (g.total * e) \div g.duration
  BY DEF vestedAmount, vestingStart, Elapsed
<1>4. CASE g.total = 0 \/ graduatedAt[t] = 0
  <2>1. vestedAmount(t) = 0
    BY <1>3, <1>4
  <2>2. CASE h.total = 0 \/ graduatedAt'[t] = 0
    BY <1>2, <2>1, <2>2
  <2>3. CASE h.total # 0 /\ graduatedAt'[t] # 0 /\ f >= h.duration
    BY <1>1, <1>2, <2>1, <2>3
  <2>4. CASE h.total # 0 /\ graduatedAt'[t] # 0 /\ f < h.duration
    <3>1. f \in Nat /\ h.total * f \in Nat /\ h.duration > 0
      BY <1>1, <2>4, SMT DEF WellFormed
    <3>2. (h.total * f) \div h.duration \in Nat
      BY <1>1, <3>1, DivBounds
    <3> QED BY <1>1, <1>2, <2>1, <2>4, <3>1, <3>2
  <2> QED BY <1>1, <2>2, <2>3, <2>4
<1>5. CASE g.total # 0 /\ graduatedAt[t] # 0
  <2>1. /\ g.duration > 0 /\ graduatedAt'[t] = graduatedAt[t]
        /\ e \in Nat /\ f \in Nat /\ e <= f
    BY <1>1, <1>5 DEF WellFormed
  <2>2. CASE f >= g.duration
    <3>1. vestedAmount(t)' = g.total
      BY <1>2, <1>5, <2>1, <2>2
    <3> QED BY <3>1, VestedBounds DEF VestedBounded, VestedBound
  <2>3. CASE f < g.duration
    <3>1. /\ vestedAmount(t) = (g.total * e) \div g.duration
          /\ vestedAmount(t)' = (g.total * f) \div g.duration
      BY <1>1, <1>2, <1>3, <1>5, <2>1, <2>3
    <3>2. g.total * e \in Nat /\ g.total * f \in Nat
          /\ g.total * e <= g.total * f
      BY <1>1, <2>1, MulMono, SMT
    <3> QED BY <1>1, <2>1, <3>1, <3>2, DivMono
  <2> QED BY <1>1, <2>1, <2>2, <2>3
<1> QED
  BY <1>4, <1>5

----------------------------------------------------------------------------
LEMMA InitInv == Init => Inv
<1> SUFFICES ASSUME Init PROVE Inv
  OBVIOUS
<1>1. TypeOK /\ now > 0 /\ WellFormed
  BY VestingConstants DEF Init, TypeOK, Grant, ZeroGrant, WellFormed
<1>2. \A t \in Tokens : vestedAmount(t) = 0
  BY DEF Init, ZeroGrant, vestedAmount
<1>3. ClaimedWithinVested
  BY <1>2 DEF Init, ZeroGrant, ClaimedWithinVested
<1>4. VaultCoversGrants
  BY DEF Init, ZeroGrant, VaultCoversGrants
<1>5. OnlyTheCreatorIsPaid
  BY DEF Init, ZeroGrant, OnlyTheCreatorIsPaid
<1> QED
  BY <1>1, <1>3, <1>4, <1>5 DEF Inv

LEMMA RegisterGrantPreserves ==
    ASSUME Inv, NEW a \in Callers, NEW s \in Tokens, NEW c \in Creators,
           NEW x \in Amounts, NEW d \in Durations, RegisterGrant(a, s, c, x, d)
    PROVE  Inv'
<1> USE DEF Inv
<1>1. x \in Nat /\ d \in Nat /\ d > 0 /\ x > 0 /\ a = launchpad
  BY VestingConstants DEF IsGrant, RegisterGrant, OnlyLaunchpad
<1>2. /\ grants[s].total = 0 /\ grants[s].claimed = 0 /\ graduatedAt[s] = 0
      /\ grants[s] \in Grant
  BY <1>1 DEF IsGrant, RegisterGrant, NotGranted, WellFormed, TypeOK
<1>3. /\ grants'[s] = [creator |-> c, duration |-> d, total |-> x, claimed |-> 0]
      /\ \A t \in Tokens \ {s} : grants'[t] = grants[t]
      /\ UNCHANGED <<graduatedAt, now, received, donated>>
  BY <1>2 DEF IsGrant, RegisterGrant, TypeOK, Grant
<1>4. TypeOK'
  <2>1. grants' \in [Tokens -> Grant]
    <3> DEFINE g == [creator |-> c, duration |-> d, total |-> x, claimed |-> 0]
    <3>1. g \in Grant
      BY <1>1, <1>2 DEF IsGrant, RegisterGrant, Grant
    <3>2. grants' = [grants EXCEPT ![s] = g] /\ grants \in [Tokens -> Grant]
      BY <1>2 DEF IsGrant, RegisterGrant, TypeOK, Grant
    <3> HIDE DEF g
    <3> QED BY <3>1, <3>2
  <2>2. vault' \in [Tokens -> Nat]
    BY <1>1 DEF IsGrant, RegisterGrant, TypeOK
  <2> QED BY <1>3, <2>1, <2>2 DEF TypeOK
<1>5. WellFormed'
  BY <1>1, <1>2, <1>3 DEF WellFormed
<1>6. ClaimedWithinVested'
  <2> SUFFICES ASSUME NEW t \in Tokens
               PROVE  grants'[t].claimed <= vestedAmount(t)'
    BY DEF ClaimedWithinVested
  <2>1. CASE t = s
    BY <1>2, <1>3, <2>1 DEF vestedAmount, vestingStart
  <2>2. CASE t # s
    BY <1>3, <2>2 DEF ClaimedWithinVested, vestedAmount, vestingStart, Elapsed
  <2> QED BY <2>1, <2>2
<1>7. VaultCoversGrants'
  BY <1>1, <1>2, <1>3 DEF IsGrant, RegisterGrant, VaultCoversGrants, TypeOK
<1>8. OnlyTheCreatorIsPaid'
  BY <1>2, <1>3 DEF OnlyTheCreatorIsPaid
<1> QED
  BY <1>3, <1>4, <1>5, <1>6, <1>7, <1>8

LEMMA ClaimPreserves ==
    ASSUME Inv, NEW s \in Tokens, NEW b \in Callers \cup Creators, Claim(b, s)
    PROVE  Inv'
<1> USE DEF Inv
<1> DEFINE g == grants[s]
           x == claimable(s)
<1>1. /\ g \in Grant /\ g.claimed \in Nat /\ g.total \in Nat /\ g.total # 0
      /\ vestedAmount(s) \in Nat /\ vestedAmount(s) <= g.total
      /\ x \in Nat /\ x = vestedAmount(s) - g.claimed
  BY VestedBounds DEF beneficiary, Claim, TypeOK, Grant, claimable, VestedBounded, VestedBound
<1>2. /\ grants'[s] = [g EXCEPT !.claimed = g.claimed + x]
      /\ grants'[s].claimed = vestedAmount(s)
      /\ \A t \in Tokens \ {s} : grants'[t] = grants[t]
      /\ UNCHANGED <<graduatedAt, now, donated>>
  BY <1>1 DEF beneficiary, Claim, TypeOK, Grant
<1>3. TypeOK'
  <2>1. grants' \in [Tokens -> Grant]
    <3>1. [g EXCEPT !.claimed = g.claimed + x] \in Grant
      BY <1>1 DEF Grant
    <3>2. grants' = [grants EXCEPT ![s] = [g EXCEPT !.claimed = g.claimed + x]]
      BY Zenon DEF beneficiary, Claim
    <3> QED BY <3>1, <3>2 DEF TypeOK
  <2>2. vault' \in [Tokens -> Nat]
    <3>1. vault[s] - x \in Nat
      BY <1>1 DEF beneficiary, Claim, TypeOK
    <3>2. vault' = [vault EXCEPT ![s] = vault[s] - x]
      BY DEF beneficiary, Claim
    <3> QED BY <3>1, <3>2 DEF TypeOK
  <2>3. received' \in [Tokens -> [Creators -> Nat]]
    <3>1. [received[s] EXCEPT ![g.creator] = received[s][g.creator] + x]
             \in [Creators -> Nat]
      BY <1>1 DEF TypeOK, WellFormed
    <3>2. received' = [received EXCEPT ![s] =
             [received[s] EXCEPT ![g.creator] = received[s][g.creator] + x]]
      BY Zenon DEF beneficiary, Claim
    <3> QED BY <3>1, <3>2 DEF TypeOK
  <2> QED BY <1>2, <2>1, <2>2, <2>3 DEF TypeOK
<1>4. WellFormed'
  BY <1>1, <1>2 DEF WellFormed, Grant
<1>5. \A t \in Tokens : vestedAmount(t)' = vestedAmount(t)
  BY <1>1, <1>2 DEF vestedAmount, vestingStart, Elapsed, Grant
<1>6. ClaimedWithinVested'
  <2> SUFFICES ASSUME NEW t \in Tokens
               PROVE  grants'[t].claimed <= vestedAmount(t)'
    BY DEF ClaimedWithinVested
  <2>1. CASE t = s
    <3>1. vestedAmount(t)' = vestedAmount(t) /\ grants'[t].claimed = vestedAmount(t)
      BY <1>2, <1>5, <2>1
    <3> QED BY <1>1, <2>1, <3>1
  <2>2. CASE t # s
    BY <1>2, <1>5, <2>2 DEF ClaimedWithinVested
  <2> QED BY <2>1, <2>2
<1>7. VaultCoversGrants'
  BY <1>1, <1>2 DEF beneficiary, Claim, VaultCoversGrants, TypeOK, Grant
<1>8. OnlyTheCreatorIsPaid'
  <2> SUFFICES ASSUME NEW t \in Tokens, NEW c \in Creators
               PROVE  received'[t][c] = IF c = grants'[t].creator
                                        THEN grants'[t].claimed ELSE 0
    BY DEF OnlyTheCreatorIsPaid
  <2>1. CASE t # s
    BY <1>2, <2>1 DEF beneficiary, Claim, OnlyTheCreatorIsPaid, TypeOK
  <2>2. CASE t = s
    BY <1>1, <1>2, <2>2 DEF beneficiary, Claim, OnlyTheCreatorIsPaid, TypeOK, Grant
  <2> QED BY <2>1, <2>2
<1> QED
  BY <1>2, <1>3, <1>4, <1>6, <1>7, <1>8

\* Graduate, Donate and Tick leave the grants alone: time may only add to
\* what has vested.
LEMMA ClockPreserves ==
    ASSUME Inv, UNCHANGED <<grants, received>>, TypeOK', WellFormed', now <= now',
           VaultCoversGrants',
           \A t \in Tokens : graduatedAt[t] # 0 => graduatedAt'[t] = graduatedAt[t]
    PROVE  Inv'
<1> USE DEF Inv
<1>1. now \in Nat /\ now' \in Nat
  BY DEF TypeOK
<1>2. ClaimedWithinVested'
  <2> SUFFICES ASSUME NEW t \in Tokens
               PROVE  grants'[t].claimed <= vestedAmount(t)'
    BY DEF ClaimedWithinVested
  <2>1. graduatedAt'[t] \in Nat /\ graduatedAt'[t] <= now'
    BY DEF TypeOK, WellFormed
  <2>2. vestedAmount(t) <= vestedAmount(t)'
    BY <1>1, <2>1, VestedMonotone
  <2>3. /\ vestedAmount(t) \in Nat /\ vestedAmount(t)' \in Nat
        /\ grants[t].claimed \in Nat
    <3>1. vestedAmount(t) \in Nat
      BY VestedBounds DEF VestedBounded, VestedBound
    <3>2. VestedBounded'
      BY VestedBounds, PTL
    <3>3. vestedAmount(t)' \in Nat
      BY <3>2 DEF VestedBounded, VestedBound
    <3> QED BY <3>1, <3>3 DEF TypeOK, Grant
  <2> QED BY <2>2, <2>3 DEF ClaimedWithinVested
<1>3. OnlyTheCreatorIsPaid'
  BY DEF OnlyTheCreatorIsPaid
<1> QED
  BY <1>1, <1>2, <1>3

LEMMA StepInv == Inv /\ [Next]_vars => Inv'
<1> SUFFICES ASSUME Inv, [Next]_vars PROVE Inv'
  OBVIOUS
<1>1. CASE UNCHANGED vars
  BY <1>1 DEF vars, Inv, TypeOK, WellFormed, ClaimedWithinVested, vestedAmount,
              vestingStart, Elapsed, VaultCoversGrants, OnlyTheCreatorIsPaid
<1>2. ASSUME NEW t \in Tokens, NEW a \in Callers, NEW c \in Creators,
             NEW x \in Amounts, NEW d \in Durations, RegisterGrant(a, t, c, x, d)
      PROVE  Inv'
  BY <1>2, RegisterGrantPreserves
<1>3. ASSUME NEW t \in Tokens, NEW b \in Callers \cup Creators, Claim(b, t) PROVE Inv'
  BY <1>3, ClaimPreserves
<1>4. ASSUME NEW t \in Tokens, Graduate(t) PROVE Inv'
  <2>1. TypeOK' /\ WellFormed' /\ VaultCoversGrants' /\ now <= now'
    BY <1>4 DEF Inv, Graduate, TypeOK, WellFormed, VaultCoversGrants
  <2>2. \A u \in Tokens : graduatedAt[u] # 0 => graduatedAt'[u] = graduatedAt[u]
    BY <1>4 DEF Inv, Graduate, TypeOK
  <2> QED BY <1>4, <2>1, <2>2, ClockPreserves DEF Graduate
<1>5. ASSUME NEW t \in Tokens, Donate(t) PROVE Inv'
  <2>1. TypeOK' /\ WellFormed' /\ VaultCoversGrants' /\ now <= now'
    BY <1>5 DEF Inv, Donate, TypeOK, Grant, WellFormed, VaultCoversGrants
  <2> QED BY <1>5, <2>1, ClockPreserves DEF Donate
<1>6. CASE Tick
  <2>1. TypeOK' /\ WellFormed' /\ VaultCoversGrants' /\ now <= now'
    BY <1>6 DEF Inv, Tick, TypeOK, WellFormed, VaultCoversGrants
  <2> QED BY <1>6, <2>1, ClockPreserves DEF Tick
<1> QED
  BY <1>1, <1>2, <1>3, <1>4, <1>5, <1>6 DEF Next

LEMMA InvHolds == Spec => []Inv
  BY InitInv, StepInv, PTL DEF Spec
----------------------------------------------------------------------------
\* Types (TypeOK): balances and clocks stay natural numbers.
THEOREM TypeCorrect == Spec => []TypeOK
  BY InvHolds, PTL DEF Inv

\* The vault always holds, token by token, all it still owes.
THEOREM VaultIsSolvent == Spec => []VaultCoversGrants
  BY InvHolds, PTL DEF Inv

\* A token's releases reach its creator and nobody else.
THEOREM CreatorOnly == Spec => []OnlyTheCreatorIsPaid
  BY InvHolds, PTL DEF Inv

\* claimable never underflows: no history of claims bricks a grant.
LEMMA ClaimableSafe ==
    ASSUME Inv, NEW t \in Tokens
    PROVE  0 <= claimable(t) /\ vestedAmount(t) <= grants[t].total
<1>1. VestedBound(t) /\ grants[t].claimed \in Nat
  BY VestedBounds DEF Inv, TypeOK, Grant, VestedBounded
<1> QED BY <1>1 DEF Inv, ClaimedWithinVested, claimable, VestedBound

\* Nothing before graduation, and never ahead of the straight line after it.
THEOREM LineIsNeverCrossed == Spec => []NeverAheadOfTheLine
<1>1. Inv => NeverAheadOfTheLine
  <2> SUFFICES ASSUME Inv, NEW t \in Tokens
               PROVE  /\ graduatedAt[t] = 0 => grants[t].claimed = 0
                      /\ graduatedAt[t] # 0 =>
                           grants[t].claimed * grants[t].duration
                             <= grants[t].total * Elapsed(t)
    BY DEF NeverAheadOfTheLine
  <2>1. /\ VestedBound(t) /\ grants[t].claimed <= vestedAmount(t)
        /\ grants[t].claimed \in Nat /\ grants[t].duration \in Nat
        /\ grants[t].total \in Nat /\ Elapsed(t) \in Nat
    BY VestedBounds DEF Inv, TypeOK, Grant, ClaimedWithinVested, WellFormed,
                        Elapsed, vestingStart, VestedBounded
  <2>2. CASE graduatedAt[t] = 0
    BY <2>1, <2>2 DEF VestedBound
  <2>3. CASE graduatedAt[t] # 0
    <3>1. grants[t].claimed * grants[t].duration
            <= vestedAmount(t) * grants[t].duration
      BY <2>1, MulMono DEF VestedBound
    <3>2. vestedAmount(t) * grants[t].duration <= grants[t].total * Elapsed(t)
      BY <2>1, <2>3 DEF VestedBound
    <3>3. vestedAmount(t) \in Nat
      BY <2>1 DEF VestedBound
    <3> HIDE DEF VestedBound
    <3> QED BY <2>1, <2>3, <3>1, <3>2, <3>3, SMT
  <2> QED BY <2>2, <2>3
<1> QED
  BY <1>1, InvHolds, PTL

\* No history of claims bricks a grant, and once the window is over what is left
\* can be claimed to the last wei.
THEOREM EverythingVests == Spec => []NothingStranded
<1>1. Inv => NothingStranded
  BY ClaimableSafe DEF Inv, TypeOK, Grant, WellFormed, NothingStranded, claimable, vestedAmount,
         vestingStart, Elapsed
<1> QED
  BY <1>1, InvHolds, PTL

\* Time does not run back and a date of graduation stays; what has been claimed
\* stays claimed.
LEMMA Forward ==
    ASSUME Inv, Inv', [Next]_vars, NEW t \in Tokens
    PROVE  /\ now <= now'
           /\ graduatedAt[t] # 0 => graduatedAt'[t] = graduatedAt[t]
           /\ grants[t].claimed <= grants'[t].claimed
<1>1. /\ TypeOK /\ WellFormed /\ now \in Nat /\ now' \in Nat
      /\ graduatedAt'[t] \in Nat /\ graduatedAt'[t] <= now'
  BY DEF Inv, TypeOK, WellFormed
<1> DEFINE Later == /\ now <= now'
                    /\ graduatedAt[t] # 0 => graduatedAt'[t] = graduatedAt[t]
<1>2. Later
  <2>1. ASSUME NEW s \in Tokens, Graduate(s) PROVE Later
    BY <1>1, <2>1 DEF Graduate, TypeOK
  <2>2. CASE Tick
    BY <1>1, <2>2 DEF Tick
  <2>3. ASSUME now' = now /\ graduatedAt' = graduatedAt PROVE Later
    BY <1>1, <2>3
  <2>4. ASSUME NEW s \in Tokens, NEW a \in Callers, NEW c \in Creators,
               NEW x \in Amounts, NEW d \in Durations, RegisterGrant(a, s, c, x, d)
        PROVE  Later
    BY <2>3, <2>4, Zenon DEF IsGrant, RegisterGrant
  <2>5. ASSUME NEW s \in Tokens, NEW b \in Callers \cup Creators, Claim(b, s)
        PROVE  Later
    BY <2>3, <2>5, Zenon DEF Claim
  <2>7. ASSUME NEW s \in Tokens, Donate(s) PROVE Later
    BY <2>3, <2>7, Zenon DEF Donate
  <2>6. CASE UNCHANGED vars
    BY <2>3, <2>6 DEF vars
  <2> HIDE DEF Later
  <2> QED
    BY <2>1, <2>2, <2>4, <2>5, <2>6, <2>7, Zenon DEF Next
<1>3. grants[t] \in Grant /\ grants[t].claimed \in Nat
  BY <1>1 DEF TypeOK, Grant
<1>4. ASSUME grants'[t] = grants[t] PROVE grants[t].claimed <= grants'[t].claimed
  BY <1>3, <1>4
<1>5. ASSUME NEW s \in Tokens, NEW a \in Callers, NEW c \in Creators,
             NEW x \in Amounts, NEW d \in Durations, RegisterGrant(a, s, c, x, d)
      PROVE  grants[t].claimed <= grants'[t].claimed
  <2>1. grants'[t].claimed = grants[t].claimed
    BY <1>1, <1>3, <1>5 DEF RegisterGrant, TypeOK, Grant
  <2> QED BY <1>3, <2>1
<1>6. ASSUME NEW s \in Tokens, NEW b \in Callers \cup Creators, Claim(b, s)
      PROVE  grants[t].claimed <= grants'[t].claimed
  <2>1. CASE s # t
    <3>1. grants'[t] = grants[t] BY <1>1, <1>6, <2>1 DEF Claim, TypeOK
    <3> QED BY <1>4, <3>1
  <2>2. CASE s = t
    <3> DEFINE y == claimable(s)
    <3>1. y > 0 BY <1>6 DEF Claim
    <3>2. grants' = [grants EXCEPT ![s].claimed = @ + y] BY <1>6 DEF Claim
    <3>3. y \in Int
      <4>1. VestedBound(s) BY <1>1, VestedBounds DEF VestedBounded
      <4> QED BY <1>3, <2>2, <4>1 DEF VestedBound, claimable
    <3> HIDE DEF y
    <3>4. grants'[t].claimed = grants[t].claimed + y BY <1>1, <1>3, <2>2, <3>2 DEF TypeOK, Grant
    <3> QED BY <1>3, <3>1, <3>3, <3>4
  <2> QED BY <2>1, <2>2
<1>7. grants[t].claimed <= grants'[t].claimed
  <2>1. CASE UNCHANGED vars BY <1>4, <2>1 DEF vars
  <2>2. ASSUME NEW s \in Tokens, Graduate(s) \/ Donate(s) PROVE grants'[t] = grants[t]
    BY <2>2 DEF Graduate, Donate
  <2>3. CASE Tick BY <1>4, <2>3 DEF Tick
  <2> QED BY <1>4, <1>5, <1>6, <2>1, <2>2, <2>3, Zenon DEF Next
<1> QED BY <1>2, <1>7

\* No step changes a grant's terms or takes back what has vested.
LEMMA StepFrozen == Inv /\ Inv' /\ [Next]_vars => FrozenStep
<1> SUFFICES ASSUME Inv, Inv', [Next]_vars, NEW t \in Tokens, grants[t].total # 0
             PROVE  /\ grants'[t].creator = grants[t].creator
                    /\ grants'[t].duration = grants[t].duration
                    /\ grants'[t].total = grants[t].total
                    /\ vestedAmount(t)' >= vestedAmount(t)
  BY DEF FrozenStep
<1>1. /\ TypeOK /\ WellFormed /\ now \in Nat /\ now' \in Nat
      /\ graduatedAt'[t] \in Nat /\ graduatedAt'[t] <= now'
  BY DEF Inv, TypeOK, WellFormed
<1>2. now <= now' /\ (graduatedAt[t] # 0 => graduatedAt'[t] = graduatedAt[t])
  BY Forward
<1>3. /\ grants'[t].creator = grants[t].creator
      /\ grants'[t].duration = grants[t].duration
      /\ grants'[t].total = grants[t].total
  <2>1. ASSUME NEW s \in Tokens, NEW a \in Callers, NEW c \in Creators,
               NEW x \in Amounts, NEW d \in Durations,
               RegisterGrant(a, s, c, x, d)
        PROVE  grants'[t] = grants[t]
    BY <1>1, <2>1 DEF IsGrant, RegisterGrant, NotGranted, TypeOK
  <2>2. ASSUME NEW s \in Tokens, NEW b \in Callers \cup Creators, Claim(b, s)
        PROVE  \/ grants'[t] = grants[t]
               \/ grants'[t] = [grants[t] EXCEPT !.claimed = @ + claimable(s)]
    BY <1>1, <2>2, Zenon DEF beneficiary, Claim, TypeOK
  <2>3. grants[t] \in Grant
    BY <1>1 DEF TypeOK
  <2> QED
    BY <2>1, <2>2, <2>3 DEF Next, vars, Graduate, Donate, Tick, Grant
<1>4. vestedAmount(t) <= vestedAmount(t)'
  BY <1>1, <1>2, <1>3, VestedMonotone
<1>5. vestedAmount(t) \in Nat
  BY <1>1, VestedBounds DEF VestedBounded, VestedBound
<1>6. VestedBounded'
  BY VestedBounds, PTL DEF Inv
<1>7. vestedAmount(t)' \in Nat
  BY <1>6 DEF VestedBounded, VestedBound
<1> QED BY <1>3, <1>4, <1>5, <1>7

\* No call by anyone changes a grant's terms or takes back what has vested.
THEOREM TermsAreFrozen == Spec => GrantsAreFrozen
  BY StepFrozen, InvHolds, PTL DEF Spec, GrantsAreFrozen

----------------------------------------------------------------------------
(***************************************************************************)
(* The token page never overpromises, for any grants, clocks and orders of  *)
(* reads.  Everything a read brought is still true in the one way that      *)
(* counts: terms and the date of graduation, once there, do not change, and *)
(* what the vault offered plus what had been claimed has vested, for what   *)
(* has vested never shrinks.                                                *)
(***************************************************************************)

Ints == page \in [devAllocation : Int, duration : Int, claimed : Int, claimable : Int, graduatedAt : Int]
        /\ skew \in Int

\* Nothing is read of a launch before it is there, and what is read is the vault's.
PageFounded ==
    LET g == grants[shown]
    IN /\ g.total = 0 => page = Nothing
       /\ page.devAllocation \in {UNREAD, FAILED, g.total}
       /\ page.duration \in {UNREAD, g.duration}
       /\ page.claimed \in {UNREAD} \cup 0..g.claimed
       /\ page.graduatedAt \in {UNREAD, UNGRADUATED, graduatedAt[shown]} /\ page.graduatedAt # 0

OfferFounded ==
    page.claimable # UNREAD /\ page.claimed # UNREAD =>
        page.claimable + page.claimed <= vestedAmount(shown)

CardInv == Inv /\ Ints /\ PageFounded /\ OfferFounded

\* What the vault holds of the page's grant, in numbers.
LEMMA ShownTyped ==
    ASSUME Inv
    PROVE  LET g == grants[shown]
           IN /\ g.total \in Nat /\ g.duration \in Nat /\ g.claimed \in Nat
              /\ graduatedAt[shown] \in Nat /\ now \in Nat /\ graduatedAt[shown] <= now
              /\ vestedAmount(shown) \in Nat
              /\ g.total # 0 => g.duration > 0
<1>1. TypeOK /\ WellFormed /\ shown \in Tokens BY CardConstants DEF Inv
<1>2. grants[shown] \in Grant BY <1>1 DEF TypeOK
<1>3. VestedBound(shown) BY <1>1, VestedBounds DEF VestedBounded
<1> QED BY <1>1, <1>2, <1>3 DEF TypeOK, WellFormed, Grant, VestedBound

\* The page opens with nothing read.
LEMMA CardStarts == CardInit => CardInv
<1> SUFFICES ASSUME CardInit PROVE CardInv OBVIOUS
<1>1. Inv BY InitInv DEF CardInit
<1>2. page = Nothing /\ skew \in Int BY CardConstants DEF CardInit
<1>3. grants[shown].claimed \in Nat BY <1>1, ShownTyped
<1> QED BY <1>1, <1>2, <1>3 DEF CardInv, Ints, PageFounded, OfferFounded, Nothing, UNREAD, UNGRADUATED, FAILED

\* A step of the vault leaves what was read of it true.
LEMMA VaultKeeps == ASSUME CardInv, [Next]_vars, UNCHANGED PageVars PROVE CardInv'
<1>1. Inv /\ Inv' BY StepInv DEF CardInv
<1>2. page' = page /\ skew' = skew BY DEF PageVars
<1>3. shown \in Tokens BY CardConstants
<1>4. /\ graduatedAt[shown] # 0 => graduatedAt'[shown] = graduatedAt[shown]
      /\ grants[shown].claimed <= grants'[shown].claimed
  BY <1>1, <1>3, Forward
<1>5. grants[shown].total # 0 =>
        /\ grants'[shown].duration = grants[shown].duration
        /\ grants'[shown].total = grants[shown].total
        /\ vestedAmount(shown)' >= vestedAmount(shown)
  BY <1>1, <1>3, StepFrozen DEF FrozenStep
<1>6. /\ grants[shown].claimed \in Nat /\ vestedAmount(shown) \in Nat
      /\ grants[shown].total \in Nat
  BY <1>1, ShownTyped
<1>7. (grants[shown].claimed \in Nat /\ vestedAmount(shown) \in Nat)'
  BY <1>1, ShownTyped, PTL
<1>8. Ints' BY <1>2 DEF CardInv, Ints
<1>9. CASE grants[shown].total = 0
  <2>1. page' = Nothing BY <1>2, <1>9 DEF CardInv, PageFounded
  <2> QED BY <1>1, <1>7, <1>8, <2>1 DEF CardInv, PageFounded, OfferFounded, Nothing, UNREAD, UNGRADUATED, FAILED
<1>10. CASE grants[shown].total # 0
  <2>1. PageFounded'
    <3>1. 0..grants[shown].claimed \subseteq 0..grants'[shown].claimed BY <1>4, <1>6, <1>7
    <3>2. page.graduatedAt \in {UNREAD, UNGRADUATED, graduatedAt'[shown]} /\ page.graduatedAt # 0
      BY <1>4 DEF CardInv, PageFounded
    <3> QED BY <1>2, <1>5, <1>10, <3>1, <3>2 DEF CardInv, PageFounded
  <2>2. OfferFounded'
    <3>1. page.claimable \in Int /\ page.claimed \in Int BY DEF CardInv, Ints
    <3> QED BY <1>2, <1>5, <1>6, <1>7, <1>10, <3>1 DEF CardInv, OfferFounded
  <2> QED BY <1>1, <1>8, <2>1, <2>2 DEF CardInv
<1> QED BY <1>9, <1>10

\* A read brings what the vault says now.
LEMMA ReadKeeps ==
    ASSUME CardInv, grants[shown].total # 0, ReadFrozen \/ ReadGrant \/ ReadGraduation \/ Reload
    PROVE  CardInv'
<1> DEFINE g == grants[shown]
<1>1. UNCHANGED <<vars, skew>> BY DEF ReadFrozen, ReadGrant, ReadGraduation, Reload
<1>2. Inv' BY <1>1 DEF CardInv, Inv, vars, TypeOK, WellFormed, ClaimedWithinVested, vestedAmount,
                       vestingStart, Elapsed, VaultCoversGrants, OnlyTheCreatorIsPaid
<1>3. /\ g.total \in Nat /\ g.duration \in Nat /\ g.claimed \in Nat /\ graduatedAt[shown] \in Nat
      /\ vestedAmount(shown) \in Nat
  BY ShownTyped DEF CardInv
<1>4. vestedAmount(shown)' = vestedAmount(shown) BY <1>1 DEF vars, vestedAmount, vestingStart, Elapsed
<1>5. grants' = grants /\ graduatedAt' = graduatedAt /\ skew' = skew BY <1>1 DEF vars
<1>6. Ints /\ PageFounded /\ OfferFounded BY DEF CardInv
<1>7. CASE ReadFrozen
  <2>1. PICK v \in {g.total, FAILED} : page' = [page EXCEPT !.devAllocation = v] BY <1>7 DEF ReadFrozen
  <2>2. v \in Int BY <1>3, <2>1 DEF FAILED
  <2>3. Ints' BY <1>5, <1>6, <2>1, <2>2 DEF Ints
  <2>4. /\ page'.devAllocation = v /\ page'.duration = page.duration /\ page'.claimed = page.claimed
        /\ page'.claimable = page.claimable /\ page'.graduatedAt = page.graduatedAt
    BY <1>6, <2>1 DEF Ints
  <2>5. PageFounded' BY <1>5, <1>6, <2>1, <2>4 DEF PageFounded
  <2>6. OfferFounded' BY <1>4, <1>6, <2>4 DEF OfferFounded
  <2> QED BY <1>2, <2>3, <2>5, <2>6 DEF CardInv
<1>8. CASE ReadGrant
  <2>1. PICK grant \in BOOLEAN, v \in Arriving(claimable(shown)) :
          page' = [page EXCEPT !.duration = IF grant THEN grants[shown].duration ELSE UNREAD,
                               !.claimed = IF grant THEN grants[shown].claimed ELSE UNREAD,
                               !.claimable = v]
    BY <1>8 DEF ReadGrant
  <2>2. v \in Int /\ (v # UNREAD => v + g.claimed = vestedAmount(shown))
    BY <1>3, <2>1 DEF Arriving, claimable, UNREAD
  <2>3. /\ page'.duration = (IF grant THEN g.duration ELSE UNREAD)
        /\ page'.claimed = (IF grant THEN g.claimed ELSE UNREAD) /\ page'.claimable = v
        /\ page'.devAllocation = page.devAllocation /\ page'.graduatedAt = page.graduatedAt
    BY <1>6, <2>1 DEF Ints
  <2>4. Ints'
    <3>1. page' = [devAllocation |-> page.devAllocation, duration |-> page'.duration, claimed |-> page'.claimed,
                   claimable |-> v, graduatedAt |-> page.graduatedAt]
      BY <1>6, <2>1, <2>3 DEF Ints
    <3>2. page'.duration \in Int /\ page'.claimed \in Int BY <1>3, <2>3 DEF UNREAD
    <3> QED BY <1>5, <1>6, <2>2, <3>1, <3>2 DEF Ints
  <2>5. PageFounded' BY <1>3, <1>5, <1>6, <2>3 DEF PageFounded
  <2>6. OfferFounded' BY <1>3, <1>4, <2>2, <2>3 DEF OfferFounded
  <2> QED BY <1>2, <2>4, <2>5, <2>6 DEF CardInv
<1>9. CASE ReadGraduation
  <2>1. PICK v \in Arriving(IF graduatedAt[shown] > 0 THEN graduatedAt[shown] ELSE UNGRADUATED) :
          page' = [page EXCEPT !.graduatedAt = v]
    BY <1>9 DEF ReadGraduation
  <2>2. v \in Int /\ v \in {UNREAD, UNGRADUATED, graduatedAt[shown]} /\ v # 0
    BY <1>3, <2>1 DEF Arriving, UNREAD, UNGRADUATED
  <2>3. Ints' BY <1>5, <1>6, <2>1, <2>2 DEF Ints
  <2>4. /\ page'.devAllocation = page.devAllocation /\ page'.duration = page.duration
        /\ page'.claimed = page.claimed /\ page'.claimable = page.claimable /\ page'.graduatedAt = v
    BY <1>6, <2>1 DEF Ints
  <2>5. PageFounded' BY <1>5, <1>6, <2>2, <2>4 DEF PageFounded
  <2>6. OfferFounded' BY <1>4, <1>6, <2>4 DEF OfferFounded
  <2> QED BY <1>2, <2>3, <2>5, <2>6 DEF CardInv
<1>10. CASE Reload
  BY <1>2, <1>3, <1>5, <1>6, <1>10 DEF Reload, CardInv, Ints, PageFounded, OfferFounded, Nothing, UNREAD, UNGRADUATED, FAILED
<1> QED BY <1>7, <1>8, <1>9, <1>10

\* Every step of the vault, the reads and the page keeps what was read founded.
LEMMA CardKept == CardInv /\ [CardNext]_<<vars, PageVars>> => CardInv'
<1> SUFFICES ASSUME CardInv, [CardNext]_<<vars, PageVars>> PROVE CardInv' OBVIOUS
<1>1. CASE Next /\ UNCHANGED PageVars BY <1>1, VaultKeeps
<1>2. CASE UNCHANGED <<vars, PageVars>> BY <1>2, VaultKeeps
<1>3. CASE PressClaim
  <2>1. PICK c \in Creators : Claim(c, shown) BY <1>3 DEF PressClaim
  <2>2. Next BY <2>1, CardConstants DEF Next
  <2> QED BY <1>3, <2>2, VaultKeeps DEF PressClaim
<1>4. CASE grants[shown].total # 0 /\ (ReadFrozen \/ ReadGrant \/ ReadGraduation \/ Reload)
  BY <1>4, ReadKeeps
<1> QED BY <1>1, <1>2, <1>3, <1>4 DEF CardNext

-----------------------------------------------------------------------------
\* The reader's schedule, by a clock that is not ahead, never exceeds the vault's.
LEMMA ScheduleBehind ==
    ASSUME CardInv, now + skew <= now PROVE vestedByClock(Input, now + skew) <= vestedAmount(shown)
<1> DEFINE g == grants[shown]
           in == Input
           clock == now + skew
           s == graduatedAt[shown]
           e == elapsedSince(s, clock)
<1>1. /\ g.total \in Nat /\ g.duration \in Nat /\ s \in Nat /\ now \in Nat /\ s <= now
      /\ vestedAmount(shown) \in Nat /\ (g.total # 0 => g.duration > 0) /\ clock \in Int
  BY ShownTyped DEF CardInv, Ints
<1>2. /\ in.allocation \in {0, g.total} /\ in.duration \in {UNREAD, g.duration}
      /\ in.graduatedAt \in {UNREAD, UNGRADUATED, s}
  BY DEF CardInv, PageFounded, Input, OrZero
<1> HIDE DEF in
<1>3. CASE in.allocation <= 0 \/ in.duration = UNREAD \/ in.graduatedAt <= 0
  <2>1. vestedByClock(in, clock) = 0 BY <1>3 DEF vestedByClock
  <2> QED BY <1>1, <2>1 DEF in
<1>4. CASE ~(in.allocation <= 0 \/ in.duration = UNREAD \/ in.graduatedAt <= 0)
  <2>1. in.allocation = g.total /\ g.total # 0 /\ in.duration = g.duration /\ in.graduatedAt = s /\ s > 0
    BY <1>1, <1>2, <1>4 DEF UNREAD, UNGRADUATED
  <2>2. e \in Nat /\ e <= now - s BY <1>1 DEF elapsedSince
  <2>3. vestedByClock(in, clock) = IF g.duration <= 0 \/ e >= g.duration THEN g.total ELSE (g.total * e) \div g.duration
    BY <1>4, <2>1 DEF vestedByClock
  <2>4. vestedAmount(shown) = IF now - s >= g.duration THEN g.total ELSE (g.total * (now - s)) \div g.duration
    BY <1>1, <2>1 DEF vestedAmount, vestingStart, Elapsed
  <2>5. g.duration > 0 BY <1>1, <2>1
  <2> DEFINE f == now - s
             d == g.duration
             t == g.total
  <2>6. d \in Nat /\ t \in Nat /\ f \in Nat /\ d > 0 /\ e <= f BY <1>1, <2>2, <2>5
  <2> HIDE DEF e, f, d, t
  <2>7. t * e \in Nat /\ t * f \in Nat /\ t * d \in Nat BY <2>2, <2>6
  <2>8. CASE e >= d
    <3>1. f >= d BY <2>2, <2>6, <2>8
    <3>2. vestedByClock(in, clock) = t /\ vestedAmount(shown) = t BY <2>3, <2>4, <2>8, <3>1 DEF f, d, t
    <3> QED BY <2>6, <3>2 DEF in, clock
  <2>9. CASE e < d
    <3>1. vestedByClock(in, clock) = (t * e) \div d BY <2>2, <2>3, <2>5, <2>6, <2>9 DEF d, t
    <3>2. CASE f >= d
      <4>1. vestedAmount(shown) = t BY <2>4, <3>2 DEF f, d, t
      <4>2. t * e <= t * d BY <2>2, <2>6, <2>9, MulMono
      <4>3. (t * e) \div d <= (t * d) \div d BY <2>6, <2>7, <4>2, DivMono
      <4>4. (t * d) \div d = t BY <2>6
      <4> QED BY <3>1, <4>1, <4>3, <4>4 DEF in, clock
    <3>3. CASE f < d
      <4>1. vestedAmount(shown) = (t * f) \div d BY <2>4, <2>6, <3>3 DEF f, d, t
      <4>2. t * e <= t * f BY <2>2, <2>6, MulMono
      <4>3. (t * e) \div d <= (t * f) \div d BY <2>6, <2>7, <4>2, DivMono
      <4> QED BY <3>1, <4>1, <4>3 DEF in, clock
    <3> QED BY <2>6, <3>2, <3>3
  <2> QED BY <2>2, <2>6, <2>8, <2>9
<1> QED BY <1>3, <1>4

\* What the page says follows from what it has read.
LEMMA CardFollows == CardInv => CardNeverOverpromises
<1> SUFFICES ASSUME CardInv PROVE CardNeverOverpromises OBVIOUS
<1> DEFINE g == grants[shown]
           in == Input
           clock == now + skew
           s == graduatedAt[shown]
<1>1. /\ g.total \in Nat /\ g.duration \in Nat /\ g.claimed \in Nat /\ s \in Nat /\ clock \in Int
      /\ vestedAmount(shown) \in Nat
  BY ShownTyped DEF CardInv, Ints
<1>2. /\ in.allocation \in {0, g.total} /\ in.duration \in {UNREAD, g.duration}
      /\ in.graduatedAt \in {UNREAD, UNGRADUATED, s} /\ in.graduatedAt # 0
  BY DEF CardInv, PageFounded, Input, OrZero
<1>3. ASSUME vestingState(in, clock) = "complete"
      PROVE  s > 0 /\ clock >= s + g.duration /\ vestedByClock(in, clock) = g.total
  <2> HIDE DEF in
  <2>1. ~(in.allocation <= 0) /\ in.duration # UNREAD /\ in.graduatedAt # UNREAD /\ in.graduatedAt # UNGRADUATED
    BY <1>1, <1>2, <1>3 DEF vestingState
  <2>2. in.allocation = g.total /\ in.duration = g.duration /\ in.graduatedAt = s /\ s > 0
    BY <1>1, <1>2, <2>1
  <2>3. g.duration <= 0 \/ elapsedSince(s, clock) >= g.duration
    BY <1>1, <1>3, <2>1, <2>2 DEF vestingState
  <2>4. g.duration > 0 BY <1>1, <2>1, <2>2, ShownTyped DEF CardInv
  <2>5. clock >= s + g.duration BY <1>1, <2>3, <2>4 DEF elapsedSince
  <2> QED BY <2>1, <2>2, <2>3, <2>5, <1>1 DEF vestedByClock
<1>4. ASSUME Offer # UNREAD, page.claimed # UNREAD
      PROVE  Offer <= claimable(shown) + (g.claimed - page.claimed)
  <2>1. Offer = page.claimable BY <1>4 DEF Offer
  <2>2. page.claimable + page.claimed <= vestedAmount(shown) BY <1>4, <2>1 DEF CardInv, OfferFounded
  <2>3. page.claimable \in Int /\ page.claimed \in Int BY DEF CardInv, Ints
  <2> QED BY <1>1, <2>1, <2>2, <2>3 DEF claimable
<1> QED BY <1>3, <1>4, ScheduleBehind DEF CardNeverOverpromises

\* In whatever order the reads arrive, however long ago, and whatever somebody else
\* claims meanwhile, the page neither shows nor offers more than the vault has for
\* the creator (useLaunchTerms.ts, lib/vesting.ts, VestingCard.tsx).
THEOREM CardNeverOverpromisesAlways == CardSpec => []CardNeverOverpromises
  BY CardStarts, CardKept, CardFollows, PTL DEF CardSpec
============================================================================
