----------------------------- MODULE DevVesting -----------------------------
(***************************************************************************)
(* The vault of the creators' dev allocations                              *)
(* (contracts/src/periphery/DevVesting.sol): one grant per launch token,   *)
(* registered by the factory when the launch is created, released linearly *)
(* from the moment the GraduationManager records the launch's graduation,  *)
(* and paid by a call anybody may make.                                    *)
(*                                                                         *)
(* claim's only external call moves a plain ERC-20, so each function is    *)
(* one atomic step.                                                        *)
(***************************************************************************)
EXTENDS CurveMath

CONSTANTS
    Tokens, Creators,
    launchpad,       \* the factory
    Strangers,       \* every other caller
    Amounts,         \* the amounts and durations registerGrant is called with
    Durations,
    MaxUint128,
    MaxTime          \* bound on the clock, in the model only

Callers == {launchpad} \cup Strangers

ASSUME VestingConstants ==
    /\ launchpad \notin Strangers
    /\ Amounts \subseteq Nat /\ Durations \subseteq Nat
    /\ MaxUint128 \in Nat /\ MaxTime \in Nat

VARIABLES
    grants,        \* _grants; an unregistered token reads as a grant of 0
    graduatedAt,   \* GraduationManager.graduatedAt: 0 before graduation
    now,           \* block.timestamp
    vault,         \* the vault's balance of each token
    received,      \* what the vault has paid each creator in each token
    donated        \* what others have sent to the vault (history variable)

vars == <<grants, graduatedAt, now, vault, received, donated>>

NoOne == "zero address"

\* total is a uint128 cast from a uint256: its range is part of the type.
Grant == [creator : Creators \cup {NoOne}, duration : Nat,
          total : 0..MaxUint128, claimed : Nat]

ZeroGrant == [creator |-> NoOne, duration |-> 0, total |-> 0, claimed |-> 0]

\* Timestamps are positive: zero is what graduatedAt uses for "never".
Init ==
    /\ grants = [t \in Tokens |-> ZeroGrant]
    /\ graduatedAt = [t \in Tokens |-> 0]
    /\ now = 1
    /\ vault = [t \in Tokens |-> 0]
    /\ received = [t \in Tokens |-> [c \in Creators |-> 0]]
    /\ donated = [t \in Tokens |-> 0]

vestingStart(t) == graduatedAt[t]
Elapsed(t) == now - vestingStart(t)

(* Mutants: the release rounded up; the full amount only after the window's
   last second; no window at all; anyone may register. *)
VestedRoundedUp(t) ==
    LET g == grants[t]
    IN  IF g.total = 0 \/ vestingStart(t) = 0 THEN 0
        ELSE IF Elapsed(t) >= g.duration THEN g.total
        ELSE CeilDiv(g.total * Elapsed(t), g.duration)
VestedOneSecondLate(t) ==
    LET g == grants[t]
    IN  IF g.total = 0 \/ vestingStart(t) = 0 THEN 0
        ELSE IF Elapsed(t) > g.duration THEN g.total
        ELSE (g.total * Elapsed(t)) \div (g.duration + 1)
VestedUncapped(t) ==
    LET g == grants[t]
    IN  IF g.total = 0 \/ vestingStart(t) = 0 THEN 0
        ELSE (g.total * Elapsed(t)) \div g.duration
Anyone(caller) == TRUE

vestedAmount(t) ==
    LET g == grants[t]
    IN  IF g.total = 0 \/ vestingStart(t) = 0 THEN 0
        ELSE IF Elapsed(t) >= g.duration THEN g.total
        ELSE (g.total * Elapsed(t)) \div g.duration

claimable(t) == vestedAmount(t) - grants[t].claimed

OnlyLaunchpad(caller) == caller = launchpad
NotGranted(t) == grants[t].total = 0
IsGrant(amount) == 0 < amount /\ amount <= MaxUint128
beneficiary(caller, t) == grants[t].creator

----------------------------------------------------------------------------
(* registerGrant.  The factory calls it from createLaunch, on a token it has
   just deployed and right after transferring the same amount here. *)
RegisterGrant(caller, t, creator, amount, duration) ==
    /\ OnlyLaunchpad(caller)
    /\ IsGrant(amount) /\ 0 < duration
    /\ NotGranted(t)
    /\ caller = launchpad => graduatedAt[t] = 0
    /\ grants' = [grants EXCEPT ![t].creator = creator,
                                ![t].duration = duration, ![t].total = amount]
    /\ vault' = [vault EXCEPT ![t] = @ + IF caller = launchpad THEN amount ELSE 0]
    /\ UNCHANGED <<graduatedAt, now, received, donated>>

(* claim: pays the creator stored in the grant, whoever calls. *)
Claim(caller, t) ==
    /\ grants[t].total # 0
    /\ 0 < claimable(t) /\ claimable(t) <= vault[t]
    /\ grants' = [grants EXCEPT ![t].claimed = @ + claimable(t)]
    /\ vault' = [vault EXCEPT ![t] = @ - claimable(t)]
    /\ received' = [received EXCEPT ![t][beneficiary(caller, t)] = @ + claimable(t)]
    /\ UNCHANGED <<graduatedAt, now, donated>>

(* The write GraduationManager.graduate makes, once per token. *)
Graduate(t) ==
    /\ graduatedAt[t] = 0
    /\ graduatedAt' = [graduatedAt EXCEPT ![t] = now]
    /\ UNCHANGED <<grants, now, vault, received, donated>>

(* Somebody transfers a token to the vault. *)
Donate(t) ==
    /\ donated[t] = 0
    /\ vault' = [vault EXCEPT ![t] = @ + 1]
    /\ donated' = [donated EXCEPT ![t] = @ + 1]
    /\ UNCHANGED <<grants, graduatedAt, now, received>>

(* A later block. *)
Tick ==
    /\ now < MaxTime
    /\ now' = now + 1
    /\ UNCHANGED <<grants, graduatedAt, vault, received, donated>>

Next ==
    \/ Tick
    \/ \E t \in Tokens :
        \/ \E a \in Callers, c \in Creators, x \in Amounts, d \in Durations :
              RegisterGrant(a, t, c, x, d)
        \/ Graduate(t)
        \/ \E a \in Callers \cup Creators : Claim(a, t)
        \/ Donate(t)

Spec == Init /\ [][Next]_vars
----------------------------------------------------------------------------
(* Properties. *)

TypeOK ==
    /\ grants \in [Tokens -> Grant]
    /\ graduatedAt \in [Tokens -> Nat]
    /\ now \in Nat
    /\ vault \in [Tokens -> Nat]
    /\ received \in [Tokens -> [Creators -> Nat]]
    /\ donated \in [Tokens -> Nat]

\* However the creator times the claims, nothing leaves before graduation and
\* never more than the straight line from graduation to the end of the window
\* allows, so a stream of small claims gains nothing by rounding.
NeverAheadOfTheLine ==
    \A t \in Tokens : LET g == grants[t] IN
        /\ graduatedAt[t] = 0 => g.claimed = 0
        /\ graduatedAt[t] # 0 => g.claimed * g.duration <= g.total * Elapsed(t)

\* What is promised and not yet paid is always in the vault, token by token:
\* one launch's claims never use another's tokens, and a donation is inert.
VaultCoversGrants ==
    \A t \in Tokens : LET g == grants[t] IN
        vault[t] = (g.total - g.claimed) + donated[t]

\* No sequence of claims loses part of a grant: claimable's checked subtraction
\* never underflows, which would have the view and the claim revert for good, and
\* once the window is over one claim pays all that is left, to the last wei.
NothingStranded ==
    \A t \in Tokens : LET g == grants[t] IN
        /\ 0 <= claimable(t) /\ vestedAmount(t) <= g.total
        /\ (graduatedAt[t] # 0 /\ Elapsed(t) >= g.duration) =>
               claimable(t) = g.total - g.claimed

\* A token's releases reach the creator of its grant and nobody else.
OnlyTheCreatorIsPaid ==
    \A t \in Tokens, c \in Creators :
        received[t][c] = IF c = grants[t].creator THEN grants[t].claimed ELSE 0

\* Terms are frozen at creation: once granted, creator, amount and window
\* never change, and what has vested never shrinks.
FrozenStep ==
    \A t \in Tokens : grants[t].total # 0 =>
        /\ grants'[t].creator = grants[t].creator
        /\ grants'[t].duration = grants[t].duration
        /\ grants'[t].total = grants[t].total
        /\ vestedAmount(t)' >= vestedAmount(t)

GrantsAreFrozen == [][FrozenStep]_vars
============================================================================
