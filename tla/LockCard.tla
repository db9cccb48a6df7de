------------------------------- MODULE LockCard -------------------------------
(***************************************************************************)
(* What the token page says of a lock and of its fees (frontend/src:        *)
(* lib/lock.ts, lib/fees.ts, useReclaimStatus, useClaimableFees, LockCard,  *)
(* FeeEarningsCard), over the lock itself.                                  *)
(*                                                                         *)
(* The cards keep no state: they show a function of an indexed row, which   *)
(* may be older than the chain, of a clock, and of live reads, any of which *)
(* may not have arrived.  A missing value is UNREAD.                        *)
(***************************************************************************)
EXTENDS LPLock

UNREAD == [read |-> FALSE]
Arrived(v) == v # UNREAD

-----------------------------------------------------------------------------
(* lib/lock.ts                                                             *)

\* The indexed row: permanent is the sentinel, as the indexer derives it.
RowOf(id) == [lockUntil |-> locks[id].lockUntil, permanent |-> locks[id].lockUntil = PERMANENT,
              reclaimed |-> locks[id].reclaimed]

lockState(row, t) ==
    CASE row.reclaimed -> "reclaimed"
      [] ~row.reclaimed /\ (row.permanent \/ row.lockUntil = PERMANENT) -> "permanent"
      [] OTHER -> IF t <= row.lockUntil THEN "locked" ELSE "expired"

\* useReclaimStatus: the live verdict, by the ABI's number of it; a number the
\* build does not know is its own state.
ReclaimBlocker == <<"NoBlocker", "NotALaunchPosition", "AlreadyReclaimed", "PermanentLock",
                    "NotExpired", "PoolActive">>
isKnownReclaimBlocker(value) == value + 1 \in DOMAIN ReclaimBlocker
Verdict(value) == IF ~Arrived(value) THEN "unread"
                  ELSE IF isKnownReclaimBlocker(value.n) THEN ReclaimBlocker[value.n + 1] ELSE "unknown"

-----------------------------------------------------------------------------
(* LockCard: which of its texts is shown.  Terms are the chain's; a card    *)
(* without a row never says that nothing is locked.                         *)

LockState(row, t, value) ==
    [status |-> lockState(row, t),
     note |-> IF lockState(row, t) = "reclaimed" THEN "wound up" ELSE Verdict(value)]

LockCardText(terms, graduated, row, t, value) ==
    CASE ~Arrived(terms) -> [status |-> "terms unread"]
      [] Arrived(terms) /\ ~graduated -> [status |-> "terms"]
      [] Arrived(terms) /\ graduated /\ ~Arrived(row) -> [status |-> "locked, not indexed"]
      [] OTHER -> LockState(row, t, value)

\* What the two reads come to now.
ValueOf(id) == [n |-> CHOOSE n \in 0..5 : ReclaimBlocker[n + 1] = reclaimBlocker(id)]

-----------------------------------------------------------------------------
(* lib/fees.ts and useClaimableFees                                        *)

(* Mutant: both shares rounded down. *)
BothRounded(token, w, bps) ==
    [creatorToken |-> BpsOf(token, bps, MAX_CREATOR_FEE_BPS), creatorWeth |-> BpsOf(w, bps, MAX_CREATOR_FEE_BPS),
     treasuryToken |-> BpsOf(token, MAX_CREATOR_FEE_BPS - bps, MAX_CREATOR_FEE_BPS),
     treasuryWeth |-> BpsOf(w, MAX_CREATOR_FEE_BPS - bps, MAX_CREATOR_FEE_BPS)]

byPoolOrder(amount0, amount1, tokenIsToken0) ==
    IF tokenIsToken0 THEN [token |-> amount0, weth |-> amount1] ELSE [token |-> amount1, weth |-> amount0]

splitCreatorFees(token, w, bps) ==
    LET t == BpsOf(token, bps, MAX_CREATOR_FEE_BPS)
        e == BpsOf(w, bps, MAX_CREATOR_FEE_BPS)
    IN [creatorToken |-> t, creatorWeth |-> e, treasuryToken |-> token - t, treasuryWeth |-> w - e]

\* The gross amounts are those of a simulated collect; without the pool's order
\* or the share nothing is shown.
ClaimableFees(gross, order, bps) ==
    IF ~Arrived(gross) \/ ~Arrived(order) \/ ~Arrived(bps) THEN UNREAD
    ELSE LET byAsset == byPoolOrder(gross.amounts[1], gross.amounts[2], order.tokenIsToken0)
         IN splitCreatorFees(byAsset.token, byAsset.weth, bps.share)

\* FeeEarningsCard's section on what is waiting, which outlives no position.
FeesShown(row, graduated, fees) ==
    CASE ~graduated -> "no card"
      [] graduated /\ Arrived(row) /\ row.reclaimed -> "wound up"
      [] OTHER -> IF Arrived(fees) THEN "amounts" ELSE "unread"

-----------------------------------------------------------------------------
Registered(id) == locks[id].origin = "Launch"
OrderOf(p) == [tokenIsToken0 |-> BurnsToken0(p)]
FeesOf(id) == ClaimableFees([amounts |-> positions[id].owed], OrderOf(locks[id].launchToken),
                            [share |-> locks[id].creatorFeeBps])

\* What a collection now would bring an account in an asset.
Brings(id, account, x) ==
    LET pos == positions[id]
        paidIn == PaidIn(pos.pool, pos.owed[1], pos.owed[2])
        after == PayOut(id, PayOut(id, paidIn, token0(pos.pool), pos.owed[1]), token1(pos.pool), pos.owed[2])
    IN after[account][x] - balance[account][x]

\* The verdicts that go with a status.
Beside(status) == CASE status = "permanent" -> {"PermanentLock"} [] status = "locked" -> {"NotExpired"}
                    [] status = "expired" -> {"PoolActive", "NoBlocker"} [] OTHER -> {"wound up"}

\* The cards and the lock agree.  The live verdict always fits the status shown
\* beside it.  A row that missed the last change (and, as terms only improve, any
\* before it) still never says locked or permanent of a position that can be
\* reclaimed, and an end it names is never taken back.  The shares shown as
\* waiting are, to the unit and in either token order, what a collection would pay.
\* (lib/lock.ts:47, useReclaimStatus.ts:63, lib/fees.ts:31, useClaimableFees.ts:99)
CardStep ==
    \A id \in Ids : Registered(id) =>
        LET row == RowOf(id)
            card == LockCardText([known |-> TRUE], TRUE, row, now, ValueOf(id))'
            stale == lockState(row, now')
        IN /\ stale \in {"locked", "permanent"} => (reclaimBlocker(id) # "NoBlocker")'
           /\ stale \in {"permanent", "reclaimed"} => card.status = stale
           /\ card.note \in Beside(card.status)
           /\ FeesShown(row, TRUE, FeesOf(id)) = "amounts" =>
                LET L == locks[id].launchToken
                    c == creatorOf[L]
                IN /\ FeesOf(id).creatorToken = Brings(id, c, L) /\ FeesOf(id).creatorWeth = Brings(id, c, weth)
                   /\ FeesOf(id).treasuryToken = Brings(id, treasury, L)
                   /\ FeesOf(id).treasuryWeth = Brings(id, treasury, weth)

CardsTellTheLock == [][CardStep]_vars
==============================================================================
