----------------------------- MODULE LockClaims -----------------------------
(***************************************************************************)
(* What the docs say of reclaim's inactivity test, against what the pool's *)
(* observation ring records.                                               *)
(***************************************************************************)
EXTENDS LPLock

(* History: when each pool was last swapped, tick moved or not. *)
VARIABLE lastSwap

SwapNow(p) == \E side \in 1..2, moves \in BOOLEAN : Swap(p, side, moves)

HistoryInit == Init /\ lastSwap = [p \in LaunchTokens |-> 0]

HistoryNext ==
    \/ \E p \in LaunchTokens : SwapNow(p) /\ lastSwap' = [lastSwap EXCEPT ![p] = now]
    \/ Next /\ (\A p \in LaunchTokens : ~SwapNow(p)) /\ UNCHANGED lastSwap

HistorySpec == HistoryInit /\ [][HistoryNext]_<<vars, lastSwap>>

\* LPLock.sol:337: a reclaim goes through only when "the pool has had no swap
\* (nor mint/burn) for at least inactivityPeriod".
ReclaimStepAfterSilence ==
    \A id \in Ids : (locks'[id].reclaimed /\ ~locks[id].reclaimed) =>
        now - lastSwap[locks[id].launchToken] >= inactivityPeriod

ReclaimMeansNoSwap == [][ReclaimStepAfterSilence]_<<vars, lastSwap>>
============================================================================
