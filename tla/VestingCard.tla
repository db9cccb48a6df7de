----------------------------- MODULE VestingCard -----------------------------
(***************************************************************************)
(* The token page's view of a grant (frontend/src: lib/vesting.ts,          *)
(* hooks/useLaunchTerms.ts, components/VestingCard.tsx), over the vault.    *)
(*                                                                         *)
(* The page reads the chain in three batches, at different times: the carve,*)
(* once and for ever; the grant and what it would pay, polled; and the date *)
(* of graduation, polled.  Any value of a batch may fail on its own.  The   *)
(* schedule is then computed by the reader's clock, which is not the chain's.*)
(***************************************************************************)
EXTENDS DevVesting

CONSTANTS
    shown,        \* the token of the page
    MaxSkew       \* how far the reader's clock may be from the chain's

ASSUME CardConstants == shown \in Tokens /\ MaxSkew \in Nat

VARIABLES page, skew

UNREAD == -1
UNGRADUATED == -2      \* null: the read arrived, and there is no date
FAILED == -3           \* a read that is not made again
Nothing == [devAllocation |-> UNREAD, duration |-> UNREAD, claimed |-> UNREAD,
            claimable |-> UNREAD, graduatedAt |-> UNREAD]

CardInit == Init /\ page = Nothing /\ skew \in -MaxSkew..MaxSkew

Arriving(v) == {v, UNREAD}
PageVars == <<page, skew>>

-----------------------------------------------------------------------------
(* useLaunchTerms: a value that failed reads as undefined, never as zero.   *)

\* lockConfigOf and devAllocationOf are read once: a failure is cached like an
\* answer, until the page is loaded anew.
ReadFrozen ==
    /\ page.devAllocation = UNREAD
    /\ \E v \in {grants[shown].total, FAILED} : page' = [page EXCEPT !.devAllocation = v]
    /\ UNCHANGED <<vars, skew>>

Reload == page' = Nothing /\ UNCHANGED <<vars, skew>>

ReadGrant ==
    /\ \E grant \in BOOLEAN, v \in Arriving(claimable(shown)) :
         page' = [page EXCEPT !.duration = IF grant THEN grants[shown].duration ELSE UNREAD,
                              !.claimed = IF grant THEN grants[shown].claimed ELSE UNREAD,
                              !.claimable = v]
    /\ UNCHANGED <<vars, skew>>

ReadGraduation ==
    /\ \E v \in Arriving(IF graduatedAt[shown] > 0 THEN graduatedAt[shown] ELSE UNGRADUATED) :
         page' = [page EXCEPT !.graduatedAt = v]
    /\ UNCHANGED <<vars, skew>>

\* TokenPage: an unread carve is shown as no carve, unread claims as none.
OrZero(v) == IF v \in {UNREAD, FAILED} THEN 0 ELSE v
Input == [allocation |-> OrZero(page.devAllocation), duration |-> page.duration,
          graduatedAt |-> page.graduatedAt, claimed |-> OrZero(page.claimed)]

-----------------------------------------------------------------------------
(* lib/vesting.ts                                                          *)

elapsedSince(start, clock) == IF clock > start THEN clock - start ELSE 0

(* Mutants: an unread window read as a window of zero; the share of the window
   rounded to whole parts first. *)
UnreadAsZero(in, clock) ==
    IF in.allocation <= 0 \/ in.graduatedAt <= 0 THEN 0
    ELSE IF OrZero(in.duration) <= 0 \/ elapsedSince(in.graduatedAt, clock) >= in.duration THEN in.allocation
    ELSE (in.allocation * elapsedSince(in.graduatedAt, clock)) \div in.duration

vestedByClock(in, clock) ==
    IF in.allocation <= 0 \/ in.duration = UNREAD \/ in.graduatedAt <= 0 THEN 0
    ELSE IF in.duration <= 0 \/ elapsedSince(in.graduatedAt, clock) >= in.duration THEN in.allocation
    ELSE (in.allocation * elapsedSince(in.graduatedAt, clock)) \div in.duration

vestingState(in, clock) ==
    CASE in.allocation <= 0 -> "none"
      [] in.allocation > 0 /\ in.duration = UNREAD -> "terms-unknown"
      [] in.allocation > 0 /\ in.duration # UNREAD /\ in.graduatedAt = UNREAD -> "schedule-unknown"
      [] in.allocation > 0 /\ in.duration # UNREAD /\ in.graduatedAt = UNGRADUATED -> "not-started"
      [] OTHER -> IF in.duration <= 0 \/ elapsedSince(in.graduatedAt, clock) >= in.duration
                  THEN "complete" ELSE "vesting"

-----------------------------------------------------------------------------
(* VestingCard: no card without a carve; the button offers what the vault   *)
(* said it would pay, whatever the schedule.                                *)

(* Mutant: the button offers what the schedule comes to by the reader's clock. *)
OfferBySchedule == IF vestingState(Input, now + skew) = "none" THEN UNREAD
                   ELSE vestedByClock(Input, now + skew) - Input.claimed

Offer == IF vestingState(Input, now + skew) = "none" THEN UNREAD ELSE page.claimable

\* The creator presses the button.
PressClaim ==
    /\ Offer # UNREAD /\ Offer # 0
    /\ \E c \in Creators : c = grants[shown].creator /\ Claim(c, shown)
    /\ UNCHANGED PageVars

CardNext == \/ Next /\ UNCHANGED PageVars
            \/ /\ grants[shown].total # 0       \* a launch is there before its page is
               /\ ReadFrozen \/ ReadGrant \/ ReadGraduation \/ Reload
            \/ PressClaim

CardSpec == CardInit /\ [][CardNext]_<<vars, PageVars>>

-----------------------------------------------------------------------------
\* Whatever reads arrived, in whatever order and however long ago, the page never
\* shows more released than the contract has by the reader's clock, announces a
\* full release or an unstarted one only where there is one, and never offers a
\* claim that the vault would not pay: what it offers is still there, but for what
\* somebody has claimed since.
\* (lib/vesting.ts:120-173, useLaunchTerms.ts:85, VestingCard.tsx:44)
CardNeverOverpromises ==
    LET g == grants[shown]
        clock == now + skew
        state == vestingState(Input, clock)
    IN /\ clock <= now => vestedByClock(Input, clock) <= vestedAmount(shown)
       /\ state = "complete" => graduatedAt[shown] > 0 /\ clock >= graduatedAt[shown] + g.duration
       /\ state = "complete" => vestedByClock(Input, clock) = g.total
       /\ Offer # UNREAD /\ page.claimed # UNREAD
             => Offer <= claimable(shown) + (g.claimed - page.claimed)
==============================================================================
