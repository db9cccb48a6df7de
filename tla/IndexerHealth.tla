---------------------------- MODULE IndexerHealth ----------------------------
(***************************************************************************)
(* Two observers of a running indexer.  The pages' banner (frontend:        *)
(* useIndexerStatus.ts, indexerHealth.ts, IndexerBanner.tsx) polls the      *)
(* indexer's own block, the chain's head and, for an indexer that gives no  *)
(* timestamp, the block itself: three answers of three moments.  The        *)
(* operator's check (scripts/indexer-health.mjs) asks for the head, the     *)
(* deployment's status and the canonical hash, one after the other.         *)
(*                                                                         *)
(* Meanwhile blocks are mined, the chain reorganises, and the indexer       *)
(* advances, falls behind, reverts, stays on an orphan, fails or goes away. *)
(* Block n is mined at time n, so a period of the clock is a block.         *)
(***************************************************************************)
EXTENDS Integers, FiniteSets, Queries

CONSTANTS
    MaxBlock,       \* bound: the length of the chain
    StaleLag,       \* STALE_LAG_SECONDS
    LagBlocks       \* --lag-blocks

ASSUME HealthAssumption == MaxBlock \in Nat \ {0} /\ StaleLag \in Nat /\ LagBlocks \in Nat /\ UNREAD \notin Nat

VARIABLES
    observer,       \* "page" or "script", or neither
    chain,          \* the head's number, and where the second branch starts, 0 for nowhere
    node,           \* the indexer
    due,            \* the page's polls that this period still owes
    banner,         \* what the page has read
    asked,          \* history: the head, and the indexer's block, when it last answered the page
    check           \* the script's run

healthVars == <<observer, chain, node, due, banner, asked, check>>

Polls == {"meta", "head"}
time(n) == n
canonical(n) == IF chain.fork # 0 /\ n >= chain.fork THEN "new" ELSE "old"
Orphaned(b) == b.branch # canonical(b.at)

NoCheck == [step |-> "head", chainHead |-> UNREAD, answer |-> UNREAD, status |-> UNREAD,
            hash |-> UNREAD, verdict |-> UNREAD,
            wedged |-> FALSE]      \* history: on an orphan when its status was read

HealthInit(who) ==
    /\ observer = who
    /\ chain = [head |-> 1, fork |-> 0]
    /\ \E w \in (IF who = "page" THEN BOOLEAN ELSE {FALSE}) :
         node = [up |-> TRUE, errors |-> FALSE, withholds |-> w, at |-> 0, branch |-> "old"]
    /\ due = {} /\ asked = [head |-> UNREAD, at |-> UNREAD]
    /\ banner = [meta |-> Pending, head |-> Pending, lookups |-> [n \in 0..MaxBlock |-> UNREAD]]
    /\ check = NoCheck

-----------------------------------------------------------------------------
(* The chain and the indexer (external).                                    *)

Observed == <<observer, banner, asked, check>>

\* No period ends with a poll unmade: a poll that fails has been made.
MineBlock ==
    /\ chain.head < MaxBlock /\ due = {}
    /\ chain' = [chain EXCEPT !.head = @ + 1]
    /\ due' = IF observer = "page" THEN Polls ELSE {}
    /\ UNCHANGED <<node, Observed>>

Reorganise ==
    /\ chain.fork = 0
    /\ \E n \in 1..chain.head : chain' = [chain EXCEPT !.fork = n]
    /\ UNCHANGED <<node, due, Observed>>

IndexBlock ==
    /\ node.up /\ ~node.errors /\ node.at < chain.head /\ ~Orphaned(node)
    /\ node' = [node EXCEPT !.at = @ + 1, !.branch = canonical(node.at + 1)]
    /\ UNCHANGED <<chain, due, Observed>>

RevertOrphans ==
    /\ node.up /\ Orphaned(node)
    /\ node' = [node EXCEPT !.at = chain.fork - 1, !.branch = "old"]
    /\ UNCHANGED <<chain, due, Observed>>

NodeFails ==
    /\ node.up
    /\ \/ node' = [node EXCEPT !.up = FALSE]
       \/ ~node.errors /\ node' = [node EXCEPT !.errors = TRUE]
    /\ UNCHANGED <<chain, due, Observed>>

NodeRestarts ==
    /\ ~node.up /\ node' = [node EXCEPT !.up = TRUE, !.errors = FALSE]
    /\ UNCHANGED <<chain, due, Observed>>

-----------------------------------------------------------------------------
(* indexerHealth.ts                                                         *)

classifyIndexer(reachable, indexed, head, hasIndexingErrors) ==
    LET lag == IF head > indexed THEN head - indexed ELSE 0
    IN IF ~reachable THEN [state |-> "down", lagSeconds |-> UNREAD]
       ELSE IF hasIndexingErrors THEN [state |-> "stale", lagSeconds |-> UNREAD]
       ELSE IF UNREAD \in {indexed, head} THEN [state |-> "unknown", lagSeconds |-> UNREAD]
       ELSE [state |-> IF lag > StaleLag THEN "stale" ELSE "ok", lagSeconds |-> lag]

resolveIndexedTimestamp(metaTimestamp, fallback) == OrElse(metaTimestamp, fallback)
needsBlockTimestampLookup(latest) == latest # UNREAD /\ latest.timestamp = UNREAD
isDegraded(state) == state \in {"down", "stale"}

-----------------------------------------------------------------------------
(* useIndexerStatus.ts                                                      *)

\* fetchMeta: the indexer's block, its time if it gives one, and whether it failed.
Meta == [number |-> node.at, timestamp |-> IF node.withholds THEN UNREAD ELSE time(node.at),
         hasIndexingErrors |-> node.errors]

PollMeta ==
    /\ "meta" \in due /\ due' = due \ {"meta"}
    /\ \/ /\ node.up
          /\ banner' = [banner EXCEPT !.meta = Answered(Meta)]
          /\ asked' = [head |-> chain.head, at |-> node.at]
       \/ /\ banner' = [banner EXCEPT !.meta = FailedAfter(banner.meta)]
          /\ UNCHANGED asked
    /\ UNCHANGED <<observer, chain, node, check>>

PollHead ==
    /\ "head" \in due /\ due' = due \ {"head"}
    /\ \/ banner' = [banner EXCEPT !.head = Answered(time(chain.head))]
       \/ banner' = [banner EXCEPT !.head = FailedAfter(banner.head)]
    /\ UNCHANGED <<observer, chain, node, asked, check>>

(* Mutant: the time of whatever block is the head. *)
lookedUpAtHead(latest) == time(chain.head)

\* Asked once for each block number the indexer names, and kept.
lookedUp(latest) == time(latest.number)

LookUpTimestamp ==
    LET latest == banner.meta.data
    IN /\ needsBlockTimestampLookup(latest) /\ banner.lookups[latest.number] = UNREAD
       /\ banner' = [banner EXCEPT !.lookups[latest.number] = lookedUp(latest)]
       /\ UNCHANGED <<observer, chain, node, due, asked, check>>

IndexerStatus ==
    LET latest == banner.meta.data
    IN classifyIndexer(~banner.meta.isError,
         IF latest = UNREAD THEN UNREAD
         ELSE resolveIndexedTimestamp(latest.timestamp, banner.lookups[latest.number]),
         banner.head.data,
         latest # UNREAD /\ latest.hasIndexingErrors)

\* IndexerBanner: what it announces, and how far behind it says the indexer is.
BannerText == IF ~isDegraded(IndexerStatus.state) THEN "none"
              ELSE IF IndexerStatus.state = "down" THEN "unavailable" ELSE "stale"

-----------------------------------------------------------------------------
(* scripts/indexer-health.mjs                                               *)

(* Mutant: the distance from the head is looked at before the hash. *)
classifyByLagFirst(c) ==
    IF c.answer = "unreachable" THEN "unreachable"
    ELSE IF c.answer = "none" THEN "unknown"
    ELSE IF c.status.fatal THEN "failed"
    ELSE IF c.hash = UNREAD THEN "unknown"
    ELSE IF c.chainHead - c.status.at > LagBlocks THEN "lagging"
    ELSE IF c.hash # c.status.branch THEN "orphaned" ELSE "ok"

classify(c) ==
    IF c.answer = "unreachable" THEN "unreachable"
    ELSE IF c.answer = "none" THEN "unknown"
    ELSE IF c.status.fatal THEN "failed"
    ELSE IF c.hash = UNREAD THEN "unknown"
    ELSE IF c.hash # c.status.branch THEN "orphaned"
    ELSE IF c.chainHead - c.status.at > LagBlocks THEN "lagging" ELSE "ok"

ReadHead ==
    /\ check.step = "head"
    /\ check' = [check EXCEPT !.step = "status", !.chainHead = chain.head]

Concluded(c) == [c EXCEPT !.step = "done", !.verdict = classify(c)]

\* The deployments known under the names asked for: the indexer's, or none.
readStatuses ==
    /\ check.step = "status"
    /\ \/ /\ node.up
          /\ check' = [check EXCEPT !.step = "hash", !.answer = "deployment", !.wedged = Orphaned(node),
                         !.status = [at |-> node.at, branch |-> node.branch, fatal |-> node.errors]]
       \/ \E a \in {"unreachable", "none"} : check' = Concluded([check EXCEPT !.answer = a])

\* canonicalHash: the chain serves the block at the indexed height, or does not.
ReadHash ==
    /\ check.step = "hash"
    /\ \E h \in {canonical(check.status.at), UNREAD} :
         check' = Concluded([check EXCEPT !.hash = h])

ExitsWithZero == check.verdict = "ok"

RunCheck == /\ observer = "script"
            /\ ReadHead \/ readStatuses \/ ReadHash
            /\ UNCHANGED <<observer, chain, node, due, banner, asked>>

HealthNext ==
    /\ observer # UNREAD
    /\ \/ MineBlock \/ Reorganise \/ IndexBlock \/ RevertOrphans \/ NodeFails \/ NodeRestarts
       \/ PollMeta \/ PollHead \/ LookUpTimestamp \/ RunCheck

HealthSpec == (\E who \in {"page", "script"} : HealthInit(who)) /\ [][HealthNext]_healthVars

-----------------------------------------------------------------------------
\* However the three answers interleave with the chain and the indexer, the lag the
\* page shows is from the very block the indexer last named: no time of another
\* block, older or newer, ever stands in for it.  "Fine" is then never said of an
\* indexer that was further behind than the threshold when it answered, unless the
\* head the page holds is older than that answer; and "behind" never of one that
\* was not.
\* (useIndexerStatus.ts:68-88, indexerHealth.ts:50-66)
BannerIsFounded ==
    LET s == IndexerStatus
    IN /\ s.lagSeconds # UNREAD =>
            /\ s.state = "ok" /\ banner.head.data >= asked.head => asked.head - asked.at <= StaleLag
            /\ s.state = "stale" => banner.head.data - asked.at > StaleLag
       /\ BannerText = "unavailable" <=> banner.meta.isError
       /\ s.state = "ok" => ~banner.meta.data.hasIndexingErrors

\* A deployment that is stuck on an orphan is found out, and never excused as merely
\* late, whatever the chain and the indexer do between the check's three questions;
\* none is blamed whose block is on the chain.  The check ends with zero only for one
\* that was on the chain's branch, without an error, and within the threshold of the
\* head first read.
\* (indexer-health.mjs:96-147, 224-295, 320)
VerdictIsFounded ==
    check.step = "done" =>
        /\ check.wedged => check.verdict \in {"orphaned", "failed", "unknown"}
        /\ check.verdict = "orphaned" => Orphaned(check.status)
        /\ ExitsWithZero => /\ ~check.status.fatal
                            /\ check.chainHead - check.status.at <= LagBlocks

HealthIsFounded == BannerIsFounded /\ VerdictIsFounded
==============================================================================
