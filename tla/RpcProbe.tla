------------------------------- MODULE RpcProbe -------------------------------
(***************************************************************************)
(* scripts/rpc-probe.mjs: what an operator runs against a candidate        *)
(* endpoint, and on whose word a build is then deployed (module Rpc).      *)
(*                                                                         *)
(* The candidate is external: how often it lets a caller in, what it caps  *)
(* a log query by, what it has pruned, and how many of its replies are     *)
(* lost.  Time is counted in half seconds since the last call, which a      *)
(* candidate counts whether it let it in or not; the probe is sequential,   *)
(* so a call is one step per attempt.                                      *)
(***************************************************************************)
EXTENDS Rpc

CONSTANTS
    Candidates,          \* the endpoints that may be probed
    NoCap,               \* of one that serves any range of blocks
    NARROW_CAP, WIDE_CAP,  \* matched-log caps up to and beyond a span
    MaxFlakes            \* bound: replies lost to 5xx or to the network

\* Whether a candidate is an RPC endpoint, and the interval it wants.
ASSUME CandidatesPaced == \A c \in Candidates : c.rpc \in BOOLEAN /\ c.window \in Nat

\* What it serves; the cap within a span is the larger, as the report words it.
ASSUME CandidatesServe ==
    /\ NARROW_CAP \in Nat /\ WIDE_CAP \in Nat \ {0} /\ WIDE_CAP < NARROW_CAP /\ NONE \notin Nat
    /\ \A c \in Candidates :
          /\ c.head \in Nat /\ c.rangeCap \in Nat /\ c.horizon \in Nat /\ c.switch \in Nat
          /\ c.density.logs \in Nat /\ c.density.blocks \in Nat \ {0}

VARIABLES
    phase,       \* the section the probe is in; "reported" once it has ended,
                 \* "serving" once a build is deployed
    candidate,   \* what the endpoint is
    pace,        \* minIntervalMs
    since,       \* time since the last call
    call,        \* the rpc() in progress
    flakes,
    samples,     \* the log windows sampled so far, by the rung of the ladder
    span,        \* of the window being sampled
    bounds,      \* of the search for the switch span: narrow and wide
    found        \* what the report says

(* A candidate: whether it is an RPC endpoint, the least interval it wants    *)
(* between calls, its head, the widest range and the logs it serves at once, *)
(* the oldest block it has logs of, and the depths that all of its nodes and *)
(* that some of them keep state of.                                         *)
NoCandidate == [rpc |-> FALSE, window |-> 0, head |-> 0, rangeCap |-> NoCap,
                density |-> [logs |-> 0, blocks |-> 1], horizon |-> 0, switch |-> 0, allKeep |-> 0, someKeep |-> 0]
NothingFound == [replies |-> <<>>, identity |-> NONE, retention |-> NONE, narrowLimit |-> 0, wideLimit |-> 0,
                 switch |-> NONE, safe |-> 0, burst |-> NONE]

probeVars == <<phase, candidate, pace, since, call, flakes, samples, span, bounds, found>>
allVars == <<rpcVars, probeVars>>

Lesser(x, y) == IF x < y THEN x ELSE y
Greater(x, y) == IF x < y THEN y ELSE x

-----------------------------------------------------------------------------
(* Pacing and rpc().                                                       *)

PACE_CEILING == 40

(* Mutant: the floor rises by a fixed second. *)
BumpBySecond(p) == Lesser(p + 1, PACE_CEILING)
bumpPace(p) == Lesser(IF p = 0 THEN 2 ELSE 2 * p, PACE_CEILING)

ThrottleRetries(retries) == IF retries = 0 THEN 0 ELSE retries + 4

\* classifyReply, by what a reply is rather than how a provider spells it.
Replies == {"answer", "throttle", "page", "5xx", "network"}
classifyReply(r) == CASE r = "throttle" -> "throttled" [] r = "page" -> "not-rpc" [] OTHER -> "proceed"

NewCall(retries) == [retries |-> retries, attempt |-> 0, throttled |-> FALSE, done |-> FALSE,
                     ok |-> FALSE, blame |-> FALSE]

\* The replies the candidate may give to a call made at time t.
Possible(t) ==
    (IF flakes < MaxFlakes THEN {"5xx", "network"} ELSE {})
    \cup {IF ~candidate.rpc THEN "page" ELSE IF t >= candidate.window THEN "answer" ELSE "throttle"}

\* What comes of one attempt: the call's state, the wait before the next, the floor.
AfterAttempt(c, r) ==
    CASE classifyReply(r) = "not-rpc" -> [call |-> [c EXCEPT !.done = TRUE], wait |-> 0, pace |-> pace]
      [] classifyReply(r) = "throttled" ->
           IF c.attempt < ThrottleRetries(c.retries)
           THEN [call |-> [c EXCEPT !.attempt = @ + 1, !.throttled = TRUE],
                 wait |-> Greater(bumpPace(pace), 3 * (c.attempt + 1)), pace |-> bumpPace(pace)]
           ELSE [call |-> [c EXCEPT !.done = TRUE, !.blame = TRUE], wait |-> 0, pace |-> pace]
      [] r = "5xx" ->
           IF c.attempt < c.retries
           THEN [call |-> [c EXCEPT !.attempt = @ + 1], wait |-> 3 * (c.attempt + 1), pace |-> pace]
           ELSE [call |-> [c EXCEPT !.done = TRUE], wait |-> 0, pace |-> pace]
      [] r = "network" ->
           IF c.attempt < c.retries
           THEN [call |-> [c EXCEPT !.attempt = @ + 1], wait |-> c.attempt + 1, pace |-> pace]
           ELSE [call |-> [c EXCEPT !.done = TRUE, !.blame = c.throttled], wait |-> 0, pace |-> pace]
      [] OTHER -> [call |-> [c EXCEPT !.done = TRUE, !.ok = TRUE], wait |-> 0, pace |-> pace]

Calling == phase \notin {"done", "reported", "serving"} /\ ~call.done

\* One attempt of the call in progress, once acquirePace lets it through.
Attempt ==
    /\ Calling
    /\ \E r \in Possible(Greater(since, pace)) :
         LET next == AfterAttempt(call, r)
         IN /\ call' = next.call /\ pace' = next.pace /\ since' = next.wait
            /\ flakes' = IF r \in {"5xx", "network"} THEN flakes + 1 ELSE flakes
    /\ UNCHANGED <<rpcVars, phase, candidate, samples, span, bounds, found>>

\* The probe has the reply of a call, and goes on to the next one.
Replied(in) == phase = in /\ call.done
Go(to, retries) == /\ phase' = to /\ call' = NewCall(retries)
                   /\ UNCHANGED <<rpcVars, candidate, pace, since, flakes>>

-----------------------------------------------------------------------------
(* Identity: four calls, of which the first and the third must be answered. *)

IdentityVerdict(replies) ==
    LET needed == <<replies[1], replies[3]>>
        failure == IF needed[1].ok THEN needed[2] ELSE needed[1]
    IN IF needed[1].ok /\ needed[2].ok THEN "reachable"
       ELSE IF failure.blame THEN "THROTTLED" ELSE "FATAL"

Identity ==
    /\ Replied("identity")
    /\ LET replies == Append(found.replies, call)
       IN IF Len(replies) < 4
          THEN Go("identity", 3) /\ found' = [found EXCEPT !.replies = replies]
          ELSE /\ Go(IF IdentityVerdict(replies) = "reachable" THEN "retention" ELSE "done", 3)
               /\ found' = [found EXCEPT !.replies = <<>>, !.identity = IdentityVerdict(replies)]
    /\ UNCHANGED <<samples, span, bounds>>

-----------------------------------------------------------------------------
(* Log retention.                                                          *)

\* The ladder of depths, and the rungs of it that the chain is long enough for.
depths == LET H == candidate.head
          IN <<H - 1000, (H \div 1000) * 999, (H \div 100) * 99, (H \div 10) * 9,
               (H \div 4) * 3, H \div 2, H \div 4, H \div 100, 100000, 10000, 0>>
rungs == {i \in DOMAIN depths : depths[i] >= 0 /\ depths[i] <= candidate.head}
LeastOf(I) == CHOOSE i \in I : \A j \in I : i <= j

\* The logs of the blocks from..from+width, which is one block more than width,
\* and the candidate's refusals: of a range, naming the one it would serve, and
\* of a number of logs.
LogsIn(from, width) ==
    LET first == Greater(from, candidate.horizon)
    IN IF first > from + width THEN 0
       ELSE ((from + width + 1 - first) * candidate.density.logs) \div candidate.density.blocks
CapAt(width) == IF width <= candidate.switch THEN NARROW_CAP ELSE WIDE_CAP
RangeRefused(width) == candidate.rangeCap # NoCap /\ width + 1 > candidate.rangeCap
CountRefused(from, width) == LogsIn(from, width) > CapAt(width)
QueryTooBig(from, width) == RangeRefused(width) \/ CountRefused(from, width)

(* Mutant: the stated number of blocks taken for the width, again and again. *)
TrustsTheHint(width) == IF RangeRefused(width) THEN candidate.rangeCap ELSE width \div 5
Shrunk(width) ==
    IF RangeRefused(width) /\ Greater(1, candidate.rangeCap - 1) < width
    THEN Greater(1, candidate.rangeCap - 1) ELSE width \div 5

(* Mutant: a refusal of a range or a number of logs is a failure. *)
CapIsAnError(from, width) == QueryTooBig(from, width)
SampleFails(from, width) == QueryTooBig(from, width) /\ width <= 1

WithLogs(s) == {i \in DOMAIN s : s[i].ok /\ s[i].count > 0}
Empty(s, capped) == {i \in DOMAIN s : s[i].ok /\ s[i].count = 0 /\ s[i].capped = capped}
LastOf(I) == CHOOSE i \in I : \A j \in I : j <= i

EmptyWide(s) == Empty(s, FALSE)

judgeLogRetention(s) ==
    IF \E i \in DOMAIN s : ~s[i].ok THEN "errors"
    ELSE IF WithLogs(s) # {} /\ s[LastOf(WithLogs(s))].from <= 10000 THEN "no-pruning"
    ELSE IF EmptyWide(s) # {} THEN "empty-full-width"
    ELSE IF Empty(s, TRUE) # {} THEN "inconclusive" ELSE "shallow"

\* sampleDepth: a window that is refused as too big is narrowed and asked for again.
Sample ==
    /\ Replied("retention")
    /\ LET left == rungs \ DOMAIN samples
           from == depths[LeastOf(left)]
           taken == [from |-> from, ok |-> call.ok /\ ~SampleFails(from, span),
                     count |-> LogsIn(from, span), capped |-> span < 1000]
           extended == [i \in DOMAIN samples \cup {LeastOf(left)} |->
                           IF i \in DOMAIN samples THEN samples[i] ELSE taken]
       IN IF call.ok /\ QueryTooBig(from, span) /\ ~SampleFails(from, span)
          THEN Go("retention", 3) /\ span' = Shrunk(span) /\ UNCHANGED samples
            /\ UNCHANGED found
          ELSE /\ span' = 1000
               /\ IF left # {LeastOf(left)}
                  THEN Go("retention", 3) /\ samples' = extended /\ UNCHANGED found
                  ELSE Go("limits", 3) /\ samples' = <<>>
                       /\ found' = [found EXCEPT !.retention = judgeLogRetention(extended)]
    /\ UNCHANGED bounds

-----------------------------------------------------------------------------
(* Query limits, in the densest region: a refusal states the cap it is by. *)

DenseFrom == candidate.head - 30000
StatedCap(from, width) == IF ~RangeRefused(width) /\ CountRefused(from, width) THEN CapAt(width) ELSE 0

\* The width that 50,000 logs would take there, and wider or narrower ones.
NarrowSpans == LET D == candidate.density
               IN <<Lesser(1000, IF D.logs = 0 THEN 1000 ELSE (50000 * D.blocks + D.logs - 1) \div D.logs),
                    1000, 900, 700, 500>>
WideSpans == <<1001, 2000, 5000, 20000, 100000, 500000, 2000000>>

\* The first cap that is stated, or none; no span longer than the chain is tried.
FirstStated(caps) == LET stated == {i \in DOMAIN caps : caps[i] # 0}
                     IN IF stated = {} THEN 0 ELSE caps[LeastOf(stated)]
NarrowLimit == FirstStated([i \in DOMAIN NarrowSpans |-> StatedCap(DenseFrom, NarrowSpans[i])])
WideLimit == FirstStated([i \in {j \in DOMAIN WideSpans : WideSpans[j] <= candidate.head} |->
                             StatedCap(DenseFrom - WideSpans[i], WideSpans[i])])

\* The two searches of the caps, taken together; they decide on a third.
Limits ==
    /\ Replied("limits")
    /\ LET two == NarrowLimit # 0 /\ WideLimit # 0 /\ NarrowLimit # WideLimit
       IN /\ found' = [found EXCEPT !.narrowLimit = NarrowLimit, !.wideLimit = WideLimit]
          /\ bounds' = [narrow |-> 1, wide |-> IF two THEN 5000 ELSE 1]
          /\ Go(IF two THEN "switch" ELSE "state", 3)
          /\ span' = IF two THEN span ELSE 1
    /\ UNCHANGED samples

StillNarrow(cap, served) == served \/ cap = found.narrowLimit

\* The binary search of the span at which the stated cap changes.
Switch ==
    /\ Replied("switch")
    /\ LET mid == (bounds.narrow + bounds.wide) \div 2
           cap == StatedCap(DenseFrom, mid)
           served == call.ok /\ ~QueryTooBig(DenseFrom, mid)
           next == IF StillNarrow(IF call.ok THEN cap ELSE 0, served)
                   THEN [bounds EXCEPT !.narrow = mid] ELSE [bounds EXCEPT !.wide = mid]
       IN /\ bounds' = next
          /\ IF next.wide - next.narrow > 1 THEN Go("switch", 3) /\ UNCHANGED <<found, span>>
             ELSE Go("state", 3) /\ span' = 1 /\ found' = [found EXCEPT !.switch = next.narrow]
    /\ UNCHANGED samples

-----------------------------------------------------------------------------
(* Historical state: the same call four times at each depth.  The endpoint *)
(* is a pool of nodes, so a depth that some of them keep may answer any    *)
(* number of times.  safe is the deepest depth before the first that did   *)
(* not answer every time.                                                  *)

StateDepths == Len(SelectSeq(<<1000, 5000, 10000, 50000, 100000, 1000000, 5000000, 10000000, 20000000>>,
                             LAMBDA back : back <= candidate.head))
Served(depth) == CASE depth <= candidate.allKeep -> {4}
                   [] depth > candidate.someKeep -> {0}
                   [] OTHER -> 0..4

StateDepth ==
    /\ Replied("state")
    /\ \E served \in IF call.ok THEN Served(span) ELSE 0..3 :
         /\ found' = [found EXCEPT !.safe = IF served = 4 /\ @ = span - 1 THEN span ELSE @]
         /\ IF span < StateDepths THEN Go("state", 3) /\ span' = span + 1
            ELSE Go("burst", 0) /\ span' = 0
    /\ UNCHANGED <<samples, bounds>>

\* Thirty calls at once, and only if no floor holds them apart.
Burst ==
    /\ Replied("burst")
    /\ found' = [found EXCEPT !.burst = IF pace > 0 THEN "skipped"
                                        ELSE IF candidate.window > 0 THEN "throttled" ELSE "ok"]
    /\ Go("done", 0)
    /\ UNCHANGED <<samples, span, bounds>>

-----------------------------------------------------------------------------
\* emit: the report is printed and the process is gone; the operator keeps its word.
Emit ==
    /\ phase = "done" /\ phase' = "reported"
    /\ call' = NewCall(0) /\ samples' = <<>> /\ span' = 0 /\ pace' = 0 /\ since' = 0 /\ flakes' = 0
    /\ candidate' = NoCandidate /\ bounds' = [narrow |-> 1, wide |-> 1]
    /\ found' = [NothingFound EXCEPT !.identity = found.identity]
    /\ UNCHANGED rpcVars

\* A build is then configured: an endpoint that could not be used is not made
\* the primary.
Deploy(b) ==
    /\ phase = "reported" /\ phase' = "serving"
    /\ found.identity # "reachable" => b.primary # PRIMARY
    /\ build' = b /\ urls' = rpcUrls(b) /\ found' = NothingFound
    /\ UNCHANGED <<health, turns, read, wire, able, candidate, pace, since, call, flakes, samples, span, bounds>>

NoBuild == [path |-> NONE, origin |-> NONE, primary |-> NONE, secondary |-> NONE,
            secret |-> "unset", host |-> "static"]

Init == /\ build = NoBuild /\ urls = <<>> /\ health = [e \in Endpoints |-> "up"]
        /\ turns = 0 /\ read = Unread /\ wire = NoWire /\ able = {}
        /\ phase = "identity" /\ candidate \in Candidates
        /\ pace \in {0, 20}                  \* no --min-interval, or ten seconds
        /\ since \in {0, PACE_CEILING}        \* called a moment ago, as by a run before, or not
        /\ call = NewCall(3) /\ flakes = 0
        /\ samples = <<>> /\ span = 1000 /\ bounds = [narrow |-> 1, wide |-> 1]
        /\ found = NothingFound

Probe == Attempt \/ Identity \/ Sample \/ Limits \/ Switch \/ StateDepth \/ Burst \/ Emit
Serve == phase = "serving" /\ RpcNext /\ UNCHANGED probeVars

Next == Probe \/ (\E b \in Builds : Deploy(b)) \/ Serve

\* The probe runs to its end, and viem works a read to its end.
Spec == Init /\ [][Next]_allVars /\ WF_allVars(Probe)
             /\ WF_allVars(Serve /\ (Ask \/ ProxyAnswers \/ ProxyRelays \/ EndpointAnswers \/ Received))

-----------------------------------------------------------------------------
Usable == candidate.rpc /\ candidate.window <= PACE_CEILING

\* A provider that only wants to be asked less often is never taken for one that
\* does not work: while no reply is lost, the floor rises until it lets the
\* probe in, and a page that is no RPC endpoint is never called a throttle.
\* (rpc-probe.mjs:125-223, 238-345)
ThrottlingIsNoIncapability ==
    (found.identity # NONE /\ flakes = 0 /\ phase # "reported") =>
        found.identity = IF Usable THEN "reachable"
                         ELSE IF candidate.rpc THEN "THROTTLED" ELSE "FATAL"

\* Nothing is pruned, a full window has logs, and two blocks of it can be had.
ServesAll == candidate.horizon = 0 /\ LogsIn(0, 1000) > 0 /\ ~QueryTooBig(0, 1)

\* What the report says of logs is so: logs that are there are never reported as
\* pruned, whatever ranges and counts the candidate refuses; logs pruned away
\* above the genesis region never pass for complete; and the span at which the
\* cap changes is found exactly, of those searched.  Neither throttling nor as
\* many lost replies as one call has retries changes any of it.
\* (rpc-probe.mjs:125-180, 262-345, 355-440, 598-684, 685-749)
ReportIsTrue ==
    LET verdict == found.retention
    IN /\ (verdict # NONE /\ ServesAll /\ flakes <= 3) => verdict \in {"no-pruning", "inconclusive"}
       /\ (verdict # NONE /\ candidate.horizon > 11000) => verdict # "no-pruning"
       /\ (found.switch # NONE /\ candidate.switch < 5000 /\ flakes <= 3)
             => found.switch = candidate.switch

\* The probe ends, however the candidate refuses and narrows its queries, and so
\* does every read the build then sends.  (rpc-probe.mjs:623-646, wagmi.ts:19)
ProbesAndReadsEnd ==
    /\ <>(phase \in {"reported", "serving"})
    /\ (read.state = "asking") ~> (read.state \in {"answered", "reverted", "failed"})
==============================================================================
