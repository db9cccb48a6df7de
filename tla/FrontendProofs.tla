--------------------------- MODULE FrontendProofs ---------------------------
(***************************************************************************)
(* Theorems about what the frontend asks and shows.  Of RpcProbe, for      *)
(* every set of candidates, every number of lost replies, of retry rounds  *)
(* and of changes of the endpoints: what a build reads is the chain's, no  *)
(* endpoint that could have answered is passed over, and a provider that   *)
(* throttles is not taken for one that fails.  Of the token gate, the      *)
(* forms, the indexer's health and the lists: what is shown and sent is    *)
(* founded.  Of the price chart: what is drawn is the history held.        *)
(***************************************************************************)
EXTENDS RpcProbe, TokenGate, Forms, Feeds, PriceChart, CurveMathProofs

URLs == Endpoints \cup {PROXY}

LEMMA Distinctness ==
    /\ PROXY # PRIMARY /\ PROXY # SECONDARY /\ PROXY # PUBLIC /\ PROXY # KEYED /\ PROXY # NONE
    /\ PRIMARY # SECONDARY /\ PRIMARY # PUBLIC /\ PRIMARY # NONE
    /\ SECONDARY # PUBLIC /\ SECONDARY # NONE /\ PUBLIC # NONE /\ KEYED # NONE
    /\ \A u \in URLs \cup {NONE} : u # "app" /\ u # "upstream"
    /\ NONE \notin URLs /\ PROXY \notin Endpoints
<1> DEFINE all == <<PROXY, PRIMARY, SECONDARY, PUBLIC, KEYED, NONE, "app", "upstream">>
<1>1. \A i, j \in 1..8 : all[i] = all[j] => i = j
  BY URLsDiffer DEF IsInjective
<1> QED BY <1>1, SMTT(30) DEF URLs, Endpoints

-----------------------------------------------------------------------------
(* The list of a build.                                                    *)

NoRepeats(us) == us \in Seq(URLs) /\ \A i, j \in 1..Len(us) : us[i] = us[j] => i = j

LEMMA PushKeeps ==
    ASSUME NEW us, NoRepeats(us), NEW url \in URLs \cup {NONE}
    PROVE  /\ NoRepeats(Push(us, url))
           /\ url \in URLs => \E i \in 1..Len(Push(us, url)) : Push(us, url)[i] = url
           /\ Len(us) <= Len(Push(us, url))
<1>1. CASE url = NONE \/ Contains(us, url)
  BY <1>1, Distinctness DEF Push, Set, Contains, NoRepeats
<1>2. CASE url # NONE /\ ~Contains(us, url)
  <2>1. Push(us, url) = Append(us, url)
    BY <1>2 DEF Push, Set
  <2>2. Append(us, url) \in Seq(URLs) /\ Len(Append(us, url)) = Len(us) + 1
    BY <1>2 DEF NoRepeats
  <2>3. \A i \in 1..Len(us) : Append(us, url)[i] = us[i] /\ us[i] # url
    BY <1>2 DEF NoRepeats, Contains
  <2>4. Append(us, url)[Len(us) + 1] = url
    BY DEF NoRepeats
  <2> QED BY <2>1, <2>2, <2>3, <2>4 DEF NoRepeats
<1> QED BY <1>1, <1>2

\* resolveRpcUrls names no endpoint twice, and always the public one.
LEMMA ListOfBuild ==
    ASSUME NEW b \in Builds
    PROVE  /\ NoRepeats(rpcUrls(b))
           /\ \E i \in 1..Len(rpcUrls(b)) : rpcUrls(b)[i] = PUBLIC
<1>1. b.primary \in URLs \cup {NONE} /\ b.secondary \in URLs \cup {NONE}
  BY DEF Builds, URLs, Endpoints
<1>2. resolveProxyUrl(b.path, b.origin) \in URLs \cup {NONE}
  BY DEF resolveProxyUrl, URLs
<1>3. NoRepeats(<<>>)
  BY DEF NoRepeats
<1>4. NoRepeats(Named(resolveProxyUrl(b.path, b.origin), b.primary, b.secondary))
  BY <1>1, <1>2, <1>3, PushKeeps DEF Named
<1> QED BY <1>4, PushKeeps DEF rpcUrls, resolveRpcUrls, URLs, Endpoints

-----------------------------------------------------------------------------
(* Replies.                                                                *)

\* A reply that viem takes for an answer or for a revert.
Conclusive(r) == ok(r) /\ r.body # "missing trie node"

\* What a successful reply to a read of a kind may hold.
Truthful(r, kind) ==
    ok(r) => /\ r.body \in {"result", "execution reverted", "missing trie node"}
             /\ r.body = "result" => kind # "revert"

LEMMA EndpointReplies ==
    ASSUME NEW how, NEW kind
    PROVE  /\ Truthful(Answer(how, kind), kind)
           /\ CanAnswer(how, kind) => Conclusive(Answer(how, kind))
  BY DEF Truthful, Answer, CanAnswer, Conclusive, ok, Reply, Unreachable

\* The proxy passes on what an upstream says, and its own refusals are none.
LEMMA RelayedReplies ==
    ASSUME NEW how, NEW kind
    PROVE  /\ Truthful(Relayed(Answer(how, kind)), kind)
           /\ CanAnswer(how, kind) => Conclusive(Relayed(Answer(how, kind)))
<1>1. CASE Answer(how, kind) = Unreachable
  BY <1>1 DEF Relayed, Truthful, CanAnswer, ok, Reply, Unreachable
<1>2. CASE Answer(how, kind) # Unreachable
  BY <1>2, EndpointReplies DEF Relayed
<1> QED BY <1>1, <1>2

LEMMA Refusals ==
    ASSUME NEW request, NEW secret
    PROVE  RefusalOf(request, secret) \in {0, 405, 403, 500, 413}
  BY DEF RefusalOf

-----------------------------------------------------------------------------
(* The invariant of a build's reads.                                       *)

Reads == [state : {"idle", "asking", "answered", "reverted", "failed"}, kind : Kinds,
          i : Nat, round : Nat, got : {NONE, "result", "empty"}, reverts : Nat]

LEMMA ReadFields ==
    ASSUME NEW r \in Reads
    PROVE  /\ r.reverts + 1 \in Nat /\ r.round + 1 \in Nat
           /\ [r EXCEPT !.state = "reverted"] \in Reads /\ [r EXCEPT !.i = 1] \in Reads
           /\ \A n \in Nat : [r EXCEPT !.reverts = n] \in Reads /\ [r EXCEPT !.round = n] \in Reads
  BY DEF Reads

ReadTypeOK ==
    /\ health \in [Endpoints -> Health]
    /\ read \in Reads
    /\ able \subseteq Endpoints

Listed == NoRepeats(urls) /\ \E i \in 1..Len(urls) : urls[i] = PUBLIC

\* None of the endpoints asked in this round was able to answer throughout.
Asking ==
    /\ read.i \in 1..Len(urls)
    /\ \A e \in able : CanAnswer(health[e], read.kind)
    /\ \A j \in 1..(read.i - 1) : Reached(urls[j]) \cap able = {}

\* A reply on its way is true to the kind of the read, and inconclusive only
\* from where no endpoint was able to answer.
Arriving(r) ==
    /\ Truthful(r, read.kind)
    /\ Conclusive(r) \/ Reached(urls[read.i]) \cap able = {}

Exchange ==
    \/ wire = NoWire
    \/ /\ read.state = "asking"
       /\ \/ wire = [at |-> urls[read.i]]
          \/ wire = [at |-> "upstream"] /\ Reached(urls[read.i]) = {KEYED}
          \/ \E r : wire = [at |-> "app", reply |-> r] /\ Arriving(r)

ReadInv ==
    /\ ReadTypeOK
    /\ IF phase = "serving" THEN build \in Builds /\ Listed ELSE urls = <<>> /\ read = Unread /\ wire = NoWire
    /\ read.state = "asking" => Asking
    /\ Exchange
    /\ read.state = "answered" => read.got = "result" /\ read.kind # "revert"
    /\ NoEndpointWasPassedOver

LEMMA InitReadInv == Init => ReadInv
  BY DEF Init, ReadInv, ReadTypeOK, Reads, Exchange, NoEndpointWasPassedOver, Unread, NoWire, Health, Kinds

\* The probe has no build.
LEMMA ProbeReadInv == ReadInv /\ Probe => ReadInv'
<1> SUFFICES ASSUME ReadInv, Probe PROVE ReadInv'
  OBVIOUS
<1>1. UNCHANGED rpcVars
  BY DEF Probe, Attempt, Identity, Sample, Limits, Switch, StateDepth, Burst, Emit, Go
<1>2. phase # "serving" /\ phase' # "serving"
  BY DEF Probe, Attempt, Calling, Identity, Sample, Limits, Switch, StateDepth, Burst, Emit, Go, Replied
<1> QED BY <1>1, <1>2 DEF ReadInv, ReadTypeOK, Reads, Exchange, Asking, Arriving, Reached,
                          NoEndpointWasPassedOver, rpcVars, Listed

\* A build starts with nothing read.
LEMMA DeployReadInv == ASSUME ReadInv, NEW b \in Builds, Deploy(b) PROVE ReadInv'
<1>1. phase # "serving" /\ phase' = "serving" /\ build' = b /\ urls' = rpcUrls(b)
  BY DEF Deploy
<1>2. read = Unread /\ read' = read /\ wire = NoWire /\ wire' = wire /\ health' = health /\ able' = able
  BY <1>1 DEF Deploy, ReadInv
<1>3. Listed'
  BY <1>1, ListOfBuild DEF Listed
<1>4. ReadTypeOK'
  BY <1>2 DEF ReadInv, ReadTypeOK, Reads
<1> QED BY <1>1, <1>2, <1>3, <1>4 DEF ReadInv, Exchange, NoEndpointWasPassedOver, Unread

-----------------------------------------------------------------------------
(* The steps of a build.                                                   *)

LEMMA TurnReadInv ==
    ASSUME ReadInv, phase = "serving", phase' = phase,
           NEW e \in Endpoints, NEW h \in Health, Turn(e, h)
    PROVE  ReadInv'
<1>1. /\ read' = read /\ wire' = wire /\ urls' = urls /\ build' = build
      /\ health' = [health EXCEPT ![e] = h] /\ read.state \in {"idle", "asking"}
      /\ able' \subseteq able
      /\ read.state = "asking" /\ ~CanAnswer(h, read.kind) => e \notin able'
  BY DEF Turn
<1>2. ReadTypeOK'
  BY <1>1 DEF ReadInv, ReadTypeOK, Reads
<1>3. \A u : Reached(u)' = Reached(u)
  BY <1>1 DEF Reached
<1>4. (read.state = "asking" => Asking)'
  <2> SUFFICES ASSUME read.state = "asking" PROVE Asking'
    BY <1>1
  <2>1. Asking
    BY DEF ReadInv
  <2>2. \A x \in able' : CanAnswer(health'[x], read'.kind)
    BY <1>1, <2>1 DEF Asking, ReadInv, ReadTypeOK, Reads
  <2> QED BY <1>1, <1>3, <2>1, <2>2 DEF Asking
<1>5. Exchange'
  BY <1>1, <1>3 DEF ReadInv, Exchange, Arriving
<1> QED BY <1>1, <1>2, <1>4, <1>5 DEF ReadInv, Listed, NoEndpointWasPassedOver

LEMMA ReadReadInv ==
    ASSUME ReadInv, phase = "serving", phase' = phase, NEW kind \in Kinds, Read(kind)
    PROVE  ReadInv'
<1>1. /\ read.state = "idle" /\ wire' = wire /\ urls' = urls /\ build' = build /\ health' = health
      /\ read' = [Unread EXCEPT !.state = "asking", !.kind = kind, !.i = 1]
      /\ able' = {e \in Endpoints : CanAnswer(health[e], kind)}
  BY DEF Read
<1>2. wire = NoWire
  BY <1>1 DEF ReadInv, Exchange
<1>3. Len(urls) >= 1
  BY DEF ReadInv, Listed, NoRepeats
<1>4. read' = [state |-> "asking", kind |-> kind, i |-> 1, round |-> 0, got |-> NONE, reverts |-> 0]
  BY <1>1 DEF Unread
<1>5. ReadTypeOK'
  BY <1>1, <1>4 DEF ReadInv, ReadTypeOK, Reads
<1>6. Asking'
  BY <1>1, <1>3, <1>4 DEF ReadInv, ReadTypeOK, Reads, Listed, NoRepeats, Asking
<1>7. Exchange'
  BY <1>1, <1>2 DEF Exchange
<1> QED BY <1>1, <1>4, <1>5, <1>6, <1>7 DEF ReadInv, Listed, NoEndpointWasPassedOver

\* A step that only moves the exchange.
Onward == /\ UNCHANGED <<build, urls, health, read, able>>
          /\ phase = "serving" /\ phase' = phase

LEMMA OnwardReadInv ==
    ASSUME ReadInv, Onward, Exchange'
    PROVE  ReadInv'
  BY DEF Onward, ReadInv, ReadTypeOK, Reads, Listed, Asking, Reached, NoEndpointWasPassedOver

LEMMA AskReadInv == ReadInv /\ Onward /\ Ask => ReadInv'
  BY OnwardReadInv DEF Onward, Ask, Exchange

LEMMA ProxyAnswersReadInv == ReadInv /\ Onward /\ ProxyAnswers => ReadInv'
<1> SUFFICES ASSUME ReadInv, Onward, ProxyAnswers PROVE Exchange'
  BY OnwardReadInv
<1> DEFINE refusal == RefusalOf(AppRequest(build.path), build.secret)
<1>1. read.state = "asking" /\ urls[read.i] = PROXY
  BY Distinctness DEF ProxyAnswers, ReadInv, Exchange, NoWire, URLs
<1>2. build.host \in {"static", "function"}
  BY DEF ReadInv, Onward, Builds
<1>3. CASE build.host = "static"
  <2>1. wire' = [at |-> "app", reply |-> Reply(404, "page")] /\ Reached(PROXY) = {}
    BY <1>3 DEF ProxyAnswers, Reached
  <2>2. Arriving(Reply(404, "page"))'
    BY <1>1, <2>1 DEF Arriving, Onward, Truthful, ok, Reply, Reached
  <2> QED BY <1>1, <2>1, <2>2 DEF Exchange, Onward
<1>4. CASE build.host = "function" /\ refusal # 0
  <2>1. wire' = [at |-> "app", reply |-> Reply(refusal, "error")] /\ Reached(PROXY) = {}
    BY <1>4 DEF ProxyAnswers, Reached
  <2>2. ~ok(Reply(refusal, "error"))
    BY <1>4, Refusals DEF ok, Reply
  <2>3. Arriving(Reply(refusal, "error"))'
    BY <1>1, <2>1, <2>2 DEF Arriving, Onward, Truthful, Reached
  <2> QED BY <1>1, <2>1, <2>3 DEF Exchange, Onward
<1>5. CASE build.host = "function" /\ refusal = 0
  <2>1. wire' = [at |-> "upstream"] /\ Reached(PROXY) = {KEYED}
    BY <1>5 DEF ProxyAnswers, Reached
  <2> QED BY <1>1, <2>1 DEF Exchange, Onward, Reached
<1> QED BY <1>2, <1>3, <1>4, <1>5

LEMMA ProxyRelaysReadInv == ReadInv /\ Onward /\ ProxyRelays => ReadInv'
<1> SUFFICES ASSUME ReadInv, Onward, ProxyRelays PROVE Exchange'
  BY OnwardReadInv
<1> DEFINE r == Relayed(Answer(health[KEYED], read.kind))
<1>1. read.state = "asking" /\ Asking
  BY Distinctness DEF ProxyRelays, ReadInv, Exchange, NoWire
<1>2. Reached(urls[read.i]) = {KEYED}
  <2>1. urls[read.i] # "upstream" /\ NONE # "upstream"
    BY <1>1, Distinctness DEF ReadInv, Onward, Listed, NoRepeats, Asking
  <2> QED BY <2>1 DEF ProxyRelays, ReadInv, Exchange, NoWire
<1>3. wire' = [at |-> "app", reply |-> r] /\ Truthful(r, read.kind)
  BY RelayedReplies DEF ProxyRelays
<1>4. KEYED \in able => Conclusive(r)
  BY <1>1, RelayedReplies DEF Asking
<1>5. Arriving(r)'
  BY <1>2, <1>3, <1>4 DEF Arriving, Onward, Reached
<1> QED BY <1>1, <1>3, <1>5 DEF Exchange, Onward

LEMMA EndpointAnswersReadInv == ReadInv /\ Onward /\ EndpointAnswers => ReadInv'
<1> SUFFICES ASSUME ReadInv, Onward, EndpointAnswers PROVE Exchange'
  BY OnwardReadInv
<1> DEFINE e == urls[read.i]
           r == Answer(health[e], read.kind)
<1>1. read.state = "asking" /\ Asking /\ wire.at = e /\ e \in Endpoints
  BY Distinctness DEF EndpointAnswers, ReadInv, Exchange, NoWire, URLs
<1>2. Reached(e) = {e}
  BY <1>1, Distinctness DEF Reached
<1>3. wire' = [at |-> "app", reply |-> r] /\ Truthful(r, read.kind)
  BY <1>1, EndpointReplies DEF EndpointAnswers
<1>4. e \in able => Conclusive(r)
  BY <1>1, EndpointReplies DEF Asking
<1>5. Arriving(r)'
  BY <1>2, <1>3, <1>4 DEF Arriving, Onward, Reached
<1> QED BY <1>1, <1>3, <1>5 DEF Exchange, Onward

LEMMA ReceivedReadInv ==
    ASSUME ReadInv, phase = "serving", phase' = phase, Received
    PROVE  ReadInv'
<1> DEFINE r == wire.reply
<1>1. /\ wire' = NoWire /\ wire.at = "app" /\ urls' = urls /\ build' = build /\ health' = health
      /\ able' = able
  BY DEF Received
<1>2. read.state = "asking" /\ Asking /\ Arriving(r) /\ Listed
  BY <1>1, Distinctness DEF ReadInv, Exchange, NoWire, Asking, Listed, NoRepeats
<1>3. Exchange'
  BY <1>1 DEF Exchange
<1>4. \A u : Reached(u)' = Reached(u)
  BY <1>1 DEF Reached
<1>5. Len(urls) \in Nat
  BY <1>2 DEF Listed, NoRepeats
<1>6. read \in Reads
  BY DEF ReadInv, ReadTypeOK, Reads
<1>7. CASE ok(r) /\ r.body = "execution reverted"
  <2>1. read' = [read EXCEPT !.state = "reverted", !.reverts = @ + 1]
    BY <1>7 DEF Received
  <2>2. read' \in Reads
    BY <1>6, <2>1, ReadFields
  <2>3. ReadTypeOK' /\ read'.state = "reverted"
    BY <1>1, <1>6, <2>1, <2>2 DEF ReadInv, ReadTypeOK, Reads
  <2> QED BY <1>1, <1>2, <1>3, <2>3 DEF ReadInv, Listed, NoEndpointWasPassedOver
<1>8. CASE ok(r) /\ r.body \in {"result", "empty"}
  <2>1. read' = [read EXCEPT !.state = "answered", !.got = r.body]
    BY <1>8 DEF Received
  <2>2. r.body = "result" /\ read.kind # "revert"
    BY <1>2, <1>8 DEF Arriving, Truthful
  <2> QED BY <1>1, <1>2, <1>3, <1>6, <2>1, <2>2 DEF ReadInv, ReadTypeOK, Reads, Listed, NoEndpointWasPassedOver
<1>9. CASE ~(ok(r) /\ r.body \in {"execution reverted", "result", "empty"})
  <2>1. ~Conclusive(r)
    BY <1>2, <1>9 DEF Arriving, Truthful, Conclusive
  <2>2. \A j \in 1..read.i : Reached(urls[j]) \cap able = {}
    BY <1>2, <1>6, <2>1 DEF Arriving, Asking
  <2>3. CASE LastTry(read, Len(urls))
    <3>1. read' = [read EXCEPT !.state = "failed"] /\ read.i = Len(urls)
      BY <1>9, <2>3 DEF Received, LastTry
    <3>2. \A j \in DOMAIN urls : Reached(urls[j]) \cap able = {}
      BY <1>2, <2>2, <3>1 DEF Listed, NoRepeats
    <3>3. PUBLIC \notin able
      BY <1>2, <3>2, Distinctness DEF Listed, NoRepeats, Reached
    <3>4. NoEndpointWasPassedOver'
      BY <1>1, <1>4, <3>2, <3>3 DEF NoEndpointWasPassedOver
    <3> QED BY <1>1, <1>2, <1>3, <1>6, <3>1, <3>4 DEF ReadInv, ReadTypeOK, Reads, Listed
  <2>4. CASE ~LastTry(read, Len(urls)) /\ read.i < Len(urls)
    <3>1. read' = [read EXCEPT !.i = @ + 1]
      BY <1>9, <2>4 DEF Received
    <3>2. Asking'
      BY <1>1, <1>2, <1>4, <1>5, <1>6, <2>2, <2>4, <3>1 DEF Asking
    <3> QED BY <1>1, <1>2, <1>3, <1>6, <3>1, <3>2 DEF ReadInv, ReadTypeOK, Reads, Listed, NoEndpointWasPassedOver
  <2>5. CASE ~LastTry(read, Len(urls)) /\ ~(read.i < Len(urls))
    <3>1. read' = [read EXCEPT !.i = 1, !.round = @ + 1]
      BY <1>9, <2>5 DEF Received
    <3>2. Asking'
      BY <1>1, <1>2, <1>5, <1>6, <3>1 DEF Asking
    <3>3. read' \in Reads
      BY <1>6, <3>1, ReadFields
    <3>4. ReadTypeOK' /\ read'.state = "asking"
      BY <1>1, <1>2, <1>6, <3>1, <3>3 DEF ReadInv, ReadTypeOK, Reads
    <3> QED BY <1>1, <1>2, <1>3, <3>2, <3>4 DEF ReadInv, Listed, NoEndpointWasPassedOver
  <2> QED BY <2>3, <2>4, <2>5
<1> QED BY <1>7, <1>8, <1>9

LEMMA ServeReadInv == ReadInv /\ Serve => ReadInv'
<1> SUFFICES ASSUME ReadInv, Serve PROVE ReadInv'
  OBVIOUS
<1>1. phase = "serving" /\ phase' = phase
  BY DEF Serve, probeVars
<1>2. ASSUME Ask \/ ProxyAnswers \/ ProxyRelays \/ EndpointAnswers PROVE ReadInv'
  <2>1. Onward
    BY <1>1, <1>2 DEF Onward, Ask, ProxyAnswers, ProxyRelays, EndpointAnswers
  <2> QED BY <1>2, <2>1, AskReadInv, ProxyAnswersReadInv, ProxyRelaysReadInv, EndpointAnswersReadInv
<1> QED BY <1>1, <1>2, TurnReadInv, ReadReadInv, ReceivedReadInv DEF Serve, RpcNext

LEMMA NextReadInv == ReadInv /\ [Next]_allVars => ReadInv'
<1>1. ReadInv /\ UNCHANGED allVars => ReadInv'
  BY DEF allVars, rpcVars, probeVars, ReadInv, ReadTypeOK, Reads, Listed, Asking, Exchange, Arriving,
         Reached, NoEndpointWasPassedOver
<1> QED BY <1>1, ProbeReadInv, DeployReadInv, ServeReadInv DEF Next

LEMMA AlwaysReadInv == Spec => []ReadInv
  BY InitReadInv, NextReadInv, PTL DEF Spec

\* A read that fails was one that no endpoint of the build, nor the public one,
\* was able to answer throughout, whatever the list, the proxy and its host.
\* (wagmi.ts:19-34, rpcProxyHandler.ts:176)
THEOREM NoneIsPassedOver == Spec => []NoEndpointWasPassedOver
<1>1. ReadInv => NoEndpointWasPassedOver
  BY DEF ReadInv
<1> QED BY <1>1, AlwaysReadInv, PTL

\* An answer the app is given is the chain's, and every build's list ends in the
\* public endpoint, named once.  (rpcProxyHandler.ts:168-199, rpcEndpoints.ts:97)
THEOREM AnswersAreOfTheChain == Spec => []AnswersAreTheChains
<1>1. ReadInv => AnswersAreTheChains
  <2>1. Listed => Contains(urls, PUBLIC) /\ IsInjective(urls)
    BY DEF Listed, NoRepeats, Contains, IsInjective
  <2>2. ReadInv => (urls # <<>> => Listed)
    BY DEF ReadInv
  <2> QED BY <2>1, <2>2 DEF ReadInv, AnswersAreTheChains
<1> QED BY <1>1, AlwaysReadInv, PTL

-----------------------------------------------------------------------------
(* The floor between calls, by the attempts of the call it is raised in:   *)
(* a throttled call does not give up below the ceiling.                    *)

Floor == <<0, 2, 4, 8, 16, 32, 40, 40>>

Calls == [retries : {3}, attempt : 0..7, throttled : BOOLEAN, done : BOOLEAN, ok : BOOLEAN, blame : BOOLEAN]

LEMMA BumpedPace ==
    ASSUME NEW p \in 0..PACE_CEILING, NEW a \in 0..6, Floor[a + 1] <= p
    PROVE  /\ bumpPace(p) \in 0..PACE_CEILING
           /\ Floor[a + 2] <= bumpPace(p)
           /\ Greater(bumpPace(p), 3 * (a + 1)) \in 0..PACE_CEILING
<1>1. a = 0 \/ a = 1 \/ a = 2 \/ a = 3 \/ a = 4 \/ a = 5 \/ a = 6
  OBVIOUS
<1> QED BY <1>1 DEF bumpPace, Lesser, Greater, PACE_CEILING, Floor

\* What a call must come to when none of its replies is lost.
Expected(c) == IF Usable THEN c.ok ELSE ~c.ok /\ c.blame = candidate.rpc

PacedCall ==
    /\ call \in Calls
    /\ pace \in 0..PACE_CEILING /\ since \in 0..PACE_CEILING
    /\ Floor[call.attempt + 1] <= pace
    /\ IF call.done THEN Expected(call) ELSE ~call.ok /\ ~call.blame

\* The probe's first section while no reply has been lost.
Identifying ==
    /\ candidate \in Candidates
    /\ found = [NothingFound EXCEPT !.replies = found.replies]
    /\ found.replies \in Seq(Calls) /\ Len(found.replies) <= 3
    /\ \A i \in 1..Len(found.replies) : Expected(found.replies[i])
    /\ PacedCall

PaceInv ==
    /\ flakes \in Nat
    /\ DOMAIN found = DOMAIN NothingFound
    /\ phase = "identity" /\ flakes = 0 => Identifying
    /\ phase = "serving" => found.identity = NONE
    /\ ThrottlingIsNoIncapability

LEMMA InitPaceInv == Init => PaceInv
<1> SUFFICES ASSUME Init PROVE PaceInv
  OBVIOUS
<1>1. call \in Calls /\ call.attempt = 0 /\ ~call.done /\ ~call.ok /\ ~call.blame
  BY DEF Init, NewCall, Calls
<1>2. pace \in {0, 20} /\ since \in {0, 40}
  BY DEF Init, PACE_CEILING
<1>3. PacedCall
  BY <1>1, <1>2 DEF PacedCall, PACE_CEILING, Floor
<1>4. found = NothingFound /\ found.replies = <<>> /\ found.identity = NONE
  BY DEF Init, NothingFound
<1>5. found = [NothingFound EXCEPT !.replies = found.replies]
  BY <1>4 DEF NothingFound
<1>6. Identifying
  BY <1>3, <1>4, <1>5 DEF Identifying, Init
<1> QED BY <1>4, <1>6 DEF PaceInv, ThrottlingIsNoIncapability, Init

\* One attempt, none of whose replies is lost.
LEMMA AttemptPaced ==
    ASSUME Identifying, ~call.done, candidate.rpc \in BOOLEAN, candidate.window \in Nat,
           NEW r \in {IF ~candidate.rpc THEN "page"
                      ELSE IF Greater(since, pace) >= candidate.window THEN "answer" ELSE "throttle"},
           call' = AfterAttempt(call, r).call, pace' = AfterAttempt(call, r).pace,
           since' = AfterAttempt(call, r).wait, candidate' = candidate
    PROVE  PacedCall'
<1> DEFINE c == call
<1>1. /\ c \in Calls /\ pace \in 0..PACE_CEILING /\ since \in 0..PACE_CEILING
      /\ Floor[c.attempt + 1] <= pace /\ ~c.ok /\ ~c.blame
  BY DEF Identifying, PacedCall
<1>2. c.attempt \in 0..7 /\ c.retries = 3 /\ ThrottleRetries(c.retries) = 7
  BY <1>1 DEF Calls, ThrottleRetries
<1>3. \A x : Expected(x)' = Expected(x)
  BY DEF Expected, Usable
<1>4. Greater(since, pace) \in 0..PACE_CEILING /\ pace <= Greater(since, pace)
  BY <1>1 DEF Greater, PACE_CEILING
<1>5. CASE r = "page"
  <2>1. call' = [c EXCEPT !.done = TRUE] /\ pace' = pace /\ since' = 0
    BY <1>5 DEF AfterAttempt, classifyReply
  <2>2. call' \in Calls /\ call'.done /\ ~call'.ok /\ ~call'.blame /\ call'.attempt = c.attempt
    BY <1>1, <2>1 DEF Calls
  <2>3. candidate.rpc = FALSE /\ call'.blame = FALSE
    BY <1>5, <2>2 DEF Calls
  <2>4. Expected(call')
    BY <2>2, <2>3 DEF Expected, Usable
  <2> QED BY <1>1, <1>3, <2>1, <2>2, <2>4 DEF PacedCall, PACE_CEILING
<1>6. CASE r = "answer"
  <2>1. call' = [c EXCEPT !.done = TRUE, !.ok = TRUE] /\ pace' = pace /\ since' = 0
    BY <1>6 DEF AfterAttempt, classifyReply
  <2>2. call' \in Calls /\ call'.done /\ call'.ok /\ call'.attempt = c.attempt
    BY <1>1, <2>1 DEF Calls
  <2>3. Expected(call')
    BY <1>4, <1>6, <2>2 DEF Expected, Usable, PACE_CEILING
  <2> QED BY <1>1, <1>3, <2>1, <2>2, <2>3 DEF PacedCall, PACE_CEILING
<1>7. CASE r = "throttle" /\ c.attempt < 7
  <2>1. /\ call' = [c EXCEPT !.attempt = @ + 1, !.throttled = TRUE] /\ pace' = bumpPace(pace)
        /\ since' = Greater(bumpPace(pace), 3 * (c.attempt + 1))
    BY <1>2, <1>7 DEF AfterAttempt, classifyReply
  <2>2. c.attempt \in 0..6 /\ c.attempt + 1 \in 0..7
    BY <1>2, <1>7
  <2>3. [c EXCEPT !.attempt = c.attempt + 1] \in Calls
    BY <1>1, <2>2 DEF Calls
  <2>4. call' \in Calls
    BY <2>1, <2>3 DEF Calls
  <2>5. ~call'.done /\ ~call'.ok /\ ~call'.blame /\ call'.attempt = c.attempt + 1
    BY <1>1, <2>1 DEF Calls
  <2>6. pace' \in 0..PACE_CEILING /\ since' \in 0..PACE_CEILING /\ Floor[call'.attempt + 1] <= pace'
    BY <1>1, <2>1, <2>2, <2>5, BumpedPace
  <2> QED BY <2>4, <2>5, <2>6 DEF PacedCall
<1>8. CASE r = "throttle" /\ ~(c.attempt < 7)
  <2>1. call' = [c EXCEPT !.done = TRUE, !.blame = TRUE] /\ pace' = pace /\ since' = 0
    BY <1>2, <1>8 DEF AfterAttempt, classifyReply
  <2>2. call' \in Calls /\ call'.done /\ ~call'.ok /\ call'.blame /\ call'.attempt = c.attempt
    BY <1>1, <2>1 DEF Calls
  <2>3. candidate.rpc /\ ~(Greater(since, pace) >= candidate.window)
    BY <1>8
  <2>4. c.attempt = 7 /\ 40 <= pace
    BY <1>1, <1>2, <1>8 DEF Floor, PACE_CEILING
  <2>5. ~Usable
    BY <1>1, <1>4, <2>3, <2>4 DEF Usable, PACE_CEILING
  <2>6. candidate.rpc = TRUE /\ call'.blame = TRUE
    BY <2>1, <2>2, <2>3 DEF Calls
  <2>7. Expected(call')
    BY <2>2, <2>5, <2>6 DEF Expected
  <2> QED BY <1>1, <1>3, <2>1, <2>2, <2>7 DEF PacedCall, PACE_CEILING
<1> QED BY <1>5, <1>6, <1>7, <1>8

LEMMA AttemptPaceInv == PaceInv /\ Attempt => PaceInv'
<1> SUFFICES ASSUME PaceInv, Attempt PROVE PaceInv'
  OBVIOUS
<1>1. /\ phase' = phase /\ candidate' = candidate /\ found' = found
      /\ phase \notin {"done", "reported", "serving"} /\ ~call.done
  BY DEF Attempt, Calling
<1>2. PICK r \in Possible(Greater(since, pace)) :
         /\ call' = AfterAttempt(call, r).call /\ pace' = AfterAttempt(call, r).pace
         /\ since' = AfterAttempt(call, r).wait
         /\ flakes' = IF r \in {"5xx", "network"} THEN flakes + 1 ELSE flakes
  BY DEF Attempt
<1>3. flakes' \in Nat /\ (flakes' = 0 => flakes = 0 /\ r \notin {"5xx", "network"})
  BY <1>2 DEF PaceInv
<1>4. ASSUME phase = "identity", flakes' = 0 PROVE Identifying'
  <2>1. Identifying
    BY <1>3, <1>4 DEF PaceInv
  <2>2. candidate.rpc \in BOOLEAN /\ candidate.window \in Nat
    BY <2>1, CandidatesPaced DEF Identifying
  <2>3. r \in {IF ~candidate.rpc THEN "page"
               ELSE IF Greater(since, pace) >= candidate.window THEN "answer" ELSE "throttle"}
    BY <1>2, <1>3, <1>4 DEF Possible
  <2>4. PacedCall'
    BY <1>1, <1>2, <2>1, <2>2, <2>3, AttemptPaced
  <2> QED BY <1>1, <2>1, <2>4 DEF Identifying, Expected, Usable
<1> QED BY <1>1, <1>3, <1>4 DEF PaceInv, ThrottlingIsNoIncapability, Usable

LEMMA IdentityPaceInv == PaceInv /\ Identity => PaceInv'
<1> SUFFICES ASSUME PaceInv, Identity PROVE PaceInv'
  OBVIOUS
<1> DEFINE replies == Append(found.replies, call)
<1>1. phase = "identity" /\ call.done /\ candidate' = candidate /\ flakes' = flakes
      /\ pace' = pace /\ since' = since
  BY DEF Identity, Replied, Go
<1>2. DOMAIN found' = DOMAIN found
  BY DEF Identity
<1>3. phase' # "serving" /\ phase' # "reported"
  BY DEF Identity, Go
<1>4. CASE flakes # 0
  BY <1>1, <1>2, <1>3, <1>4 DEF PaceInv, ThrottlingIsNoIncapability
<1>5. CASE flakes = 0
  <2>1. Identifying
    BY <1>1, <1>5 DEF PaceInv
  <2>2. call \in Calls /\ Expected(call)
    BY <1>1, <2>1 DEF Identifying, PacedCall
  <2>3. /\ replies \in Seq(Calls) /\ Len(replies) = Len(found.replies) + 1 /\ Len(replies) <= 4
        /\ \A i \in 1..Len(replies) : Expected(replies[i])
    BY <2>1, <2>2 DEF Identifying
  <2>4. \A x : Expected(x)' = Expected(x)
    BY <1>1 DEF Expected, Usable
  <2>5. CASE Len(replies) < 4
    <3>1. phase' = "identity" /\ call' = NewCall(3) /\ found' = [found EXCEPT !.replies = replies]
      BY <2>5 DEF Identity, Go
    <3>2. found' = [NothingFound EXCEPT !.replies = replies] /\ found'.replies = replies
      BY <2>1, <3>1 DEF Identifying, NothingFound
    <3>3. PacedCall'
      <4>1. call' \in Calls /\ call'.attempt = 0 /\ ~call'.done /\ ~call'.ok /\ ~call'.blame
        BY <3>1 DEF NewCall, Calls
      <4>2. pace' \in 0..PACE_CEILING /\ since' \in 0..PACE_CEILING /\ Floor[call'.attempt + 1] <= pace'
        <5>1. pace \in 0..PACE_CEILING /\ since \in 0..PACE_CEILING
          BY <2>1 DEF Identifying, PacedCall
        <5>2. Floor[call'.attempt + 1] = 0
          BY <4>1 DEF Floor
        <5> QED BY <1>1, <5>1, <5>2 DEF PACE_CEILING
      <4> QED BY <4>1, <4>2 DEF PacedCall
    <3>4. Identifying'
      BY <1>1, <2>1, <2>3, <2>4, <2>5, <3>2, <3>3 DEF Identifying
    <3>5. found'.identity = NONE
      BY <3>2 DEF NothingFound
    <3> QED BY <1>1, <1>2, <1>3, <3>4, <3>5 DEF PaceInv, ThrottlingIsNoIncapability
  <2>6. CASE ~(Len(replies) < 4)
    <3>1. /\ phase' # "identity"
          /\ found' = [found EXCEPT !.replies = <<>>, !.identity = IdentityVerdict(replies)]
      BY <2>6 DEF Identity, Go
    <3>2. found'.identity = IdentityVerdict(replies)
      BY <3>1 DEF PaceInv, NothingFound
    <3>3. /\ replies[1] \in Calls /\ replies[3] \in Calls
          /\ Expected(replies[1]) /\ Expected(replies[3])
      BY <2>3, <2>6
    <3>4. candidate.rpc \in BOOLEAN
      BY <2>1, CandidatesPaced DEF Identifying
    <3>5. IdentityVerdict(replies) = IF Usable THEN "reachable"
                                     ELSE IF candidate.rpc THEN "THROTTLED" ELSE "FATAL"
      BY <3>3, <3>4 DEF IdentityVerdict, Expected, Calls
    <3> QED BY <1>1, <1>2, <1>3, <3>1, <3>2, <3>5 DEF PaceInv, ThrottlingIsNoIncapability, Usable
  <2> QED BY <2>5, <2>6
<1> QED BY <1>4, <1>5

\* The later sections leave the verdict alone.
LEMMA SectionsPaceInv ==
    ASSUME PaceInv, Sample \/ Limits \/ Switch \/ StateDepth \/ Burst
    PROVE  PaceInv'
<1>1. /\ candidate' = candidate /\ flakes' = flakes
      /\ phase \notin {"identity", "reported", "serving"} /\ phase' \notin {"identity", "reported", "serving"}
  BY DEF Sample, Limits, Switch, StateDepth, Burst, Go, Replied
<1>2. DOMAIN found' = DOMAIN found /\ found'.identity = found.identity
  <2>1. CASE Sample
    BY <2>1 DEF Sample, PaceInv, NothingFound
  <2>2. CASE Limits
    BY <2>2 DEF Limits, PaceInv, NothingFound
  <2>3. CASE Switch
    BY <2>3 DEF Switch, PaceInv, NothingFound
  <2>4. CASE StateDepth
    BY <2>4 DEF StateDepth, PaceInv, NothingFound
  <2>5. CASE Burst
    BY <2>5 DEF Burst, PaceInv, NothingFound
  <2> QED BY <2>1, <2>2, <2>3, <2>4, <2>5
<1> QED BY <1>1, <1>2 DEF PaceInv, ThrottlingIsNoIncapability, Usable

LEMMA EmitPaceInv == PaceInv /\ Emit => PaceInv'
<1> SUFFICES ASSUME PaceInv, Emit PROVE PaceInv'
  OBVIOUS
<1>1. phase' = "reported" /\ flakes' = 0 /\ found' = [NothingFound EXCEPT !.identity = found.identity]
  BY DEF Emit
<1>2. DOMAIN found' = DOMAIN NothingFound
  BY <1>1 DEF NothingFound
<1> QED BY <1>1, <1>2 DEF PaceInv, ThrottlingIsNoIncapability

LEMMA DeployPaceInv == ASSUME PaceInv, NEW b \in Builds, Deploy(b) PROVE PaceInv'
<1>1. phase' = "serving" /\ found' = NothingFound /\ flakes' = flakes /\ NothingFound.identity = NONE
  BY DEF Deploy, NothingFound
<1> QED BY <1>1 DEF PaceInv, ThrottlingIsNoIncapability

LEMMA NextPaceInv == PaceInv /\ [Next]_allVars => PaceInv'
<1>1. PaceInv /\ UNCHANGED probeVars => PaceInv'
  BY DEF probeVars, PaceInv, Identifying, PacedCall, Expected, Usable, ThrottlingIsNoIncapability
<1>2. Serve => UNCHANGED probeVars
  BY DEF Serve
<1>3. UNCHANGED allVars => UNCHANGED probeVars
  BY DEF allVars
<1> QED BY <1>1, <1>2, <1>3, AttemptPaceInv, IdentityPaceInv, SectionsPaceInv, EmitPaceInv, DeployPaceInv
        DEF Next, Probe

\* A provider that only throttles is told apart from one that does not work,
\* however slow it wants its callers and however many calls were let through
\* before: eight attempts raise the floor to its ceiling, and the verdict is then
\* that of the ceiling alone.  (rpc-probe.mjs:125-223, 238-345)
THEOREM ThrottledIsNotBroken == Spec => []ThrottlingIsNoIncapability
<1>1. PaceInv => ThrottlingIsNoIncapability
  BY DEF PaceInv
<1> QED BY <1>1, InitPaceInv, NextPaceInv, PTL DEF Spec

-----------------------------------------------------------------------------
(* What the report says.  First: no call after the identity fails, unless   *)
(* more replies are lost than one call has retries.                        *)

\* How many times a floor was raised from none; ten seconds is between two.
Paces == {0, 2, 4, 8, 16, 20, 32, 40}
Level(p) == CASE p = 0 -> 0 [] p = 2 -> 1 [] p = 4 -> 2 [] p = 8 -> 3 [] p = 16 -> 4
              [] p = 40 -> 6 [] OTHER -> 5

\* What the i-th call, from 0, can count on at its attempt a, with floor p, f replies
\* lost and interval w.  An attempt that fails raises the floor or loses a reply, so n
\* is what the attempts of the calls before it brought: an answer after a attempts
\* that the floor does not explain shows that w is at most 3 * a.
Ready(i, p, f, a, w) ==
    LET n == Level(p) + f - a
    IN CASE i = 0 -> TRUE
         [] i = 1 -> n >= 0
         [] i = 2 -> p >= w \/ w <= 3 * n \/ n >= 4
         [] OTHER -> a <= f /\ (p >= w \/ 2 * w <= 3 * n)

LEMMA BumpedLevel ==
    ASSUME NEW p \in Paces
    PROVE  /\ bumpPace(p) \in Paces /\ p <= bumpPace(p) /\ Level(p) \in 0..6
           /\ p # 40 => Level(bumpPace(p)) = Level(p) + 1
           /\ p = 40 \/ (Level(p) = 5 /\ p >= 20) \/ (Level(p) = 4 /\ p >= 16) \/ (Level(p) = 3 /\ p >= 8)
              \/ (Level(p) = 2 /\ p >= 4) \/ (Level(p) = 1 /\ p >= 2) \/ Level(p) = 0
           /\ Level(p) = 5 => bumpPace(p) = 40
           /\ Level(p) = 4 => bumpPace(p) = 32
           /\ Level(p) = 3 => bumpPace(p) = 16
           /\ Level(p) = 2 => bumpPace(p) = 8
           /\ Level(p) = 1 => bumpPace(p) = 4
  BY DEF Paces, bumpPace, Lesser, PACE_CEILING, Level

\* A throttled attempt.
LEMMA ThrottleReady ==
    ASSUME NEW i \in Nat, NEW p \in Paces, NEW f \in 0..3, NEW a \in 0..7, NEW w \in 0..40,
           Ready(i, p, f, a, w), p < w
    PROVE  /\ Ready(i, bumpPace(p), f, a + 1, w)
           /\ i >= 3 => a < 3
<1> DEFINE l == Level(p)
           q == bumpPace(p)
           m == Level(q)
<1>1. p # 40 /\ m = l + 1 /\ l \in 0..6 /\ p \in Nat /\ q \in Nat /\ p <= q
  BY BumpedLevel DEF Paces
<1>2. /\ (l = 5 /\ p >= 20) \/ (l = 4 /\ p >= 16) \/ (l = 3 /\ p >= 8)
              \/ (l = 2 /\ p >= 4) \/ (l = 1 /\ p >= 2) \/ l = 0
  BY <1>1, BumpedLevel
<1> HIDE DEF l, q, m
<1>3. m + f - (a + 1) = l + f - a
  BY <1>1
<1>4. CASE i = 0 \/ i = 1 \/ i = 2
  BY <1>1, <1>3, <1>4 DEF Ready, l, q, m
<1>5. CASE i >= 3
  <2>1. a <= f /\ 2 * w <= 3 * (l + f - a)
    BY <1>1, <1>5 DEF Ready, l
  <2>2. a + 1 <= f /\ a < 3
    BY <1>1, <1>2, <2>1
  <2> QED BY <1>1, <1>3, <1>5, <2>1, <2>2 DEF Ready, l, q, m
<1> QED BY <1>4, <1>5

\* A reply that is lost, and is asked for again.
LEMMA FlakeReady ==
    ASSUME NEW i \in Nat, NEW p \in Paces, NEW f \in 0..2, NEW a \in 0..7, NEW w \in 0..40,
           Ready(i, p, f, a, w)
    PROVE  /\ Ready(i, p, f + 1, a + 1, w)
           /\ i >= 3 => a < 3
<1>1. Level(p) \in 0..6
  BY BumpedLevel
<1>2. Level(p) + (f + 1) - (a + 1) = Level(p) + f - a
  BY <1>1
<1> QED BY <1>1, <1>2 DEF Ready

\* An answer: the floor let it in, or a wait of its own.
LEMMA AnswerReady ==
    ASSUME NEW i \in Nat, NEW p \in Paces, NEW f \in 0..3, NEW a \in 0..7, NEW w \in 0..40,
           NEW s \in 0..40, Ready(i, p, f, a, w), s <= p \/ s <= 3 * a \/ i = 0, p >= w \/ s >= w
    PROVE  Ready(i + 1, p, f, 0, w)
<1> DEFINE l == Level(p)
<1>1. l \in 0..6 /\ p \in Nat
  BY BumpedLevel DEF Paces
<1>2. /\ p = 40 \/ (l = 5 /\ p >= 20) \/ (l = 4 /\ p >= 16) \/ (l = 3 /\ p >= 8)
              \/ (l = 2 /\ p >= 4) \/ (l = 1 /\ p >= 2) \/ l = 0
  BY <1>1, BumpedLevel
<1>3. CASE i = 0
  BY <1>1, <1>3 DEF Ready
<1>4. CASE i = 1
  BY <1>1, <1>4 DEF Ready
<1>5. CASE i = 2
  <2>1. p >= w \/ (w <= 3 * a /\ (w <= 3 * (l + f - a) \/ l + f - a >= 4))
    BY <1>1, <1>5 DEF Ready
  <2>2. p >= w \/ 2 * w <= 3 * (l + f)
    <3> HIDE DEF l
    <3>1. CASE w <= 3 * a /\ w <= 3 * (l + f - a)
      BY <1>1, <3>1
    <3>2. CASE w <= 3 * a /\ l + f - a >= 4
      <4>1. l >= a + 1
        BY <1>1, <3>2
      <4> QED BY <1>1, <1>2, <3>2, <4>1
    <3> QED BY <2>1, <3>1, <3>2
  <2> QED BY <1>1, <1>5, <2>2 DEF Ready
<1>6. CASE i >= 3
  BY <1>1, <1>6 DEF Ready
<1> QED BY <1>3, <1>4, <1>5, <1>6

\* A call that gave up.
LEMMA FailureReady ==
    ASSUME NEW i \in {0, 1}, NEW p \in Paces, NEW f \in 0..3, NEW a \in 0..7, NEW w \in 0..40,
           Ready(i, p, f, a, w)
    PROVE  /\ a = 7 => Ready(i + 1, p, f, 0, w)
           /\ a >= 3 => Ready(i + 1, p, f + 1, 0, w)
<1>1. Level(p) \in 0..6
  BY BumpedLevel
<1> QED BY <1>1 DEF Ready


\* The call in progress, by its number in the identity section.
NthCall == IF phase = "identity" THEN Len(found.replies) ELSE 4

SteadyCall ==
    /\ candidate \in Candidates /\ NthCall \in Nat /\ flakes \in Nat
    /\ call \in Calls /\ pace \in Paces /\ since \in 0..40
    /\ IF call.done THEN since = 0
       ELSE ~call.ok /\ (since <= pace \/ since <= 3 * call.attempt \/ NthCall = 0)
    /\ call.ok => Usable

\* A third call that was not answered ends the probe.
Heard == phase = "identity" /\ Len(found.replies) = 3 => found.replies[3].ok

Steady ==
    (flakes <= 3 /\ Usable /\ Heard) =>
        IF call.done THEN (NthCall # 2 \/ call.ok) => Ready(NthCall + 1, pace, flakes, 0, candidate.window)
        ELSE Ready(NthCall, pace, flakes, call.attempt, candidate.window)

Unfailing == NthCall >= 3 /\ flakes <= 3 /\ Usable /\ Heard /\ call.done => call.ok

LEMMA AttemptSteady ==
    ASSUME SteadyCall, Steady, ~call.done, candidate' = candidate, NthCall' = NthCall, Heard' = Heard,
           NEW r \in Possible(Greater(since, pace)),
           call' = AfterAttempt(call, r).call, pace' = AfterAttempt(call, r).pace,
           since' = AfterAttempt(call, r).wait,
           flakes' = IF r \in {"5xx", "network"} THEN flakes + 1 ELSE flakes
    PROVE  SteadyCall' /\ Steady' /\ Unfailing'
<1> DEFINE c == call
           a == call.attempt
           w == candidate.window
<1>1. /\ c \in Calls /\ ~c.ok /\ since \in 0..40 /\ pace \in Paces /\ flakes \in Nat
      /\ since <= pace \/ since <= 3 * a \/ NthCall = 0
      /\ candidate \in Candidates /\ NthCall \in Nat
  BY DEF SteadyCall
<1>2. a \in 0..7 /\ c.retries = 3 /\ ThrottleRetries(c.retries) = 7
  BY <1>1 DEF Calls, ThrottleRetries
<1>3. candidate.rpc \in BOOLEAN /\ w \in Nat /\ (Usable <=> candidate.rpc /\ w <= 40) /\ Usable' = Usable /\ Heard' = Heard
      /\ candidate' = candidate
  BY <1>1, CandidatesPaced DEF Usable, PACE_CEILING
<1>4. pace \in 0..40 /\ Greater(since, pace) \in 0..40
      /\ (Greater(since, pace) >= w <=> pace >= w \/ since >= w)
  BY <1>1, <1>3 DEF Paces, Greater
<1>5. (flakes <= 3 /\ Usable /\ Heard) => Ready(NthCall, pace, flakes, a, w) /\ flakes \in 0..3 /\ w \in 0..40
  BY <1>1, <1>3 DEF Steady
<1>6. r \in {"5xx", "network", "page", "answer", "throttle"}
      /\ (r = "page" => ~candidate.rpc)
      /\ (r = "answer" => candidate.rpc /\ (pace >= w \/ since >= w))
      /\ (r = "throttle" => candidate.rpc /\ pace < w /\ since < w)
  BY <1>1, <1>3, <1>4 DEF Possible
<1>7. CASE r = "page"
  <2>1. call' = [c EXCEPT !.done = TRUE] /\ pace' = pace /\ since' = 0 /\ flakes' = flakes
    BY <1>7 DEF AfterAttempt, classifyReply
  <2>2. call' \in Calls /\ call'.done /\ ~call'.ok
    BY <1>1, <2>1 DEF Calls
  <2>3. ~Usable
    BY <1>3, <1>6, <1>7
  <2> QED BY <1>1, <1>3, <2>1, <2>2, <2>3 DEF SteadyCall, Steady, Unfailing
<1>8. CASE r = "answer"
  <2>1. call' = [c EXCEPT !.done = TRUE, !.ok = TRUE] /\ pace' = pace /\ since' = 0 /\ flakes' = flakes
    BY <1>8 DEF AfterAttempt, classifyReply
  <2>2. call' \in Calls /\ call'.done /\ call'.ok
    BY <1>1, <2>1 DEF Calls
  <2>3. Usable
    BY <1>1, <1>3, <1>4, <1>6, <1>8
  <2>4. flakes <= 3 /\ Heard => Ready(NthCall + 1, pace, flakes, 0, w)
    BY <1>1, <1>2, <1>5, <1>6, <1>8, <2>3, AnswerReady
  <2> QED BY <1>1, <1>3, <2>1, <2>2, <2>3, <2>4 DEF SteadyCall, Steady, Unfailing
<1>9. CASE r = "throttle" /\ a < 7
  <2>1. /\ call' = [c EXCEPT !.attempt = @ + 1, !.throttled = TRUE] /\ pace' = bumpPace(pace)
        /\ since' = Greater(bumpPace(pace), 3 * (a + 1)) /\ flakes' = flakes
    BY <1>2, <1>9 DEF AfterAttempt, classifyReply
  <2>2. call' \in Calls /\ ~call'.done /\ ~call'.ok /\ call'.attempt = a + 1
    <3>1. a + 1 \in 0..7
      BY <1>2, <1>9
    <3>2. [c EXCEPT !.attempt = a + 1] \in Calls
      BY <1>1, <3>1 DEF Calls
    <3> QED BY <1>1, <2>1, <3>2 DEF Calls
  <2>3. pace' \in Paces /\ since' \in 0..40 /\ (since' <= pace' \/ since' <= 3 * (a + 1))
    BY <1>1, <1>2, <1>9, <2>1, BumpedLevel DEF Greater, Paces
  <2>4. flakes <= 3 /\ Usable /\ Heard => Ready(NthCall, pace', flakes, a + 1, w)
    <3>1. SUFFICES ASSUME flakes <= 3, Usable, Heard PROVE Ready(NthCall, bumpPace(pace), flakes, a + 1, w)
      BY <2>1
    <3> QED BY <1>1, <1>2, <1>5, <1>6, <1>9, <3>1, ThrottleReady
  <2> QED BY <1>1, <1>3, <2>1, <2>2, <2>3, <2>4 DEF SteadyCall, Steady, Unfailing
<1>10. CASE r = "throttle" /\ ~(a < 7)
  <2>1. call' = [c EXCEPT !.done = TRUE, !.blame = TRUE] /\ pace' = pace /\ since' = 0 /\ flakes' = flakes
    BY <1>2, <1>10 DEF AfterAttempt, classifyReply
  <2>2. call' \in Calls /\ call'.done /\ ~call'.ok /\ a = 7
    <3>1. a = 7
      BY <1>2, <1>10
    <3>2. [c EXCEPT !.done = TRUE] \in Calls
      BY <1>1 DEF Calls
    <3> QED BY <1>1, <2>1, <3>1, <3>2 DEF Calls
  <2>3. flakes <= 3 /\ Usable /\ Heard => ~(NthCall >= 3)
    <3>1. SUFFICES ASSUME flakes <= 3, Usable, Heard PROVE ~(NthCall >= 3)
      OBVIOUS
    <3>2. Ready(NthCall, pace, flakes, a, w) /\ flakes \in 0..3 /\ w \in 0..40 /\ pace < w
      BY <1>5, <1>6, <1>10, <3>1
    <3> HIDE DEF a
    <3>3. NthCall >= 3 => a < 3
      BY <1>1, <1>2, <3>2, ThrottleReady
    <3> QED BY <1>1, <2>2, <3>3
  <2>4. flakes <= 3 /\ Usable /\ Heard /\ NthCall \in {0, 1} => Ready(NthCall + 1, pace, flakes, 0, w)
    BY <1>1, <1>2, <1>5, <2>2, FailureReady
  <2>5. NthCall \in {0, 1} \/ NthCall = 2 \/ NthCall >= 3
    BY <1>1
  <2> QED BY <1>1, <1>3, <2>1, <2>2, <2>3, <2>4, <2>5 DEF SteadyCall, Steady, Unfailing
<1>11. CASE r \in {"5xx", "network"} /\ a < 3
  <2>1. /\ call' = [c EXCEPT !.attempt = @ + 1] /\ pace' = pace /\ flakes' = flakes + 1
        /\ since' = 3 * (a + 1) \/ since' = a + 1
    BY <1>2, <1>11 DEF AfterAttempt, classifyReply
  <2>2. call' \in Calls /\ ~call'.done /\ ~call'.ok /\ call'.attempt = a + 1
    <3>1. a + 1 \in 0..7
      BY <1>2, <1>11
    <3> QED BY <1>1, <2>1, <3>1 DEF Calls
  <2>3. since' \in 0..40 /\ since' <= 3 * (a + 1)
    BY <1>2, <1>11, <2>1
  <2>4. flakes + 1 <= 3 /\ Usable /\ Heard => Ready(NthCall, pace, flakes + 1, a + 1, w)
    <3>1. flakes + 1 <= 3 => flakes <= 3 /\ flakes \in 0..2
      BY <1>1
    <3> QED BY <1>1, <1>2, <1>5, <3>1, FlakeReady
  <2>5. flakes' \in Nat
    BY <1>1, <2>1
  <2> QED BY <1>1, <1>3, <2>1, <2>2, <2>3, <2>4, <2>5 DEF SteadyCall, Steady, Unfailing
<1>12. CASE r \in {"5xx", "network"} /\ ~(a < 3)
  <2>1. /\ call' = [c EXCEPT !.done = TRUE] \/ call' = [c EXCEPT !.done = TRUE, !.blame = c.throttled]
        /\ pace' = pace /\ since' = 0 /\ flakes' = flakes + 1
    BY <1>2, <1>12 DEF AfterAttempt, classifyReply
  <2>2. call' \in Calls /\ call'.done /\ ~call'.ok
    BY <1>1, <2>1 DEF Calls
  <2>3. flakes + 1 <= 3 => flakes <= 3 /\ flakes \in 0..2
    BY <1>1
  <2>4. flakes + 1 <= 3 /\ Usable /\ Heard => ~(NthCall >= 3)
    BY <1>1, <1>2, <1>5, <1>12, <2>3, FlakeReady
  <2>5. flakes + 1 <= 3 /\ Usable /\ Heard /\ NthCall \in {0, 1} => Ready(NthCall + 1, pace, flakes + 1, 0, w)
    BY <1>1, <1>2, <1>5, <1>12, <2>3, FailureReady
  <2>6. NthCall \in {0, 1} \/ NthCall = 2 \/ NthCall >= 3
    BY <1>1
  <2>7. flakes' \in Nat
    BY <1>1, <2>1
  <2> QED BY <1>1, <1>3, <2>1, <2>2, <2>4, <2>5, <2>6, <2>7 DEF SteadyCall, Steady, Unfailing
<1> QED BY <1>2, <1>6, <1>7, <1>8, <1>9, <1>10, <1>11, <1>12

-----------------------------------------------------------------------------
\* The least of a set of rungs, or of spans.
LEMMA SmallestExists ==
    ASSUME NEW I, I \subseteq Nat, I # {}
    PROVE  \E i \in I : \A j \in I : i <= j
<1> DEFINE T == {n \in Nat : \A x \in I : n <= x}
<1>1. SUFFICES ASSUME \A x \in I : \E y \in I : ~(x <= y) PROVE FALSE
  OBVIOUS
<1>2. 0 \in T
  OBVIOUS
<1>3. ASSUME NEW n \in Nat, n \in T PROVE n + 1 \in T
  <2>1. ASSUME n \in I PROVE FALSE
    BY <1>1, <1>3, <2>1
  <2> QED BY <1>3, <2>1
<1>4. \A n \in Nat : n \in T
  BY <1>2, <1>3, NatSetInduction
<1>5. PICK x \in I : x \in Nat
  OBVIOUS
<1>6. x + 1 \in T
  BY <1>4
<1> QED BY <1>5, <1>6

LEMMA LeastIsLeast ==
    ASSUME NEW I, I \subseteq Nat, I # {}
    PROVE  LeastOf(I) \in I /\ \A j \in I : LeastOf(I) <= j
  BY SmallestExists DEF LeastOf

LEMMA GreatestOf ==
    ASSUME NEW I, I \subseteq 1..11, I # {}
    PROVE  \E i \in I : \A j \in I : j <= i
<1> DEFINE J == {11 - i : i \in I}
<1>1. J \subseteq Nat /\ J # {}
  <2>1. \A i \in I : 11 - i \in Nat
    OBVIOUS
  <2> QED BY <2>1
<1>2. LeastOf(J) \in J /\ \A j \in J : LeastOf(J) <= j
  BY <1>1, LeastIsLeast
<1>3. PICK i \in I : LeastOf(J) = 11 - i
  BY <1>2
<1>4. \A j \in I : 11 - i <= 11 - j
  BY <1>2, <1>3
<1> QED BY <1>3, <1>4

\* The logs of a window: none of those pruned, more in a wider one, and as many
\* wherever nothing is pruned.
LEMMA WindowLogs ==
    ASSUME candidate \in Candidates, NEW from \in Int, NEW v \in Nat, NEW w \in Nat
    PROVE  /\ LogsIn(from, w) \in Nat
           /\ v <= w => LogsIn(from, v) <= LogsIn(from, w)
           /\ from + w < candidate.horizon => LogsIn(from, w) = 0
           /\ from \in Nat /\ candidate.horizon = 0 => LogsIn(from, w) = LogsIn(0, w)
<1> DEFINE h == candidate.horizon
           l == candidate.density.logs
           b == candidate.density.blocks
           first == Greater(from, h)
<1>1. h \in Nat /\ l \in Nat /\ b \in Nat /\ b > 0
  BY CandidatesServe
<1>2. first \in Int /\ first >= from /\ first >= h /\ first \in Nat
  BY <1>1 DEF Greater
<1>3. ASSUME NEW x \in Nat, first <= from + x PROVE (from + x + 1 - first) * l \in Nat
  <2>1. from + x + 1 - first \in Nat
    BY <1>2, <1>3
  <2> HIDE DEF first
  <2> QED BY <1>1, <2>1
<1>4. \A x \in Nat : LogsIn(from, x) = IF first > from + x THEN 0 ELSE ((from + x + 1 - first) * l) \div b
  BY DEF LogsIn
<1>5. \A x \in Nat : LogsIn(from, x) \in Nat
  <2> SUFFICES ASSUME NEW x \in Nat PROVE LogsIn(from, x) \in Nat
    OBVIOUS
  <2>1. CASE first > from + x
    BY <1>4, <2>1
  <2>2. CASE first <= from + x
    BY <1>1, <1>2, <1>3, <1>4, <2>2, DivBounds
  <2> QED BY <1>2, <2>1, <2>2
<1>6. v <= w => LogsIn(from, v) <= LogsIn(from, w)
  <2>1. SUFFICES ASSUME v <= w, first <= from + v PROVE LogsIn(from, v) <= LogsIn(from, w)
    BY <1>2, <1>4, <1>5
  <2>2. (from + v + 1 - first) * l <= (from + w + 1 - first) * l
    BY <1>1, <1>2, <2>1, MulMono
  <2>3. first <= from + w
    BY <1>2, <2>1
  <2>4. ((from + v + 1 - first) * l) \div b <= ((from + w + 1 - first) * l) \div b
    BY <1>1, <1>3, <2>1, <2>2, <2>3, DivMono
  <2> QED BY <1>2, <1>4, <2>1, <2>3, <2>4
<1>7. from + w < h => LogsIn(from, w) = 0
  BY <1>1, <1>2, <1>4
<1>8. from \in Nat /\ h = 0 => LogsIn(from, w) = LogsIn(0, w)
  <2>1. SUFFICES ASSUME from \in Nat, h = 0 PROVE LogsIn(from, w) = LogsIn(0, w)
    OBVIOUS
  <2>2. first = from /\ Greater(0, h) = 0
    BY <2>1 DEF Greater
  <2>3. from + w + 1 - first = w + 1 /\ 0 + w + 1 - 0 = w + 1 /\ ~(first > from + w) /\ ~(0 > 0 + w)
    BY <2>1, <2>2
  <2> QED BY <2>2, <2>3 DEF LogsIn
<1> QED BY <1>5, <1>6, <1>7, <1>8

\* Where nothing is pruned and two blocks can be had, no narrowed window is refused.
LEMMA NarrowedIsServed ==
    ASSUME candidate \in Candidates, ServesAll, NEW from \in Nat, NEW w \in 0..1
    PROVE  ~QueryTooBig(from, w)
<1>1. candidate.switch \in Nat /\ candidate.rangeCap \in Nat /\ candidate.horizon = 0
  BY CandidatesServe DEF ServesAll
<1>2. ~RangeRefused(1) /\ ~CountRefused(0, 1)
  BY DEF ServesAll, QueryTooBig
<1>3. ~RangeRefused(w)
  BY <1>1, <1>2 DEF RangeRefused
<1>4. CapAt(1) <= CapAt(w) /\ CapAt(1) \in Nat /\ CapAt(w) \in Nat
  BY <1>1, CandidatesServe DEF CapAt
<1>5. LogsIn(from, w) = LogsIn(0, w) /\ LogsIn(0, w) <= LogsIn(0, 1) /\ LogsIn(0, w) \in Nat /\ LogsIn(0, 1) \in Nat
  BY <1>1, WindowLogs
<1>6. ~CountRefused(from, w)
  BY <1>2, <1>4, <1>5 DEF CountRefused
<1> QED BY <1>3, <1>6 DEF QueryTooBig

Widths == 0..1000

LEMMA ShrunkSpan ==
    ASSUME candidate \in Candidates
    PROVE  \A w \in Widths : Shrunk(w) \in Widths
<1> TAKE w \in Widths
<1> DEFINE c == Greater(1, candidate.rangeCap - 1)
           s == w \div 5
<1>0. w \in Nat /\ w <= 1000
  BY DEF Widths
<1>1. candidate.rangeCap \in Nat
  BY CandidatesServe
<1>2. c \in Nat
  BY <1>1 DEF Greater
<1>3. s \in Nat /\ s <= w
  BY <1>0
<1>4. Shrunk(w) = s \/ (Shrunk(w) = c /\ c < w)
  BY DEF Shrunk
<1> HIDE DEF c, s
<1>5. Shrunk(w) \in Nat /\ Shrunk(w) <= w
  <2>1. CASE Shrunk(w) = s
    BY <1>3, <2>1, Zenon
  <2>3. CASE Shrunk(w) = c /\ c < w
    <3>1. c <= w
      BY <1>0, <1>2, <2>3
    <3> QED BY <1>2, <2>3, <3>1, Zenon
  <2> QED BY <1>4, <2>1, <2>3
<1>6. \A v \in Nat : v <= 1000 => v \in Widths
  BY DEF Widths
<1>7. Shrunk(w) <= 1000
  BY <1>0, <1>5
<1> QED BY <1>5, <1>6, <1>7

LEMMA RungDepths ==
    ASSUME candidate \in Candidates
    PROVE  /\ rungs \in SUBSET (1..11) /\ 11 \in rungs /\ depths[11] = 0
           /\ \A i \in rungs : depths[i] \in Nat
<1>1. candidate.head \in Nat
  BY CandidatesServe
<1>2. DOMAIN depths = 1..11 /\ depths[11] = 0
  BY DEF depths
<1>3. \A i \in 1..11 : depths[i] \in Int
  <2> SUFFICES ASSUME NEW i \in 1..11 PROVE depths[i] \in Int
    OBVIOUS
  <2>1. i = 1 \/ i = 2 \/ i = 3 \/ i = 4 \/ i = 5 \/ i = 6 \/ i = 7 \/ i = 8 \/ i = 9 \/ i = 10 \/ i = 11
    OBVIOUS
  <2> QED BY <1>1, <2>1 DEF depths
<1> QED BY <1>1, <1>2, <1>3 DEF rungs

-----------------------------------------------------------------------------
(* The inductive invariant of the report.                                  *)

Sections == {"retention", "limits", "switch", "state"}

Answering ==
    /\ SteadyCall
    /\ found.replies \in Seq(Calls) /\ Len(found.replies) <= 3
    /\ \A i \in 1..Len(found.replies) : found.replies[i].ok => Usable
    /\ Steady
    /\ samples = <<>> /\ span = 1000

InService == SteadyCall /\ Usable /\ Steady /\ (flakes <= 3 /\ call.done => call.ok)

\* A window that was sampled on a rung.
TrueSample(i, s) ==
    /\ s.from = depths[i] /\ s.count \in Nat /\ s.ok \in BOOLEAN /\ s.capped \in BOOLEAN
    /\ candidate.horizon > 11000 /\ s.from <= 10000 => s.count = 0
    /\ ServesAll => s.capped \/ s.count > 0
    /\ ServesAll /\ flakes <= 3 => s.ok

Sampled ==
    /\ DOMAIN samples \subseteq rungs /\ rungs \ DOMAIN samples # {}
    /\ span \in 0..1000
    /\ \A i \in DOMAIN samples : TrueSample(i, samples[i])

\* The switch span is between the bounds; every span past it is refused by the
\* wider cap, and none up to it by its range.
Narrowing ==
    /\ bounds = [narrow |-> bounds.narrow, wide |-> bounds.wide]
    /\ bounds.narrow \in Nat /\ bounds.wide \in Nat /\ bounds.wide - bounds.narrow > 1
    /\ bounds.narrow <= candidate.switch /\ candidate.switch < bounds.wide
    /\ found.narrowLimit = NARROW_CAP
    /\ ~RangeRefused(candidate.switch)
    /\ \A w \in Nat : w > candidate.switch => LogsIn(DenseFrom, w) > NARROW_CAP

ReportInv ==
    /\ PaceInv
    /\ phase = "identity" => Answering
    /\ phase \in Sections => InService
    /\ phase = "retention" => Sampled
    /\ phase = "switch" /\ flakes <= 3 /\ candidate.switch < 5000 => Narrowing
    /\ ReportIsTrue

LEMMA InitReportInv == Init => ReportInv
<1> SUFFICES ASSUME Init PROVE ReportInv
  OBVIOUS
<1>1. /\ phase = "identity" /\ candidate \in Candidates /\ pace \in {0, 20} /\ since \in {0, 40}
      /\ call = NewCall(3) /\ flakes = 0 /\ found = NothingFound
  BY DEF Init, PACE_CEILING
<1>2. found.replies = <<>> /\ found.retention = NONE /\ found.switch = NONE
  BY <1>1 DEF NothingFound
<1>3. NthCall = 0
  BY <1>1, <1>2 DEF NthCall
<1>4. call \in Calls /\ ~call.done /\ ~call.ok
  BY <1>1 DEF NewCall, Calls
<1>5. SteadyCall
  BY <1>1, <1>3, <1>4 DEF SteadyCall, Paces
<1>6. Steady
  BY <1>3, <1>4 DEF Steady, Ready
<1>7. Answering
  BY <1>2, <1>5, <1>6 DEF Answering, Init
<1> QED BY <1>1, <1>2, <1>7, InitPaceInv DEF ReportInv, ReportIsTrue, Sections

\* More lost replies, and nothing else, say no less of what was found.
LEMMA ReportKept ==
    ASSUME ReportIsTrue, candidate' = candidate, found'.retention = found.retention,
           found'.switch = found.switch, flakes' <= 3 => flakes <= 3
    PROVE  ReportIsTrue'
  BY DEF ReportIsTrue, ServesAll, LogsIn, QueryTooBig, RangeRefused, CountRefused, CapAt

LEMMA AttemptReportInv == ReportInv /\ Attempt => ReportInv'
<1> SUFFICES ASSUME ReportInv, Attempt PROVE ReportInv'
  OBVIOUS
<1>1. /\ phase' = phase /\ candidate' = candidate /\ found' = found /\ samples' = samples
      /\ span' = span /\ bounds' = bounds
      /\ phase \notin {"done", "reported", "serving"} /\ ~call.done
  BY DEF Attempt, Calling
<1>2. PICK r \in Possible(Greater(since, pace)) :
         /\ call' = AfterAttempt(call, r).call /\ pace' = AfterAttempt(call, r).pace
         /\ since' = AfterAttempt(call, r).wait
         /\ flakes' = IF r \in {"5xx", "network"} THEN flakes + 1 ELSE flakes
  BY DEF Attempt
<1>3. PaceInv'
  BY AttemptPaceInv DEF ReportInv
<1>4. flakes' <= 3 => flakes <= 3
  BY <1>2 DEF ReportInv, PaceInv
<1>5. NthCall' = NthCall /\ Heard' = Heard /\ Usable' = Usable /\ depths' = depths /\ ServesAll' = ServesAll
  BY <1>1 DEF NthCall, Heard, Usable, depths, ServesAll, LogsIn, QueryTooBig, RangeRefused, CountRefused, CapAt
<1>6. phase = "identity" => Answering'
  <2>1. SUFFICES ASSUME phase = "identity" PROVE Answering'
    OBVIOUS
  <2>2. Answering
    BY <2>1 DEF ReportInv
  <2>3. SteadyCall' /\ Steady'
    BY <1>1, <1>2, <1>5, <2>2, AttemptSteady DEF Answering
  <2> QED BY <1>1, <1>5, <2>2, <2>3 DEF Answering
<1>7. phase \in Sections => InService'
  <2>1. SUFFICES ASSUME phase \in Sections PROVE InService'
    OBVIOUS
  <2>2. InService /\ NthCall = 4 /\ Heard
    BY <2>1 DEF ReportInv, NthCall, Heard, Sections
  <2>3. SteadyCall' /\ Steady' /\ Unfailing'
    BY <1>1, <1>2, <1>5, <2>2, AttemptSteady DEF InService
  <2> QED BY <1>5, <2>2, <2>3 DEF InService, Unfailing
<1>8. phase = "retention" => Sampled'
  <2>1. SUFFICES ASSUME phase = "retention" PROVE Sampled'
    OBVIOUS
  <2>2. Sampled /\ rungs' = rungs
    BY <1>1, <1>5, <2>1 DEF ReportInv, rungs
  <2>3. \A i \in DOMAIN samples : TrueSample(i, samples[i])'
    BY <1>1, <1>4, <1>5, <2>2 DEF Sampled, TrueSample
  <2> QED BY <1>1, <2>2, <2>3 DEF Sampled
<1>9. phase = "switch" /\ flakes' <= 3 /\ candidate.switch < 5000 => Narrowing'
  BY <1>1, <1>4 DEF ReportInv, Narrowing, RangeRefused, LogsIn, DenseFrom
<1>10. ReportIsTrue'
  BY <1>1, <1>4, ReportKept DEF ReportInv
<1> QED BY <1>1, <1>3, <1>6, <1>7, <1>8, <1>9, <1>10 DEF ReportInv

LEMMA NewCallFacts ==
    NewCall(3) \in Calls /\ ~NewCall(3).done /\ ~NewCall(3).ok /\ NewCall(3).attempt = 0
  BY DEF NewCall, Calls

\* The next call of the identity section, or the first of the next one.
LEMMA IdentityReportInv == ReportInv /\ Identity => ReportInv'
<1> SUFFICES ASSUME ReportInv, Identity PROVE ReportInv'
  OBVIOUS
<1> DEFINE replies == Append(found.replies, call)
<1>1. /\ phase = "identity" /\ call.done /\ candidate' = candidate /\ flakes' = flakes
      /\ pace' = pace /\ since' = since /\ call' = NewCall(3)
  BY DEF Identity, Replied, Go
<1>2. Answering /\ PaceInv /\ ReportIsTrue /\ flakes \in Nat
  BY <1>1 DEF ReportInv, PaceInv
<1>3. /\ call \in Calls /\ pace \in Paces /\ since = 0 /\ candidate \in Candidates
      /\ found.replies \in Seq(Calls) /\ Len(found.replies) \in 0..3 /\ (call.ok => Usable)
  <2>1. SteadyCall /\ found.replies \in Seq(Calls) /\ Len(found.replies) \in 0..3
    <3>1. found.replies \in Seq(Calls) /\ Len(found.replies) <= 3
      BY <1>2 DEF Answering
    <3>2. SteadyCall
      BY <1>2 DEF Answering
    <3>3. \A n \in Nat : n <= 3 => n \in 0..3
      OBVIOUS
    <3>4. Len(found.replies) \in Nat
      BY <3>1
    <3>5. Len(found.replies) \in 0..3
      BY <3>1, <3>3, <3>4, Zenon
    <3> QED BY <3>1, <3>2, <3>5
  <2>2. since = 0
    BY <1>1, <2>1 DEF SteadyCall
  <2>3. call.ok => Usable
    BY <2>1 DEF SteadyCall
  <2> QED BY <2>1, <2>2, <2>3 DEF SteadyCall
<1>4. /\ replies \in Seq(Calls) /\ Len(replies) = Len(found.replies) + 1 /\ replies[Len(replies)] = call
      /\ \A i \in 1..Len(found.replies) : replies[i] = found.replies[i]
      /\ \A i \in 1..Len(replies) : replies[i].ok => Usable
  BY <1>2, <1>3 DEF Answering
<1>5. Usable' = Usable
  BY <1>1 DEF Usable
<1>7. PaceInv'
  BY IdentityPaceInv DEF ReportInv
<1>8. found'.retention = found.retention /\ found'.switch = found.switch
  BY <1>2 DEF Identity, PaceInv, NothingFound
<1>9. ReportIsTrue'
  BY <1>1, <1>2, <1>8, ReportKept
<1>10. Level(pace) \in 0..6
  BY <1>3, BumpedLevel
<1>11. /\ NthCall = Len(found.replies)
       /\ Steady
  BY <1>1, <1>2 DEF NthCall, Answering
<1>12. CASE Len(replies) < 4
  <2>1. /\ phase' = "identity" /\ found' = [found EXCEPT !.replies = replies]
        /\ samples' = samples /\ span' = span
    BY <1>12 DEF Identity, Go
  <2>2. found'.replies = replies
    BY <1>2, <2>1 DEF PaceInv, NothingFound
  <2>3. NthCall' = NthCall + 1
    BY <1>4, <1>11, <2>1, <2>2 DEF NthCall
  <2>4. SteadyCall'
    BY <1>1, <1>2, <1>3, <1>4, <1>11, <2>3, NewCallFacts DEF SteadyCall, Paces
  <2>5. Steady'
    <3>1. SUFFICES ASSUME flakes <= 3, Usable, Heard' PROVE Ready(NthCall + 1, pace, flakes, 0, candidate.window)
      BY <1>1, <1>5, <2>3, NewCallFacts DEF Steady
    <3>2. Heard
      BY <1>3, <1>4, <1>12 DEF Heard
    <3>3. NthCall = 2 => call.ok
      BY <1>4, <1>11, <2>1, <2>2, <3>1 DEF Heard
    <3> QED BY <1>1, <1>11, <3>1, <3>2, <3>3 DEF Steady
  <2>6. Answering'
    <3>1. samples' = <<>> /\ span' = 1000
      BY <1>2, <2>1 DEF Answering
    <3>2. found'.replies \in Seq(Calls) /\ Len(found'.replies) <= 3
          /\ \A i \in 1..Len(found'.replies) : found'.replies[i].ok => Usable'
      BY <1>3, <1>4, <1>5, <1>12, <2>2
    <3> QED BY <2>4, <2>5, <3>1, <3>2 DEF Answering
  <2> QED BY <1>7, <1>9, <2>1, <2>6 DEF ReportInv, Sections
<1>13. CASE ~(Len(replies) < 4)
  <2>1. /\ phase' = IF IdentityVerdict(replies) = "reachable" THEN "retention" ELSE "done"
        /\ samples' = samples /\ span' = span
    BY <1>13 DEF Identity, Go
  <2>2. CASE phase' = "done"
    BY <1>7, <1>9, <2>2 DEF ReportInv, Sections
  <2>3. CASE phase' = "retention"
    <3>1. IdentityVerdict(replies) = "reachable"
      BY <2>1, <2>3
    <3>2. Len(found.replies) = 3 /\ Len(replies) = 4
      BY <1>3, <1>4, <1>13
    <3>3. replies[1].ok /\ replies[3].ok /\ replies[3] = found.replies[3]
      BY <1>4, <3>1, <3>2 DEF IdentityVerdict
    <3>4. Usable /\ Heard
      BY <1>4, <3>2, <3>3 DEF Heard
    <3>5. NthCall = 3 /\ NthCall' = 4 /\ Heard'
      BY <1>11, <2>3, <3>2 DEF NthCall, Heard
    <3>6. SteadyCall'
      BY <1>1, <1>2, <1>3, <3>5, NewCallFacts DEF SteadyCall, Paces
    <3>7. flakes <= 3 => Ready(4, pace, flakes, 0, candidate.window)
      BY <1>1, <1>11, <3>4, <3>5 DEF Steady
    <3>8. InService'
      BY <1>1, <1>5, <3>4, <3>5, <3>6, <3>7, NewCallFacts DEF InService, Steady
    <3>9. Sampled'
      <4>1. samples = <<>> /\ span = 1000
        BY <1>2 DEF Answering
      <4>2. rungs' \in SUBSET (1..11) /\ 11 \in rungs'
        <5>1. rungs' = rungs
          BY <1>1 DEF rungs, depths
        <5> QED BY <1>3, <5>1, RungDepths
      <4> QED BY <2>1, <4>1, <4>2 DEF Sampled
    <3> QED BY <1>7, <1>9, <2>3, <3>8, <3>9 DEF ReportInv, Sections
  <2> QED BY <2>1, <2>2, <2>3
<1> QED BY <1>3, <1>4, <1>12, <1>13

\* The next call of a section finds the same floor.
LEMMA NextInService ==
    ASSUME InService, phase \in Sections, phase' \in Sections, call.done, call' = NewCall(3),
           candidate' = candidate, pace' = pace, since' = since, flakes' = flakes
    PROVE  InService'
<1>1. NthCall = 4 /\ NthCall' = 4 /\ Heard /\ Heard' /\ Usable' = Usable
  BY DEF NthCall, Heard, Sections, Usable
<1>2. SteadyCall /\ Steady /\ Usable
  BY DEF InService
<1>3. pace \in Paces /\ since = 0 /\ candidate \in Candidates /\ flakes \in Nat
  BY <1>2 DEF SteadyCall
<1>4. SteadyCall'
  BY <1>1, <1>2, <1>3, NewCallFacts DEF SteadyCall, Paces
<1>5. flakes <= 3 => Ready(4, pace, flakes, 0, candidate.window)
  BY <1>1, <1>2 DEF Steady, Ready
<1> QED BY <1>1, <1>2, <1>4, <1>5, NewCallFacts DEF InService, Steady

\* The verdict, when every rung has been sampled.
LEMMA JudgedRight ==
    ASSUME candidate \in Candidates, NEW s, DOMAIN s = rungs, \A i \in rungs : TrueSample(i, s[i])
    PROVE  /\ ServesAll /\ flakes <= 3 => judgeLogRetention(s) \in {"no-pruning", "inconclusive"}
           /\ candidate.horizon > 11000 => judgeLogRetention(s) # "no-pruning"
<1>1. rungs \in SUBSET (1..11) /\ 11 \in rungs /\ depths[11] = 0 /\ (\A i \in rungs : depths[i] \in Nat)
  BY RungDepths
<1>2. ASSUME ServesAll, flakes <= 3 PROVE judgeLogRetention(s) \in {"no-pruning", "inconclusive"}
  <2>1. \A i \in rungs : s[i].ok /\ (s[i].capped = TRUE \/ s[i].count > 0) /\ s[i].count \in Nat
                          /\ s[i].capped \in BOOLEAN
    BY <1>2 DEF TrueSample
  <2>2. EmptyWide(s) = {} /\ ~(\E i \in DOMAIN s : ~s[i].ok)
    BY <2>1 DEF EmptyWide, Empty
  <2>3. s[11].from = 0 /\ s[11].from <= 10000
    BY <1>1 DEF TrueSample
  <2>4. CASE s[11].count > 0
    <3>1. 11 \in WithLogs(s) /\ WithLogs(s) \subseteq 1..11
      BY <1>1, <2>1, <2>4 DEF WithLogs
    <3>2. LastOf(WithLogs(s)) = 11
      <4>1. LastOf(WithLogs(s)) \in WithLogs(s) /\ \A j \in WithLogs(s) : j <= LastOf(WithLogs(s))
        <5>1. \E i \in WithLogs(s) : \A j \in WithLogs(s) : j <= i
          BY <3>1
        <5> QED BY <5>1 DEF LastOf
      <4>2. LastOf(WithLogs(s)) \in 1..11 /\ 11 <= LastOf(WithLogs(s))
        BY <3>1, <4>1
      <4> QED BY <4>2
    <3>3. WithLogs(s) # {} /\ s[LastOf(WithLogs(s))].from <= 10000
      BY <2>3, <3>1, <3>2
    <3> QED BY <2>2, <3>3 DEF judgeLogRetention
  <2>5. CASE ~(s[11].count > 0)
    <3>1. s[11].count = 0 /\ s[11].capped = TRUE
      BY <1>1, <2>1, <2>5
    <3>2. 11 \in Empty(s, TRUE)
      BY <1>1, <2>1, <3>1 DEF Empty
    <3>3. CASE WithLogs(s) # {} /\ s[LastOf(WithLogs(s))].from <= 10000
      BY <2>2, <3>3 DEF judgeLogRetention
    <3>4. CASE ~(WithLogs(s) # {} /\ s[LastOf(WithLogs(s))].from <= 10000)
      <4>1. Empty(s, TRUE) # {}
        BY <3>2
      <4>2. judgeLogRetention(s) = "inconclusive"
        BY <2>2, <3>4, <4>1 DEF judgeLogRetention
      <4> QED BY <4>2
    <3> QED BY <3>3, <3>4
  <2> QED BY <2>4, <2>5
<1>3. ASSUME candidate.horizon > 11000, judgeLogRetention(s) = "no-pruning" PROVE FALSE
  <2>1. WithLogs(s) # {} /\ s[LastOf(WithLogs(s))].from <= 10000
    BY <1>3 DEF judgeLogRetention
  <2>2. LastOf(WithLogs(s)) \in WithLogs(s)
    <3>1. WithLogs(s) \subseteq 1..11
      BY <1>1 DEF WithLogs
    <3>2. \E i \in WithLogs(s) : \A j \in WithLogs(s) : j <= i
      BY <2>1, <3>1, GreatestOf
    <3> QED BY <3>2 DEF LastOf
  <2>3. PICK i \in rungs : i = LastOf(WithLogs(s)) /\ s[i].count > 0 /\ s[i].from <= 10000
    BY <2>1, <2>2 DEF WithLogs
  <2> QED BY <1>3, <2>3 DEF TrueSample
<1> QED BY <1>2, <1>3

\* One window more, or a narrower one.
LEMMA SampleReportInv == ReportInv /\ Sample => ReportInv'
<1> SUFFICES ASSUME ReportInv, Sample PROVE ReportInv'
  OBVIOUS
<1> DEFINE left == rungs \ DOMAIN samples
           k == LeastOf(left)
           from == depths[k]
           taken == [from |-> from, ok |-> call.ok /\ ~SampleFails(from, span),
                     count |-> LogsIn(from, span), capped |-> span < 1000]
           extended == [i \in DOMAIN samples \cup {k} |-> IF i \in DOMAIN samples THEN samples[i] ELSE taken]
           narrowed == call.ok /\ QueryTooBig(from, span) /\ ~SampleFails(from, span)
<1>1. /\ phase = "retention" /\ call.done /\ candidate' = candidate /\ flakes' = flakes
      /\ pace' = pace /\ since' = since /\ call' = NewCall(3) /\ phase' \in {"retention", "limits"}
  BY DEF Sample, Replied, Go
<1>2. InService /\ Sampled /\ PaceInv /\ ReportIsTrue /\ flakes \in Nat /\ candidate \in Candidates
  BY <1>1 DEF ReportInv, PaceInv, Sections, InService, SteadyCall
<1>3. InService'
  BY <1>1, <1>2, NextInService DEF Sections
<1>4. PaceInv'
  BY <1>2, SectionsPaceInv
<1>5. depths' = depths /\ rungs' = rungs /\ ServesAll' = ServesAll
  BY <1>1 DEF rungs, depths, ServesAll, LogsIn, QueryTooBig, RangeRefused, CountRefused, CapAt
<1>6. /\ \/ narrowed /\ phase' = "retention" /\ span' = Shrunk(span) /\ samples' = samples /\ found' = found
         \/ left # {k} /\ phase' = "retention" /\ span' = 1000 /\ samples' = extended /\ found' = found
            /\ ~narrowed
         \/ left = {k} /\ phase' = "limits" /\ found' = [found EXCEPT !.retention = judgeLogRetention(extended)]
            /\ ~narrowed
  <2>0. IF narrowed THEN Go("retention", 3) /\ span' = Shrunk(span) /\ UNCHANGED samples /\ UNCHANGED found
        ELSE /\ span' = 1000
             /\ IF left # {k} THEN Go("retention", 3) /\ samples' = extended /\ UNCHANGED found
                ELSE Go("limits", 3) /\ found' = [found EXCEPT !.retention = judgeLogRetention(extended)]
    BY DEF Sample
  <2> HIDE DEF left, k, extended, narrowed
  <2>1. CASE narrowed
    BY <2>0, <2>1 DEF Go
  <2>2. CASE ~narrowed /\ left # {k}
    BY <2>0, <2>2 DEF Go
  <2>3. CASE ~narrowed /\ left = {k}
    BY <2>0, <2>3 DEF Go
  <2> QED BY <2>1, <2>2, <2>3
<1>7. k \in left /\ k \in rungs /\ k \notin DOMAIN samples /\ from \in Nat
  <2>1. rungs \in SUBSET (1..11) /\ (\A i \in rungs : depths[i] \in Nat)
    BY <1>2, RungDepths
  <2>2. left \subseteq rungs /\ rungs \subseteq Nat /\ left # {}
    BY <1>2, <2>1 DEF Sampled
  <2> HIDE DEF left
  <2>3. k \in left
    BY <2>2, LeastIsLeast
  <2>4. k \in rungs
    BY <2>2, <2>3
  <2> QED BY <2>1, <2>3, <2>4 DEF left
<1>8. span \in 0..1000 /\ \A i \in DOMAIN samples : TrueSample(i, samples[i])
  BY <1>2 DEF Sampled
<1>14. \A i, s : TrueSample(i, s)' <=> TrueSample(i, s)
  BY <1>1, <1>5 DEF TrueSample
<1>9. CASE narrowed /\ phase' = "retention" /\ span' = Shrunk(span) /\ samples' = samples /\ found' = found
  <2> HIDE DEF left, k, from, taken, extended, narrowed
  <2>1. Sampled'
    <3>3. candidate \in Candidates /\ span \in Widths
      BY <1>2, <1>8 DEF Widths
    <3>2. Shrunk(span) \in Widths
      BY <3>3, ShrunkSpan
    <3>1. span' \in 0..1000
      BY <1>9, <3>2 DEF Widths
    <3> QED BY <1>2, <1>5, <1>9, <1>14, <3>1 DEF Sampled
  <2>2. ReportIsTrue'
    BY <1>1, <1>2, <1>9, ReportKept
  <2> QED BY <1>3, <1>4, <1>9, <2>1, <2>2 DEF ReportInv
<1>10. ASSUME ~narrowed PROVE TrueSample(k, taken)
  <2>6. from = depths[k]
    OBVIOUS
  <2> HIDE DEF from, k
  <2>0. from \in Int /\ span \in Nat
    BY <1>7, <1>8
  <2>1. LogsIn(from, span) \in Nat
    BY <1>2, <2>0, WindowLogs
  <2>2. candidate.horizon > 11000 /\ from <= 10000 => LogsIn(from, span) = 0
    <3>1. candidate.horizon \in Nat
      BY <1>2, CandidatesServe
    <3>2. candidate.horizon > 11000 /\ from <= 10000 => from + span < candidate.horizon
      BY <1>7, <1>8, <3>1
    <3> QED BY <1>2, <2>0, <3>2, WindowLogs
  <2>3. ServesAll => span < 1000 \/ LogsIn(from, span) > 0
    <3>1. ServesAll => LogsIn(0, 1000) > 0 /\ LogsIn(from, 1000) = LogsIn(0, 1000)
      BY <1>2, <1>7, WindowLogs DEF ServesAll
    <3> QED BY <1>8, <3>1
  <2>4. ServesAll /\ flakes <= 3 => call.ok /\ ~SampleFails(from, span)
    <3>1. SUFFICES ASSUME ServesAll, flakes <= 3 PROVE call.ok /\ ~SampleFails(from, span)
      OBVIOUS
    <3>2. call.ok
      BY <1>1, <1>2, <3>1 DEF InService
    <3>3. span <= 1 => ~QueryTooBig(from, span)
      BY <1>2, <1>7, <1>8, <3>1, NarrowedIsServed
    <3> QED BY <3>2, <3>3 DEF SampleFails
  <2>5. (call.ok /\ ~SampleFails(from, span)) \in BOOLEAN /\ (span < 1000) \in BOOLEAN
    OBVIOUS
  <2>7. /\ taken.from = from /\ taken.ok = (call.ok /\ ~SampleFails(from, span))
        /\ taken.count = LogsIn(from, span) /\ taken.capped = (span < 1000)
    OBVIOUS
  <2> DEFINE fine == call.ok /\ ~SampleFails(from, span)
             short == span < 1000
  <2>8. /\ taken.ok \in BOOLEAN /\ taken.capped \in BOOLEAN
        /\ taken.ok <=> call.ok /\ ~SampleFails(from, span)
        /\ taken.capped <=> span < 1000
    <3>1. fine \in BOOLEAN /\ short \in BOOLEAN /\ taken.ok = fine /\ taken.capped = short
      BY <2>5, <2>7
    <3> HIDE DEF fine, short, taken
    <3>2. taken.ok \in BOOLEAN /\ taken.capped \in BOOLEAN /\ (taken.ok <=> fine) /\ (taken.capped <=> short)
      BY <3>1, Zenon
    <3> QED BY <3>2 DEF fine, short
  <2> HIDE DEF fine, short, taken
  <2> QED BY <2>1, <2>2, <2>3, <2>4, <2>6, <2>7, <2>8 DEF TrueSample
<1>11. ASSUME ~narrowed
       PROVE  DOMAIN extended = DOMAIN samples \cup {k} /\ \A i \in DOMAIN extended : TrueSample(i, extended[i])
  <2>1. TrueSample(k, taken)
    BY <1>10, <1>11
  <2> HIDE DEF taken, k
  <2> QED BY <1>7, <1>8, <2>1
<1>12. CASE left # {k} /\ phase' = "retention" /\ span' = 1000 /\ samples' = extended /\ found' = found /\ ~narrowed
  <2>1. DOMAIN samples' \subseteq rungs /\ rungs \ DOMAIN samples' # {}
    BY <1>2, <1>7, <1>11, <1>12 DEF Sampled
  <2>2. \A i \in DOMAIN samples' : TrueSample(i, samples'[i])
    BY <1>11, <1>12
  <2>4. Sampled'
    <3>1. rungs' \ DOMAIN samples' # {} /\ span' \in 0..1000 /\ DOMAIN samples' \subseteq rungs'
      BY <1>5, <1>12, <2>1
    <3> QED BY <1>14, <2>2, <3>1 DEF Sampled
  <2>5. ReportIsTrue'
    BY <1>1, <1>2, <1>12, ReportKept
  <2> QED BY <1>3, <1>4, <1>12, <2>4, <2>5 DEF ReportInv
<1>13. CASE left = {k} /\ phase' = "limits" /\ found' = [found EXCEPT !.retention = judgeLogRetention(extended)]
            /\ ~narrowed
  <2>1. DOMAIN extended = rungs /\ \A i \in rungs : TrueSample(i, extended[i])
    BY <1>2, <1>11, <1>13 DEF Sampled
  <2>2. found'.retention = judgeLogRetention(extended) /\ found'.switch = found.switch
    BY <1>2, <1>13 DEF PaceInv, NothingFound
  <2> HIDE DEF extended
  <2>3. /\ ServesAll /\ flakes <= 3 => found'.retention \in {"no-pruning", "inconclusive"}
        /\ candidate.horizon > 11000 => found'.retention # "no-pruning"
    BY <1>2, <2>1, <2>2, JudgedRight
  <2>4. ReportIsTrue'
    BY <1>1, <1>2, <1>5, <2>2, <2>3 DEF ReportIsTrue
  <2> QED BY <1>3, <1>4, <1>13, <2>4 DEF ReportInv
<1> QED BY <1>6, <1>9, <1>12, <1>13

\* A stated cap is one of the two.
LEMMA StatedCapIs ==
    ASSUME candidate \in Candidates, NEW from, NEW w
    PROVE  /\ NARROW_CAP # WIDE_CAP /\ NARROW_CAP # 0 /\ WIDE_CAP # 0
           /\ StatedCap(from, w) # 0 <=> ~RangeRefused(w) /\ CountRefused(from, w)
           /\ StatedCap(from, w) # 0 => StatedCap(from, w) = CapAt(w)
<1>1. NARROW_CAP # WIDE_CAP /\ NARROW_CAP # 0 /\ WIDE_CAP # 0
  BY CandidatesServe
<1>2. CapAt(w) # 0
  BY <1>1 DEF CapAt
<1> QED BY <1>1, <1>2 DEF StatedCap

LEMMA FirstStatedIs ==
    ASSUME NEW caps, DOMAIN caps \subseteq Nat, FirstStated(caps) # 0
    PROVE  \E i \in DOMAIN caps : caps[i] # 0 /\ FirstStated(caps) = caps[i]
<1> DEFINE stated == {i \in DOMAIN caps : caps[i] # 0}
<1>1. stated # {} /\ FirstStated(caps) = caps[LeastOf(stated)]
  BY DEF FirstStated
<1>2. stated \subseteq Nat
  OBVIOUS
<1>3. LeastOf(stated) \in stated
  <2> HIDE DEF stated
  <2> QED BY <1>1, <1>2, LeastIsLeast
<1> QED BY <1>1, <1>3

LEMMA QuotientPositive ==
    ASSUME NEW n \in Nat, NEW d \in Nat, d > 0, d <= n
    PROVE  n \div d \in Nat /\ n \div d >= 1
<1> DEFINE q == n \div d
<1>1. q \in Nat /\ n < q * d + d
  BY DivBounds
<1> HIDE DEF q
<1>2. q = 0 => q * d + d = d
  OBVIOUS
<1>3. q # 0
  BY <1>1, <1>2
<1>4. q >= 1
  BY <1>1, <1>3
<1> QED BY <1>1, <1>4 DEF q

LEMMA SpanTypes ==
    ASSUME candidate \in Candidates
    PROVE  /\ DOMAIN NarrowSpans = 1..5 /\ \A i \in 1..5 : NarrowSpans[i] \in 1..1000
           /\ DOMAIN WideSpans = 1..7 /\ \A i \in 1..7 : WideSpans[i] \in Nat /\ WideSpans[i] > 1000
<1> DEFINE l == candidate.density.logs
           b == candidate.density.blocks
           first == Lesser(1000, IF l = 0 THEN 1000 ELSE (50000 * b + l - 1) \div l)
<1>1. l \in Nat /\ b \in Nat /\ b > 0
  BY CandidatesServe
<1>2. first \in 1..1000
  <2>1. CASE l = 0
    BY <2>1 DEF Lesser
  <2>2. CASE l # 0
    <3> DEFINE q == (50000 * b + l - 1) \div l
    <3>1. 50000 * b + l - 1 \in Nat /\ l > 0 /\ l <= 50000 * b + l - 1
      BY <1>1, <2>2
    <3>2. q \in Nat /\ q >= 1
      BY <1>1, <3>1, QuotientPositive
    <3>3. first = IF 1000 < q THEN 1000 ELSE q
      BY <2>2 DEF Lesser
    <3> HIDE DEF q, first
    <3> QED BY <3>2, <3>3
  <2> HIDE DEF first
  <2> QED BY <2>1, <2>2
<1>3. NarrowSpans = <<first, 1000, 900, 700, 500>>
  BY DEF NarrowSpans
<1> HIDE DEF first
<1>4. DOMAIN NarrowSpans = 1..5 /\ \A i \in 1..5 : NarrowSpans[i] \in 1..1000
  <2>1. \A i \in 1..5 : i = 1 \/ i = 2 \/ i = 3 \/ i = 4 \/ i = 5
    OBVIOUS
  <2> QED BY <1>2, <1>3, <2>1
<1>5. DOMAIN WideSpans = 1..7 /\ \A i \in 1..7 : WideSpans[i] \in Nat /\ WideSpans[i] > 1000
  <2>1. \A i \in 1..7 : i = 1 \/ i = 2 \/ i = 3 \/ i = 4 \/ i = 5 \/ i = 6 \/ i = 7
    OBVIOUS
  <2> QED BY <2>1 DEF WideSpans
<1> QED BY <1>4, <1>5

\* Two caps that differ are the narrow and the wide one, and the span between
\* which they change is past one that the narrow cap refuses.
LEMMA TwoCaps ==
    ASSUME candidate \in Candidates, NarrowLimit # 0, WideLimit # 0, NarrowLimit # WideLimit
    PROVE  /\ NarrowLimit = NARROW_CAP /\ 1 <= candidate.switch
           /\ ~RangeRefused(candidate.switch)
           /\ \A w \in Nat : w > candidate.switch => LogsIn(DenseFrom, w) > NARROW_CAP
<1> DEFINE narrow == [i \in DOMAIN NarrowSpans |-> StatedCap(DenseFrom, NarrowSpans[i])]
           wide == [i \in {j \in DOMAIN WideSpans : WideSpans[j] <= candidate.head} |->
                       StatedCap(DenseFrom - WideSpans[i], WideSpans[i])]
<1>1. NarrowLimit = FirstStated(narrow) /\ WideLimit = FirstStated(wide)
  BY DEF NarrowLimit, WideLimit
<1>2. PICK i \in DOMAIN narrow : narrow[i] # 0 /\ NarrowLimit = narrow[i]
  <2>1. DOMAIN narrow \subseteq Nat
    BY SpanTypes
  <2> HIDE DEF narrow
  <2> QED BY <1>1, <2>1, FirstStatedIs
<1>3. PICK j \in DOMAIN wide : wide[j] # 0 /\ WideLimit = wide[j]
  <2>1. DOMAIN wide \subseteq Nat
    BY SpanTypes
  <2> HIDE DEF wide
  <2> QED BY <1>1, <2>1, FirstStatedIs
<1> DEFINE v == NarrowSpans[i]
           w == WideSpans[j]
<1>4. v \in 1..1000 /\ w \in Nat /\ w > 1000
  BY <1>2, <1>3, SpanTypes
<1>5. StatedCap(DenseFrom, v) # 0 /\ NarrowLimit = StatedCap(DenseFrom, v)
      /\ StatedCap(DenseFrom - w, w) # 0 /\ WideLimit = StatedCap(DenseFrom - w, w)
  BY <1>2, <1>3
<1> HIDE DEF v, w, narrow, wide
<1>6. /\ ~RangeRefused(v) /\ CountRefused(DenseFrom, v) /\ NarrowLimit = CapAt(v)
      /\ ~RangeRefused(w) /\ WideLimit = CapAt(w)
  BY <1>5, StatedCapIs
<1>7. candidate.switch \in Nat /\ candidate.rangeCap \in Nat /\ DenseFrom \in Int
  BY CandidatesServe DEF DenseFrom
<1>8. v <= candidate.switch /\ candidate.switch < w
  BY <1>4, <1>6, <1>7 DEF CapAt
<1>9. NarrowLimit = NARROW_CAP /\ LogsIn(DenseFrom, v) > NARROW_CAP
  BY <1>6, <1>8 DEF CapAt, CountRefused
<1>10. ~RangeRefused(candidate.switch)
  BY <1>4, <1>6, <1>7, <1>8 DEF RangeRefused
<1>11. ASSUME NEW x \in Nat, x > candidate.switch PROVE LogsIn(DenseFrom, x) > NARROW_CAP
  <2>1. v \in Nat /\ v <= x
    BY <1>4, <1>7, <1>8, <1>11
  <2>2. LogsIn(DenseFrom, v) \in Nat /\ LogsIn(DenseFrom, x) \in Nat
        /\ LogsIn(DenseFrom, v) <= LogsIn(DenseFrom, x)
    BY <1>7, <2>1, WindowLogs
  <2> QED BY <1>9, <2>2, CandidatesServe
<1> QED BY <1>4, <1>7, <1>8, <1>9, <1>10, <1>11

LEMMA LimitsReportInv == ReportInv /\ Limits => ReportInv'
<1> SUFFICES ASSUME ReportInv, Limits PROVE ReportInv'
  OBVIOUS
<1> DEFINE two == NarrowLimit # 0 /\ WideLimit # 0 /\ NarrowLimit # WideLimit
<1>1. /\ phase = "limits" /\ call.done /\ candidate' = candidate /\ flakes' = flakes
      /\ pace' = pace /\ since' = since /\ call' = NewCall(3)
      /\ phase' = IF two THEN "switch" ELSE "state"
      /\ found' = [found EXCEPT !.narrowLimit = NarrowLimit, !.wideLimit = WideLimit]
      /\ bounds' = [narrow |-> 1, wide |-> IF two THEN 5000 ELSE 1]
  BY DEF Limits, Replied, Go
<1>2. InService /\ PaceInv /\ ReportIsTrue /\ candidate \in Candidates
  BY <1>1 DEF ReportInv, Sections, InService, SteadyCall
<1>3. InService'
  BY <1>1, <1>2, NextInService DEF Sections
<1>4. PaceInv'
  BY <1>2, SectionsPaceInv
<1>5. found'.retention = found.retention /\ found'.switch = found.switch /\ found'.narrowLimit = NarrowLimit
  BY <1>1, <1>2 DEF PaceInv, NothingFound
<1>6. ReportIsTrue'
  BY <1>1, <1>2, <1>5, ReportKept
<1>7. ASSUME two, candidate.switch < 5000 PROVE Narrowing'
  <2>1. /\ NarrowLimit = NARROW_CAP /\ 1 <= candidate.switch
        /\ ~RangeRefused(candidate.switch)
        /\ \A w \in Nat : w > candidate.switch => LogsIn(DenseFrom, w) > NARROW_CAP
    BY <1>2, <1>7, TwoCaps
  <2>2. bounds' = [narrow |-> 1, wide |-> 5000] /\ bounds'.narrow = 1 /\ bounds'.wide = 5000
    BY <1>1, <1>7
  <2>3. (\A w : RangeRefused(w)' <=> RangeRefused(w)) /\ DenseFrom' = DenseFrom
        /\ \A from, w : LogsIn(from, w)' = LogsIn(from, w)
    BY <1>1 DEF RangeRefused, DenseFrom, LogsIn
  <2>4. ~RangeRefused(candidate.switch)' /\ \A w \in Nat : w > candidate.switch => LogsIn(DenseFrom, w)' > NARROW_CAP
    BY <1>1, <2>1, <2>3
  <2> QED BY <1>1, <1>5, <1>7, <2>1, <2>2, <2>4 DEF Narrowing
<1> QED BY <1>1, <1>3, <1>4, <1>6, <1>7 DEF ReportInv

\* A span up to the one at which the cap changes is served or refused by the
\* narrow cap; one past it is refused by another, or by its range.
LEMMA SpanSide ==
    ASSUME candidate \in Candidates, Narrowing, NEW w \in Nat
    PROVE  LET cap == StatedCap(DenseFrom, w)
           IN  StillNarrow(cap, ~QueryTooBig(DenseFrom, w)) <=> w <= candidate.switch
<1>1. candidate.switch \in Nat /\ candidate.rangeCap \in Nat
  BY CandidatesServe
<1>2. NARROW_CAP # WIDE_CAP /\ NARROW_CAP # 0 /\ NARROW_CAP \in Nat /\ WIDE_CAP \in Nat /\ WIDE_CAP < NARROW_CAP
  BY CandidatesServe
<1>3. found.narrowLimit = NARROW_CAP
  BY DEF Narrowing
<1>4. CASE w <= candidate.switch
  <2>1. ~RangeRefused(w)
    BY <1>1, <1>4 DEF Narrowing, RangeRefused
  <2>2. CapAt(w) = NARROW_CAP
    BY <1>4 DEF CapAt
  <2>3. CASE CountRefused(DenseFrom, w)
    BY <1>3, <1>4, <2>1, <2>2, <2>3 DEF StatedCap, StillNarrow
  <2>4. CASE ~CountRefused(DenseFrom, w)
    BY <1>4, <2>1, <2>4 DEF QueryTooBig, StillNarrow
  <2> QED BY <2>3, <2>4
<1>5. CASE ~(w <= candidate.switch)
  <2>1. CapAt(w) = WIDE_CAP /\ w > candidate.switch
    BY <1>1, <1>5 DEF CapAt
  <2>2. LogsIn(DenseFrom, w) > NARROW_CAP
    BY <2>1 DEF Narrowing
  <2>3. LogsIn(DenseFrom, w) \in Nat
    <3>1. DenseFrom \in Int
      BY CandidatesServe DEF DenseFrom
    <3> QED BY <3>1, WindowLogs
  <2>4. CountRefused(DenseFrom, w)
    BY <1>2, <2>1, <2>2, <2>3 DEF CountRefused
  <2>5. StatedCap(DenseFrom, w) # NARROW_CAP
    BY <1>2, <2>1 DEF StatedCap
  <2> QED BY <1>3, <1>5, <2>4, <2>5 DEF QueryTooBig, StillNarrow
<1> QED BY <1>4, <1>5

LEMMA SwitchReportInv == ReportInv /\ Switch => ReportInv'
<1> SUFFICES ASSUME ReportInv, Switch PROVE ReportInv'
  OBVIOUS
<1> DEFINE n == bounds.narrow
           m == bounds.wide
           mid == (n + m) \div 2
           cap == StatedCap(DenseFrom, mid)
           served == call.ok /\ ~QueryTooBig(DenseFrom, mid)
           still == StillNarrow(IF call.ok THEN cap ELSE 0, served)
           next == IF still THEN [bounds EXCEPT !.narrow = mid] ELSE [bounds EXCEPT !.wide = mid]
<1>1. /\ phase = "switch" /\ call.done /\ candidate' = candidate /\ flakes' = flakes
      /\ pace' = pace /\ since' = since /\ call' = NewCall(3) /\ bounds' = next
  BY DEF Switch, Replied, Go
<1>2. \/ next.wide - next.narrow > 1 /\ phase' = "switch" /\ found' = found
      \/ ~(next.wide - next.narrow > 1) /\ phase' = "state" /\ found' = [found EXCEPT !.switch = next.narrow]
  BY DEF Switch, Go
<1>3. InService /\ PaceInv /\ ReportIsTrue /\ candidate \in Candidates
  BY <1>1 DEF ReportInv, Sections, InService, SteadyCall
<1>4. InService'
  BY <1>1, <1>2, <1>3, NextInService DEF Sections
<1>5. PaceInv'
  BY <1>3, SectionsPaceInv
<1>6. ASSUME flakes <= 3, candidate.switch < 5000
      PROVE  /\ Narrowing /\ next = [narrow |-> next.narrow, wide |-> next.wide]
             /\ next.narrow \in Nat /\ next.wide \in Nat
             /\ next.narrow <= candidate.switch /\ candidate.switch < next.wide
  <2>1. Narrowing /\ call.ok
    BY <1>1, <1>3, <1>6 DEF ReportInv, InService
  <2>2. /\ bounds = [narrow |-> n, wide |-> m] /\ n \in Nat /\ m \in Nat
        /\ n <= candidate.switch /\ candidate.switch < m /\ m - n > 1
    BY <2>1 DEF Narrowing
  <2>3. mid \in Nat
    BY <2>2
  <2>4. still <=> mid <= candidate.switch
    <3> HIDE DEF mid
    <3> QED BY <1>3, <2>1, <2>3, SpanSide
  <2>5. candidate.switch \in Nat
    BY <1>3, CandidatesServe
  <2> HIDE DEF mid, still
  <2>6. CASE still
    <3>1. next = [narrow |-> mid, wide |-> m]
      BY <2>2, <2>6
    <3> QED BY <2>1, <2>2, <2>3, <2>4, <2>6, <3>1
  <2>7. CASE ~still
    <3>1. next = [narrow |-> n, wide |-> mid]
      BY <2>2, <2>7
    <3> QED BY <2>1, <2>2, <2>3, <2>4, <2>5, <2>7, <3>1
  <2> QED BY <2>6, <2>7
<1> HIDE DEF next
<1>7. CASE next.wide - next.narrow > 1 /\ phase' = "switch" /\ found' = found
  <2>1. ASSUME flakes <= 3, candidate.switch < 5000 PROVE Narrowing'
    <3>1. /\ Narrowing /\ next = [narrow |-> next.narrow, wide |-> next.wide]
          /\ next.narrow \in Nat /\ next.wide \in Nat
          /\ next.narrow <= candidate.switch /\ candidate.switch < next.wide
      BY <1>6, <2>1
    <3>2. (\A w : RangeRefused(w)' <=> RangeRefused(w)) /\ DenseFrom' = DenseFrom
          /\ \A from, w : LogsIn(from, w)' = LogsIn(from, w)
      BY <1>1 DEF RangeRefused, DenseFrom, LogsIn
    <3>3. ~RangeRefused(candidate.switch)'
          /\ \A w \in Nat : w > candidate.switch => LogsIn(DenseFrom, w)' > NARROW_CAP
      BY <1>1, <3>1, <3>2 DEF Narrowing
    <3>4. found'.narrowLimit = NARROW_CAP
      BY <1>7, <3>1 DEF Narrowing
    <3> QED BY <1>1, <1>7, <3>1, <3>3, <3>4 DEF Narrowing
  <2>2. ReportIsTrue'
    BY <1>1, <1>3, <1>7, ReportKept
  <2> QED BY <1>1, <1>4, <1>5, <1>7, <2>1, <2>2 DEF ReportInv
<1>8. CASE ~(next.wide - next.narrow > 1) /\ phase' = "state" /\ found' = [found EXCEPT !.switch = next.narrow]
  <2>1. found'.retention = found.retention /\ found'.switch = next.narrow
    BY <1>3, <1>8 DEF PaceInv, NothingFound
  <2>2. flakes <= 3 /\ candidate.switch < 5000 => found'.switch = candidate.switch
    BY <1>3, <1>6, <1>8, <2>1, CandidatesServe
  <2>3. ServesAll' = ServesAll
    BY <1>1 DEF ServesAll, LogsIn, QueryTooBig, RangeRefused, CountRefused, CapAt
  <2>4. ReportIsTrue'
    BY <1>1, <1>3, <2>1, <2>2, <2>3 DEF ReportIsTrue
  <2> QED BY <1>4, <1>5, <1>8, <2>4 DEF ReportInv
<1> QED BY <1>2, <1>7, <1>8

LEMMA StateDepthReportInv == ReportInv /\ StateDepth => ReportInv'
<1> SUFFICES ASSUME ReportInv, StateDepth PROVE ReportInv'
  OBVIOUS
<1>1. /\ phase = "state" /\ call.done /\ candidate' = candidate /\ flakes' = flakes
      /\ pace' = pace /\ since' = since
      /\ phase' = "burst" \/ (phase' = "state" /\ call' = NewCall(3))
  BY DEF StateDepth, Replied, Go
<1>2. InService /\ PaceInv /\ ReportIsTrue
  BY <1>1 DEF ReportInv, Sections
<1>3. phase' = "state" => InService'
  BY <1>1, <1>2, NextInService DEF Sections
<1>4. PaceInv'
  BY <1>2, SectionsPaceInv
<1>5. found'.retention = found.retention /\ found'.switch = found.switch
  BY <1>2 DEF StateDepth, PaceInv, NothingFound
<1>6. ReportIsTrue'
  BY <1>1, <1>2, <1>5, ReportKept
<1> QED BY <1>1, <1>3, <1>4, <1>6 DEF ReportInv, Sections

LEMMA EndReportInv ==
    ASSUME ReportInv, Burst \/ Emit \/ (\E b \in Builds : Deploy(b))
    PROVE  ReportInv'
<1>1. PaceInv /\ ReportIsTrue
  BY DEF ReportInv
<1>2. PaceInv'
  BY <1>1, SectionsPaceInv, EmitPaceInv, DeployPaceInv
<1>3. phase' \in {"done", "reported", "serving"}
  BY DEF Burst, Emit, Deploy, Go
<1>4. ReportIsTrue'
  <2>1. CASE Burst
    <3>1. found'.retention = found.retention /\ found'.switch = found.switch
          /\ candidate' = candidate /\ flakes' = flakes
      BY <1>1, <2>1 DEF Burst, Go, PaceInv, NothingFound
    <3> QED BY <1>1, <3>1, ReportKept
  <2>2. CASE Emit
    <3>1. found'.retention = NONE /\ found'.switch = NONE
      BY <2>2 DEF Emit, NothingFound
    <3> QED BY <3>1 DEF ReportIsTrue
  <2>3. CASE \E b \in Builds : Deploy(b)
    <3>1. found'.retention = NONE /\ found'.switch = NONE
      BY <2>3 DEF Deploy, NothingFound
    <3> QED BY <3>1 DEF ReportIsTrue
  <2> QED BY <2>1, <2>2, <2>3
<1> QED BY <1>2, <1>3, <1>4 DEF ReportInv, Sections

LEMMA NextReportInv == ReportInv /\ [Next]_allVars => ReportInv'
<1>1. ReportInv /\ UNCHANGED probeVars => ReportInv'
  <2>1. SUFFICES ASSUME ReportInv, UNCHANGED probeVars PROVE ReportInv'
    OBVIOUS
  <2>2. /\ phase' = phase /\ candidate' = candidate /\ pace' = pace /\ since' = since /\ call' = call
        /\ flakes' = flakes /\ samples' = samples /\ span' = span /\ bounds' = bounds /\ found' = found
    BY <2>1 DEF probeVars
  <2>3. PaceInv' /\ ReportIsTrue'
    <3>1. PaceInv'
      BY <2>1, <2>2 DEF ReportInv, PaceInv, Identifying, PacedCall, Expected, Usable, ThrottlingIsNoIncapability
    <3> QED BY <2>1, <2>2, <3>1, ReportKept DEF ReportInv
  <2>4. Answering' = Answering /\ InService' = InService
    BY <2>2 DEF Answering, InService, SteadyCall, Steady, NthCall, Heard, Usable
  <2>5. Sampled' = Sampled
    BY <2>2 DEF Sampled, TrueSample, rungs, depths, ServesAll, LogsIn, QueryTooBig, RangeRefused, CountRefused, CapAt
  <2>6. Narrowing' = Narrowing
    BY <2>2 DEF Narrowing, RangeRefused, LogsIn, DenseFrom
  <2> QED BY <2>1, <2>2, <2>3, <2>4, <2>5, <2>6 DEF ReportInv
<1>2. Serve => UNCHANGED probeVars
  BY DEF Serve
<1>3. UNCHANGED allVars => UNCHANGED probeVars
  BY DEF allVars
<1> QED BY <1>1, <1>2, <1>3, AttemptReportInv, IdentityReportInv, SampleReportInv, LimitsReportInv,
           SwitchReportInv, StateDepthReportInv, EndReportInv
        DEF Next, Probe

\* What the report says of the candidate's logs is so, whatever ranges and counts
\* it refuses, as long as no more than three replies are lost: none of the calls
\* that decide it then fails.  (rpc-probe.mjs:125-180, 262-345, 355-440, 598-749)
THEOREM ReportsWhatIsThere == Spec => []ReportIsTrue
<1>1. ReportInv => ReportIsTrue
  BY DEF ReportInv
<1> QED BY <1>1, InitReportInv, NextReportInv, PTL DEF Spec

-----------------------------------------------------------------------------
(* The token gate.                                                          *)

Launched == {"none", "curve", "graduated"}

GateTyped ==
    /\ token \in Launched /\ before \in Launched
    /\ before \in {token, IF token = "graduated" THEN "curve" ELSE "none"}
    /\ round1 \in [data : Round1 \cup {UNREAD}, isError : BOOLEAN]
    /\ round2 \in [data : Round2 \cup {UNREAD}, isError : BOOLEAN]

\* The first round was answered from the chain, now or one change ago, and a curve
\* once there is there for ever.
Round1Founded == (round1.data # UNREAD /\ round1.data.curve = "curve") => token # "none"

\* The second was asked only of a curve and a factory that were read, and both its
\* entries are of the one moment of the chain that the node knew.
Round2Founded ==
    round2.data # UNREAD =>
        /\ Round2Enabled
        /\ told \in Launched
        /\ told # "none" => token # "none"
        /\ told = "graduated" => token = "graduated"
        /\ round2.data.graduated # FAILED =>
              /\ round2.data.graduated = graduatedFlag(told)
              /\ curveOf(told) = "curve" /\ round1.data.curve = "curve"
        /\ round2.data.pool # FAILED => round2.data.pool = getPool(told)

GateInv == GateTyped /\ Round1Founded /\ Round2Founded

\* The page opens with nothing read.
LEMMA GateStarts == ASSUME NEW v \in BOOLEAN, GateInit(v) PROVE GateInv
  BY GateAssumption DEF GateInit, GateInv, GateTyped, Round1Founded, Round2Founded, Launched, Pending

\* No step of the chain, of a read or of the browser unfounds what was read.
LEMMA GateKept == ASSUME GateInv, [GateNext]_gateVars PROVE GateInv'
<1> USE DEF GateInv, GateTyped, Launched
<1>1. CASE Moves
  <2>1. GateTyped' BY <1>1 DEF Moves
  <2>2. Round1Founded' BY <1>1 DEF Moves, Round1Founded
  <2>3. Round2Founded' BY <1>1 DEF Moves, Round2Founded, Round2Enabled, Entry, Succeeded
  <2> QED BY <2>1, <2>2, <2>3
<1>2. CASE ReadRound1
  <2>1. round2.data = UNREAD
    BY <1>2, GateAssumption DEF ReadRound1, Round2Founded, Round2Enabled, Entry, Succeeded
  <2>2. CASE round1' = FailedAfter(round1)
    BY <1>2, <2>1, <2>2 DEF ReadRound1, FailedAfter, Round1Founded, Round2Founded
  <2>3. ASSUME NEW t \in {token, before}, NEW c \in BOOLEAN, NEW f \in BOOLEAN,
               round1' = Answered([curve |-> IF c THEN curveOf(t) ELSE FAILED,
                                   v3Factory |-> IF f THEN "factory" ELSE FAILED])
        PROVE GateInv'
    <3>1. UNCHANGED <<token, before, round2, told>> BY <1>2 DEF ReadRound1
    <3>2. round1'.data \in Round1 /\ round1' \in [data : Round1 \cup {UNREAD}, isError : BOOLEAN]
      BY <2>3, Zenon DEF Answered, Round1, curveOf
    <3>3. round1'.data.curve = "curve" => token # "none"
      BY <2>3, GateAssumption DEF Answered, curveOf
    <3> QED BY <3>1, <3>2, <3>3, <2>1 DEF Round1Founded, Round2Founded
  <2> QED BY <1>2, <2>2, <2>3 DEF ReadRound1
<1>3. CASE ReadRound2
  <2>1. Round2Enabled /\ UNCHANGED <<token, before, round1>> BY <1>3 DEF ReadRound2
  <2>2. Round2Enabled' BY <2>1 DEF Round2Enabled, Entry, Succeeded
  <2>3. CASE round2' = FailedAfter(round2) /\ UNCHANGED told
    BY <2>1, <2>2, <2>3 DEF FailedAfter, Round1Founded, Round2Founded, Round2Enabled
  <2>4. ASSUME NEW t \in {token, before}, NEW f \in BOOLEAN, NEW p \in BOOLEAN, told' = t,
               round2' = Answered([graduated |-> IF f /\ curveOf(t) = "curve" /\ round1.data.curve = "curve"
                                                 THEN graduatedFlag(t) ELSE FAILED,
                                   pool |-> IF p THEN PoolRead(t) ELSE FAILED])
        PROVE GateInv'
    <3>1. round2'.data.graduated = IF f /\ curveOf(t) = "curve" /\ round1.data.curve = "curve"
                                   THEN graduatedFlag(t) ELSE FAILED
      BY <2>4 DEF Answered
    <3>2. round2'.data.pool = IF p THEN getPool(t) ELSE FAILED
      BY <2>4 DEF Answered, PoolRead
    <3>3. round2' \in [data : Round2 \cup {UNREAD}, isError : BOOLEAN]
      BY <2>4 DEF Answered, Round2, PoolRead, getPool, graduatedFlag
    <3>4. Round2Founded'
      BY <2>1, <2>2, <2>4, <3>1, <3>2 DEF Round2Founded
    <3> QED BY <2>1, <3>3, <3>4 DEF Round1Founded
  <2> QED BY <1>3, <2>3, <2>4 DEF ReadRound2
<1>4. CASE Reload
  BY <1>4, GateAssumption DEF Reload, Pending, Round1Founded, Round2Founded
<1>5. CASE UNCHANGED <<token, before, round1, round2, told>>
  BY <1>5 DEF Round1Founded, Round2Founded, Round2Enabled, Entry, Succeeded
<1> QED
  BY <1>1, <1>2, <1>3, <1>4, <1>5 DEF GateNext, gateVars, TryGateway, GatewayTurns

\* What the pages offer follows from what was read and when.
LEMMA OffersFounded == ASSUME GateInv PROVE OffersAreTheChains
<1> USE DEF GateInv, GateTyped, Launched
<1>1. CASE round1.data = UNREAD
  <2>1. round2.data = UNREAD BY <1>1, GateAssumption DEF Round2Founded, Round2Enabled, Entry, Succeeded
  <2> QED BY <1>1, <2>1, GateAssumption DEF OffersAreTheChains, Status, Entry, resolveOnchainToken, TradeOffered, SwapOffered
<1>2. CASE round1.data # UNREAD /\ round2.data = UNREAD
  BY <1>2, GateAssumption DEF OffersAreTheChains, Status, Entry, resolveOnchainToken, TradeOffered, SwapOffered, Round1
<1>3. CASE round1.data # UNREAD /\ round2.data # UNREAD
  <2> DEFINE c == round1.data.curve
             g == round2.data.graduated
             p == round2.data.pool
  <2>1. c \in {"zero", "curve", FAILED} /\ round1.data.v3Factory \in {"factory", FAILED} BY <1>3 DEF Round1
  <2>2. g \in BOOLEAN \cup {FAILED} /\ p \in {"zero", "pool", FAILED} BY <1>3 DEF Round2
  <2>3. c # FAILED /\ round1.data.v3Factory # FAILED
    BY <1>3 DEF Round2Founded, Round2Enabled, Entry, Succeeded
  <2>4. Status = resolveOnchainToken(c, round1.isError, IF g = FAILED THEN UNREAD ELSE g, g = FAILED \/ round2.isError,
                                     IF p = FAILED THEN UNREAD ELSE p, p = FAILED \/ round2.isError)
    BY <1>3, <2>1, <2>2, <2>3 DEF Status, Entry
  <2>5. g # FAILED => g = (told = "graduated") /\ told # "none" /\ c = "curve"
    BY <1>3 DEF Round2Founded, graduatedFlag, curveOf
  <2>6. p # FAILED => p = IF told = "graduated" THEN "pool" ELSE "zero"
    BY <1>3 DEF Round2Founded, getPool
  <2>7. told \in Launched /\ (told # "none" => token # "none") /\ (told = "graduated" => token = "graduated")
    BY <1>3 DEF Round2Founded
  <2>8. Entry(round1, "curve") = c /\ Entry(round2, "graduated") = g /\ Entry(round2, "pool") = p
    BY <1>3 DEF Entry
  <2> HIDE DEF c, g, p
  <2>9. /\ Status = "on-curve" => told = "curve" /\ token # "none"
        /\ Status = "graduated" => token = "graduated"
        /\ Status # "graduated-pool-missing"
    BY <2>1, <2>2, <2>3, <2>4, <2>5, <2>6, <2>7, GateAssumption DEF resolveOnchainToken
  <2>10. /\ Status = "not-a-launch" => c = "zero"
         /\ Status = "unreachable" => round1.isError \/ round2.isError \/ FAILED \in {c, g, p}
    BY <2>1, <2>2, <2>3, <2>4, GateAssumption DEF resolveOnchainToken
  <2> QED BY <2>8, <2>9, <2>10 DEF OffersAreTheChains, TradeOffered, SwapOffered
<1> QED BY <1>1, <1>2, <1>3

-----------------------------------------------------------------------------
(* The metadata.                                                            *)

MetaTyped ==
    /\ document \in {"document", "useless"}
    /\ meta \in [tried : Nat, failed : SUBSET {"dweb", "w3s", "direct"}, answer : {"none", "document", UNREAD}]

\* While there is no answer every place that was asked has failed; none is the answer
\* when a useless document came back or there was no place left.
MetaFounded ==
    LET named == gatewayUrls(uri)
    IN /\ meta.answer = UNREAD => \A i \in DOMAIN named : i <= meta.tried => named[i] \in meta.failed
       /\ meta.answer = "none" =>
            \/ document = "useless" /\ meta.tried >= 1
            \/ \A i \in DOMAIN named : named[i] \in meta.failed

MetaInv == MetaTyped /\ MetaFounded

\* The places a document is fetched from are a short list of known ones.
LEMMA GatewayLists ==
    ASSUME NEW u
    PROVE /\ Len(gatewayUrls(u)) \in Nat /\ DOMAIN gatewayUrls(u) = 1 .. Len(gatewayUrls(u))
          /\ \A i \in DOMAIN gatewayUrls(u) : gatewayUrls(u)[i] \in {"dweb", "w3s", "direct"}
          /\ gatewayUrls(u) = <<>> <=> Len(gatewayUrls(u)) = 0
<1>1. gatewayUrls(u) \in {<<>>, <<"direct">>, <<"dweb", "w3s">>} BY DEF gatewayUrls, Gateways
<1> QED BY <1>1

\* The page opens with no place asked.
LEMMA MetaStarts == ASSUME NEW v \in BOOLEAN, GateInit(v) PROVE MetaInv
<1>1. \A i \in DOMAIN gatewayUrls(uri) : i \in Nat /\ ~(i <= 0) BY GatewayLists
<1> QED BY <1>1, GateAssumption DEF GateInit, MetaInv, MetaTyped, MetaFounded

\* A step that asks no place leaves what was asked and answered as it was.
LEMMA MetaKept == ASSUME MetaInv, [GateNext]_gateVars PROVE MetaInv'
<1> USE DEF MetaInv, MetaTyped
<1>1. CASE Reload
  <2>1. \A i \in DOMAIN gatewayUrls(uri) : i \in Nat /\ ~(i <= 0) BY GatewayLists
  <2>2. meta' = [tried |-> 0, failed |-> {}, answer |-> UNREAD] /\ UNCHANGED <<uri, document>> BY <1>1 DEF Reload
  <2> QED BY <2>1, <2>2, GateAssumption DEF MetaFounded
<1>2. CASE TryGateway
  <2> DEFINE named == gatewayUrls(uri)
             i == meta.tried + 1
  <2>1. meta.answer = UNREAD /\ UNCHANGED <<uri, document>> BY <1>2 DEF TryGateway
  <2>2. /\ Len(named) \in Nat /\ DOMAIN named = 1 .. Len(named)
        /\ \A k \in DOMAIN named : named[k] \in {"dweb", "w3s", "direct"}
    BY GatewayLists
  <2>3. \A k \in DOMAIN named : k <= meta.tried => named[k] \in meta.failed BY <2>1 DEF MetaFounded
  <2>4. CASE i > Len(named) /\ meta' = [meta EXCEPT !.answer = "none"]
    <3>1. \A k \in DOMAIN named : named[k] \in meta.failed BY <2>2, <2>3, <2>4
    <3>2. meta'.answer = "none" /\ meta'.failed = meta.failed /\ MetaTyped' BY <2>1, <2>4
    <3> QED BY <2>1, <3>1, <3>2, GateAssumption DEF MetaFounded
  <2>5. CASE i <= Len(named) /\ meta' = [meta EXCEPT !.tried = i, !.answer = IF document = "document" THEN document ELSE "none"]
    <3>1. meta' = [tried |-> i, failed |-> meta.failed, answer |-> IF document = "document" THEN "document" ELSE "none"]
      BY <2>5
    <3>2. meta' \in [tried : Nat, failed : SUBSET {"dweb", "w3s", "direct"}, answer : {"none", "document", UNREAD}]
      BY <3>1, meta.tried \in Nat, meta.failed \in SUBSET {"dweb", "w3s", "direct"}
    <3> QED BY <2>1, <3>1, <3>2, GateAssumption DEF MetaFounded
  <2>6. CASE i <= Len(named) /\ meta' = [meta EXCEPT !.tried = i, !.failed = @ \cup {named[i]}]
    <3>1. named[i] \in {"dweb", "w3s", "direct"} BY <2>2, <2>6
    <3>2. meta' = [tried |-> i, failed |-> meta.failed \cup {named[i]}, answer |-> UNREAD]
      BY <2>1, <2>6
    <3>3. meta' \in [tried : Nat, failed : SUBSET {"dweb", "w3s", "direct"}, answer : {"none", "document", UNREAD}]
      BY <3>1, <3>2, meta.tried \in Nat, meta.failed \in SUBSET {"dweb", "w3s", "direct"}
    <3>4. \A k \in DOMAIN named : k <= i => named[k] \in meta'.failed BY <2>2, <2>3, <3>2
    <3> QED BY <2>1, <3>2, <3>3, <3>4, GateAssumption DEF MetaFounded
  <2> QED BY <1>2, <2>2, <2>4, <2>5, <2>6 DEF TryGateway, Asks
<1>3. CASE UNCHANGED <<uri, document, meta>> BY <1>3 DEF MetaFounded
<1> QED BY <1>1, <1>2, <1>3 DEF GateNext, gateVars, Moves, ReadRound1, ReadRound2, GatewayTurns

\* Giving up comes only after every place, or after an answer that is no document.
LEMMA LookedFor == ASSUME MetaInv PROVE MetadataIsLookedFor
<1>1. classifyMetadataUri(uri) = "ok" => gatewayUrls(uri) # <<>> BY DEF classifyMetadataUri
<1> QED BY <1>1 DEF MetadataIsLookedFor, MetaInv, MetaFounded

\* Whatever the nodes and the gateways answer and however late, the pages offer the
\* curve and the swap only of a token that has them, and look for its metadata
\* everywhere (useOnchainToken.ts, onchainToken.ts, tokenMetadata.ts).
THEOREM GateIsTheChainsAlways == GateSpec => []GateIsTheChains
<1>1. (\E v \in BOOLEAN : GateInit(v)) => GateInv /\ MetaInv BY GateStarts, MetaStarts
<1>2. GateInv /\ MetaInv /\ [GateNext]_gateVars => (GateInv /\ MetaInv)' BY GateKept, MetaKept
<1>3. GateInv /\ MetaInv => GateIsTheChains BY OffersFounded, LookedFor DEF GateIsTheChains
<1> QED BY <1>1, <1>2, <1>3, PTL DEF GateSpec

-----------------------------------------------------------------------------
(* The forms.                                                               *)

FormsTyped ==
    /\ facts \in [rate : Rates, cap : BOOLEAN, bought : Nat, allowance : Nat, fee : Nat, maxDev : Nat]
    /\ DOMAIN reads = FactNames /\ reads["rate"] \in Rates \cup {UNREAD}
    /\ quotes \in [Sides \X Amounts -> Nat \cup {UNREAD}]
    /\ fields \in [side : Sides, amount : Amounts \cup {0}, slip : Slippages, dev : Nat,
                   permanent : BOOLEAN, acknowledged : BOOLEAN]

TxFields == {"state", "action", "side", "amount", "min", "dev", "permanent", "value", "got",
             "shown", "slip", "late", "overtaken"}

TxTyped ==
    /\ DOMAIN tx = TxFields
    /\ tx.state \in {"wallet", "rejected", "mining", "succeeded", "reverted"}
    /\ tx.action \in {"approve", "trade", "launch"} /\ tx.amount \in Amounts \cup {0}
    /\ tx.late \in BOOLEAN /\ tx.overtaken \in BOOLEAN
    /\ tx.action = "trade" => /\ tx.amount \in Amounts
                              /\ tx.shown \in Nat /\ tx.slip \in 0..BPS
                              /\ tx.min = applySlippage(tx.shown, tx.slip)

\* What was checked as the transaction was sent holds of the chain until it is mined,
\* unless the chain has overtaken it.
StillGood ==
    /\ tx.action = "trade" => Allowed /\ UnderTheCap /\ Out(tx.amount, facts.rate) = tx.shown
    /\ tx.action = "launch" => LaunchGoesThrough

TxFounded ==
    /\ isBusy /\ ~tx.overtaken => StillGood
    /\ tx.state = "succeeded" /\ tx.action = "trade" => tx.got \in Int /\ tx.got >= tx.min
    /\ tx.state = "reverted" => tx.late \/ tx.overtaken

FormsInv == FormsTyped /\ (tx = NoTx \/ (TxTyped /\ TxFounded))

\* The inputs are numbers in their ranges.
LEMMA Inputs ==
    /\ \A q \in Amounts : q \in Nat /\ q > 0
    /\ \A r \in Rates : r \in Nat /\ r > 0
    /\ \A s \in Slippages : s \in 0..BPS
    /\ \A x \in Fees : x \in Nat
    /\ UNREAD \notin Nat
<1>1. \A q \in Amounts : q \in Nat /\ q > 0 BY FormsAssumption
<1>2. \A r \in Rates : r \in Nat /\ r > 0 BY FormsAssumption
<1>3. \A s \in Slippages : s \in 0..BPS BY FormsAssumption
<1>4. \A x \in Fees : x \in Nat BY FormsAssumption
<1>5. UNREAD \notin Nat BY FormsAssumption
<1> QED BY <1>1, <1>2, <1>3, <1>4, <1>5

\* The minimum is what was shown less the slippage, rounded down.
LEMMA SlippageBounds ==
    ASSUME NEW q \in Nat, NEW s \in 0..BPS
    PROVE /\ applySlippage(q, s) \in Nat /\ q * (BPS - s) \in Nat /\ applySlippage(q, s) <= q
          /\ BPS * applySlippage(q, s) >= q * (BPS - s) - (BPS - 1)
<1> DEFINE x == q * (BPS - s)
<1>1. BPS - s \in Nat /\ BPS - s <= BPS /\ BPS \in Nat BY DEF BPS
<1>2. x \in Nat /\ x <= q * BPS
  <2> DEFINE d == BPS - s
  <2>1. d \in Nat /\ d <= BPS /\ BPS \in Nat BY <1>1
  <2> HIDE DEF d
  <2>2. q * d \in Nat /\ q * d <= q * BPS BY <2>1
  <2> QED BY <2>2 DEF d
<1>3. applySlippage(q, s) = x \div BPS BY DEF applySlippage
<1> HIDE DEF x
<1>4. x \div BPS \in Nat /\ x \div BPS <= q /\ BPS * (x \div BPS) >= x - (BPS - 1) BY <1>2 DEF BPS
<1>5. applySlippage(q, s) \in Nat /\ applySlippage(q, s) <= q /\ BPS * applySlippage(q, s) >= x - (BPS - 1)
  BY <1>3, <1>4, Zenon
<1> QED BY <1>2, <1>5, Zenon DEF x

\* A trade brings a natural amount.
LEMMA OutTyped == ASSUME NEW a \in Amounts, NEW r \in Rates PROVE Out(a, r) \in Nat /\ a * r \in Nat
<1>1. a \in Nat \ {0} /\ r \in Nat \ {0} BY Inputs
<1>2. a * r \in Nat \ {0} BY <1>1
<1> QED BY <1>2 DEF Out, Impact

\* A form opens with nothing read and nothing sent.
LEMMA FormsStart == ASSUME NEW f, FormsInit(f) PROVE FormsInv
<1>1. (CHOOSE r \in Rates : \A s \in Rates : r >= s) \in Rates BY RatesAssumption
<1>2. (CHOOSE x \in Fees : TRUE) \in Fees /\ (CHOOSE x \in Slippages : TRUE) \in Slippages
  BY FormsAssumption
<1>3. \A x \in Fees : x \in Nat BY Inputs
<1>4. FormsTyped BY <1>1, <1>2, <1>3 DEF FormsInit, FormsTyped, FactNames, Sides
<1> QED BY <1>4 DEF FormsInit, FormsInv

\* What stands in Quote is an amount.
LEMMA QuoteTyped == ASSUME FormsTyped, Quote # UNREAD PROVE Quote \in Nat /\ fields.amount \in Amounts
<1>1. fields.amount \in Amounts BY DEF Quote, enabled
<1>2. CASE form = "swap by spot"
  <2>1. reads["rate"] \in Rates BY <1>1, <1>2 DEF FormsTyped, Quote, enabled
  <2> QED BY <1>1, <1>2, <2>1, OutTyped DEF Quote, enabled, estimateAmountOut
<1>3. CASE form # "swap by spot"
  <2>1. fields.side \in Sides BY DEF FormsTyped
  <2>2. quotes[<<fields.side, fields.amount>>] \in Nat \cup {UNREAD} BY <1>1, <2>1 DEF FormsTyped
  <2> QED BY <1>1, <1>3, <2>2 DEF Quote, enabled
<1> QED BY <1>1, <1>2, <1>3

\* What a form sends is good as it is sent, if what it read is the chain's.
LEMMA SentIsGood ==
    ASSUME FormsTyped, Press PROVE TxTyped' /\ TxFounded'
<1>1. UNCHANGED <<form, facts>> BY DEF Press
<1>2. /\ facts.rate \in Rates /\ facts.cap \in BOOLEAN /\ facts.bought \in Nat /\ facts.allowance \in Nat
      /\ facts.fee \in Nat /\ facts.maxDev \in Nat
  BY DEF FormsTyped
<1>3. fields.side \in Sides /\ fields.amount \in Amounts \cup {0} /\ fields.dev \in Nat BY DEF FormsTyped
<1>4. fields.slip \in 0..BPS
  <2>1. fields.slip \in Slippages BY DEF FormsTyped
  <2> QED BY <2>1, Inputs
<1>5. PICK a \in {"approve", "trade", "launch"} :
        /\ tx' = Sent(a)
        /\ a = "trade" => Trades /\ ~needsApproval /\ Quote # UNREAD /\ ~capWarning
        /\ a = "launch" => form = "create" /\ canSubmit
  <2>1. CASE form = "trade" /\ TradePanelSends
    BY <2>1 DEF TradePanelSends, Trades
  <2>2. CASE Swapping /\ SwapPanelSends
    <3>1. ~capWarning BY <2>2 DEF Swapping, capWarning
    <3> QED BY <2>2, <3>1 DEF SwapPanelSends, Trades
  <2>3. CASE form = "create" /\ CreatePageSends
    BY <2>3 DEF CreatePageSends
  <2> QED BY <2>1, <2>2, <2>3 DEF Press
<1>6. /\ DOMAIN tx' = TxFields
      /\ tx'.state = "wallet" /\ tx'.action = a /\ tx'.side = fields.side /\ tx'.amount = fields.amount
      /\ tx'.dev = effectiveDevBps /\ tx'.value = OrElse(reads["fee"], 0)
      /\ tx'.shown = Quote /\ tx'.slip = fields.slip /\ tx'.late = FALSE
      /\ tx'.min = IF a = "trade" THEN applySlippage(Quote, fields.slip) ELSE 0
  BY <1>5 DEF Sent, TxFields
<1>7. tx'.overtaken = (\/ \E n \in FactsRead : reads[n] # facts[n]
                       \/ Trades /\ Quote # Out(fields.amount, facts.rate))
  BY <1>5, Zenon DEF Sent
<1>8. UNREAD \notin Nat /\ \A q \in Amounts : q \in Nat BY Inputs
<1>9. a = "trade" => Quote \in Nat /\ fields.amount \in Amounts BY <1>5, QuoteTyped
<1>10. TxTyped'
  <2>1. tx'.overtaken \in BOOLEAN BY <1>7
  <2>2. tx'.action = "trade" => /\ tx'.amount \in Amounts
                                /\ tx'.shown \in Nat /\ tx'.slip \in 0..BPS
                                /\ (tx.min = applySlippage(tx.shown, tx.slip))'
    BY <1>6, <1>4, <1>9 DEF applySlippage
  <2>3. tx'.amount \in Amounts \cup {0} BY <1>3, <1>6
  <2>4. /\ DOMAIN tx' = TxFields /\ tx'.state = "wallet"
        /\ tx'.action \in {"approve", "trade", "launch"} /\ tx'.late \in BOOLEAN
    BY <1>6
  <2> QED BY <2>1, <2>2, <2>3, <2>4 DEF TxTyped
<1>11. ASSUME ~tx'.overtaken, a = "trade"
      PROVE (Allowed /\ UnderTheCap /\ Out(tx.amount, facts.rate) = tx.shown)'
  <2>1. Quote = Out(fields.amount, facts.rate) /\ \A n \in FactsRead : reads[n] = facts[n]
    BY <1>5, <1>7, <1>11
  <2>2. reads["allowance"] = facts.allowance /\ (form = "trade" => reads["cap"] = facts.cap /\ reads["bought"] = facts.bought)
    BY <2>1, <1>5, <1>11 DEF FactsRead, TradePanelReads, SwapPanelReads, Swapping, Trades
  <2>3. Allowed'
    <3>1. facts.allowance # UNREAD BY <1>2, <1>8
    <3>2. fields.side = "sell" => facts.allowance >= fields.amount
      <4>1. fields.amount \in Nat BY <1>9, <1>11, <1>8
      <4>2. fields.side = "sell" => ~(facts.allowance < fields.amount)
        BY <1>5, <1>9, <1>11, <2>2, <3>1 DEF needsApproval, enabled
      <4> QED BY <1>2, <4>1, <4>2
    <3> QED BY <1>3, <1>1, <1>6, <3>2 DEF Allowed, Sides
  <2>4. UnderTheCap'
    <3>1. facts.bought # UNREAD BY <1>2, <1>8
    <3>2. form = "trade" /\ fields.side = "buy" /\ facts.cap => withinBuyCap(facts.bought, Quote)
      BY <1>2, <1>5, <1>11, <2>2, <3>1 DEF capWarning, OrElse
    <3>3. Out(tx.amount, facts.rate)' = Quote BY <1>1, <1>6, <2>1 DEF Out, Swapping
    <3> QED BY <1>1, <1>6, <3>2, <3>3 DEF UnderTheCap, withinBuyCap
  <2>5. (Out(tx.amount, facts.rate) = tx.shown)'
    BY <1>1, <1>6, <2>1 DEF Out, Swapping
  <2> QED BY <2>3, <2>4, <2>5
<1>12. ASSUME ~tx'.overtaken, a = "launch" PROVE LaunchGoesThrough'
  <2>1. reads["fee"] = facts.fee /\ reads["maxDev"] = facts.maxDev
    BY <1>5, <1>7, <1>12 DEF FactsRead, CreatePageReads, Trades, Swapping
  <2>2. facts.fee # UNREAD /\ facts.maxDev # UNREAD BY <1>2, <1>8
  <2>3. OrElse(reads["fee"], 0) = facts.fee BY <2>1, <2>2 DEF OrElse
  <2>4. effectiveDevBps <= facts.maxDev BY <1>2, <1>3, <2>1, <2>2 DEF effectiveDevBps, devEnabled
  <2> QED BY <1>2, <1>1, <1>6, <2>3, <2>4 DEF LaunchGoesThrough
<1>13. TxFounded' BY <1>6, <1>11, <1>12 DEF TxFounded, StillGood
<1> QED BY <1>10, <1>13

\* What others change is typed still, and overtakes a transaction under way.
LEMMA MovesKeep == ASSUME FormsInv, ChainMoves PROVE FormsInv'
<1>1. FormsTyped /\ (tx = NoTx \/ (TxTyped /\ TxFounded)) BY DEF FormsInv
<1>2. UNCHANGED <<form, reads, quotes, fields>> BY DEF ChainMoves
<1>3. FormsTyped'
  <2>1. facts' \in [rate : Rates, cap : BOOLEAN, bought : Nat, allowance : Nat, fee : Nat, maxDev : Nat]
    <3>1. CASE \E r \in Rates \ {facts.rate} : facts' = [facts EXCEPT !.rate = r] BY <1>1, <3>1 DEF FormsTyped
    <3>2. CASE facts' = [facts EXCEPT !.cap = FALSE] BY <1>1, <3>2 DEF FormsTyped
    <3>3. CASE \E x \in Fees \ {facts.fee} : facts' = [facts EXCEPT !.fee = x] BY <1>1, <3>3, Inputs DEF FormsTyped
    <3>4. CASE facts.maxDev > 0 /\ facts' = [facts EXCEPT !.maxDev = @ - 1] BY <1>1, <3>4 DEF FormsTyped
    <3> QED BY <3>1, <3>2, <3>3, <3>4 DEF ChainMoves
  <2> QED BY <1>1, <1>2, <2>1 DEF FormsTyped
<1>4. tx' = IF isBusy THEN [tx EXCEPT !.overtaken = TRUE] ELSE tx BY DEF ChainMoves
<1>5. CASE tx = NoTx BY <1>3, <1>4, <1>5 DEF FormsInv, isBusy, NoTx
<1>6. CASE TxTyped /\ TxFounded /\ isBusy
  <2>1. tx' = [tx EXCEPT !.overtaken = TRUE] BY <1>4, <1>6
  <2>2. tx'.overtaken = TRUE /\ tx'.state = tx.state BY <1>6, <2>1 DEF TxTyped, TxFields
  <2>3. TxTyped' BY <1>6, <2>1 DEF TxTyped, TxFields, applySlippage
  <2>4. TxFounded' BY <1>6, <2>2 DEF TxFounded, isBusy
  <2> QED BY <1>3, <2>3, <2>4 DEF FormsInv
<1>7. CASE TxTyped /\ TxFounded /\ ~isBusy
  <2>1. tx' = tx BY <1>4, <1>7
  <2>2. TxTyped' BY <1>7, <2>1 DEF TxTyped, applySlippage
  <2>3. TxFounded' BY <1>7, <2>1 DEF TxFounded, isBusy
  <2> QED BY <1>3, <2>2, <2>3 DEF FormsInv
<1> QED BY <1>1, <1>5, <1>6, <1>7

\* A step that leaves the chain and the transaction alone leaves them good.
LEMMA RestKeeps ==
    ASSUME FormsInv, FormsTyped', UNCHANGED <<form, facts, tx>> PROVE FormsInv'
<1>1. TxTyped => TxTyped' BY DEF TxTyped, applySlippage
<1>2. TxFounded => TxFounded'
  BY DEF TxFounded, isBusy, StillGood, Allowed, UnderTheCap, LaunchGoesThrough, Out, Swapping, withinBuyCap
<1> QED BY <1>1, <1>2 DEF FormsInv, NoTx

\* What is read is typed.
LEMMA ReadsKeep == ASSUME FormsInv, ReadFact \/ ReadQuote \/ Types PROVE FormsInv'
<1>1. FormsTyped BY DEF FormsInv
<1>2. CASE ReadFact
  <2>1. reads' = reads \/ \E n \in FactsRead : reads' = [reads EXCEPT ![n] = facts[n]] BY <1>2 DEF ReadFact
  <2>2. facts["rate"] \in Rates BY <1>1 DEF FormsTyped
  <2>3. DOMAIN reads' = FactNames /\ reads'["rate"] \in Rates \cup {UNREAD}
    BY <1>1, <2>1, <2>2 DEF FormsTyped, FactNames
  <2> QED BY <1>1, <1>2, <2>3, RestKeeps DEF ReadFact, FormsTyped
<1>3. CASE ReadQuote
  <2>1. Out(fields.amount, facts.rate) \in Nat
    BY <1>1, <1>3, OutTyped DEF ReadQuote, enabled, FormsTyped
  <2>2. quotes' \in [Sides \X Amounts -> Nat \cup {UNREAD}] BY <1>1, <1>3, <2>1 DEF ReadQuote, FormsTyped
  <2> QED BY <1>1, <1>3, <2>2, RestKeeps DEF ReadQuote, FormsTyped
<1>4. CASE Types
  <2>1. fields' \in [side : Sides, amount : Amounts \cup {0}, slip : Slippages, dev : Nat,
                     permanent : BOOLEAN, acknowledged : BOOLEAN]
    <3>1. 0..2 \subseteq Nat OBVIOUS
    <3>2. TradePanelFields \subseteq [side : Sides, amount : Amounts \cup {0}, slip : Slippages, dev : Nat,
                                      permanent : BOOLEAN, acknowledged : BOOLEAN]
      <4>1. {0} \subseteq Nat /\ {FALSE} \subseteq BOOLEAN /\ Amounts \subseteq Amounts \cup {0} OBVIOUS
      <4> QED BY <4>1 DEF TradePanelFields
    <3>3. CreatePageFields \subseteq [side : Sides, amount : Amounts \cup {0}, slip : Slippages, dev : Nat,
                                      permanent : BOOLEAN, acknowledged : BOOLEAN]
      BY <3>1 DEF CreatePageFields, Sides, Shares
    <3>4. fields' \in TradePanelFields \/ fields' \in CreatePageFields
      BY <1>4 DEF Types, SwapPanelFields
    <3> QED BY <3>2, <3>3, <3>4
  <2> QED BY <1>1, <1>4, <2>1, RestKeeps DEF Types, FormsTyped
<1> QED BY <1>2, <1>3, <1>4

\* The wallet changes neither the chain nor what was asked.
LEMMA WalletKeeps == ASSUME FormsInv, WalletAnswers PROVE FormsInv'
<1>1. FormsTyped /\ TxTyped /\ TxFounded /\ tx.state = "wallet" BY DEF FormsInv, WalletAnswers, NoTx
<1>2. UNCHANGED <<form, facts, reads, quotes, fields>> BY DEF WalletAnswers
<1>3. FormsTyped' BY <1>1, <1>2 DEF FormsTyped
<1>4. PICK s \in {"rejected", "mining"} :
        tx' = [tx EXCEPT !.state = s] \/ tx' = [tx EXCEPT !.state = s, !.late = TRUE]
  BY DEF WalletAnswers
<1>5. /\ DOMAIN tx' = TxFields /\ tx'.state = s /\ tx'.late \in BOOLEAN
      /\ tx'.action = tx.action /\ tx'.side = tx.side /\ tx'.amount = tx.amount /\ tx'.min = tx.min
      /\ tx'.dev = tx.dev /\ tx'.value = tx.value /\ tx'.shown = tx.shown /\ tx'.slip = tx.slip
      /\ tx'.overtaken = tx.overtaken
  <2>1. DOMAIN tx = TxFields /\ tx.late \in BOOLEAN BY <1>1 DEF TxTyped
  <2>2. CASE tx' = [tx EXCEPT !.state = s] BY <2>1, <2>2 DEF TxFields
  <2>3. CASE tx' = [tx EXCEPT !.state = s, !.late = TRUE] BY <2>1, <2>3 DEF TxFields
  <2> QED BY <1>4, <2>2, <2>3
<1>6. TxTyped' BY <1>1, <1>5 DEF TxTyped, applySlippage
<1>7. StillGood => StillGood'
  BY <1>2, <1>5 DEF StillGood, Allowed, UnderTheCap, LaunchGoesThrough, Out, Swapping, withinBuyCap
<1>8. TxFounded' BY <1>1, <1>5, <1>7 DEF TxFounded, isBusy
<1> QED BY <1>3, <1>6, <1>8 DEF FormsInv

\* What is mined goes through if it was good and neither late nor overtaken.
LEMMA MinedKeeps == ASSUME FormsInv, Mined PROVE FormsInv'
<1>1. FormsTyped /\ TxTyped /\ TxFounded /\ tx.state = "mining" BY DEF FormsInv, Mined, NoTx
<1>2. UNCHANGED <<form, reads, quotes, fields>> BY DEF Mined
<1> DEFINE out == Out(tx.amount, facts.rate)
           passes == CASE tx.action = "approve" -> TRUE
                       [] tx.action = "trade" -> TradeGoesThrough
                       [] tx.action = "launch" -> LaunchGoesThrough
<1>3. passes \in BOOLEAN /\ (tx.action = "trade" => passes = TradeGoesThrough)
      /\ (tx.action = "launch" => passes = LaunchGoesThrough) /\ (tx.action = "approve" => passes)
  <2>1. tx.action \in {"approve", "trade", "launch"} BY <1>1 DEF TxTyped
  <2>2. TradeGoesThrough \in BOOLEAN /\ LaunchGoesThrough \in BOOLEAN BY DEF TradeGoesThrough, LaunchGoesThrough
  <2> QED BY <2>1, <2>2
<1>4. /\ tx' = [tx EXCEPT !.state = IF passes THEN "succeeded" ELSE "reverted",
                          !.got = IF passes /\ tx.action = "trade" THEN out ELSE 0]
      /\ facts' = IF ~passes THEN facts
                  ELSE IF tx.action = "approve" THEN [facts EXCEPT !.allowance = tx.amount]
                  ELSE IF tx.action = "launch" THEN facts
                  ELSE IF tx.side = "sell" THEN [facts EXCEPT !.allowance = @ - tx.amount]
                  ELSE [facts EXCEPT !.bought = IF form = "trade" /\ facts.cap THEN @ + out ELSE @]
  BY DEF Mined
<1>5. tx.action = "trade" => out \in Nat /\ tx.amount \in Nat
  BY <1>1, OutTyped, Inputs DEF TxTyped, FormsTyped
<1>6. tx.amount \in Nat BY <1>1, Inputs DEF TxTyped
<1>7. passes /\ tx.action = "trade" => Allowed /\ out >= tx.min BY <1>3 DEF TradeGoesThrough
<1> HIDE DEF passes, out
<1>8. facts' \in [rate : Rates, cap : BOOLEAN, bought : Nat, allowance : Nat, fee : Nat, maxDev : Nat]
  <2>1. facts \in [rate : Rates, cap : BOOLEAN, bought : Nat, allowance : Nat, fee : Nat, maxDev : Nat]
    BY <1>1 DEF FormsTyped
  <2>2. CASE facts' = facts BY <2>1, <2>2
  <2>3. CASE passes /\ tx.action = "approve" /\ facts' = [facts EXCEPT !.allowance = tx.amount]
    BY <1>6, <2>1, <2>3
  <2>4. CASE passes /\ tx.action = "trade" /\ tx.side = "sell" /\ facts' = [facts EXCEPT !.allowance = @ - tx.amount]
    <3>1. facts.allowance >= tx.amount BY <1>7, <2>4 DEF Allowed
    <3> QED BY <1>6, <2>1, <2>4, <3>1
  <2>5. CASE passes /\ tx.action = "trade" /\ tx.side # "sell"
             /\ facts' = [facts EXCEPT !.bought = IF form = "trade" /\ facts.cap THEN @ + out ELSE @]
    BY <1>5, <2>1, <2>5
  <2> QED BY <1>1, <1>4, <2>2, <2>3, <2>4, <2>5 DEF TxTyped
<1>9. FormsTyped' BY <1>1, <1>2, <1>8 DEF FormsTyped
<1>10. /\ DOMAIN tx' = TxFields
      /\ tx'.state = (IF passes THEN "succeeded" ELSE "reverted")
      /\ tx'.got = (IF passes /\ tx.action = "trade" THEN out ELSE 0)
      /\ tx'.action = tx.action /\ tx'.amount = tx.amount /\ tx'.min = tx.min
      /\ tx'.shown = tx.shown /\ tx'.slip = tx.slip /\ tx'.late = tx.late /\ tx'.overtaken = tx.overtaken
  BY <1>1, <1>4 DEF TxTyped, TxFields
<1>11. TxTyped' BY <1>1, <1>3, <1>10 DEF TxTyped, applySlippage
<1>12. ASSUME ~tx.late, ~tx.overtaken PROVE passes
  <2>1. StillGood BY <1>1, <1>12 DEF TxFounded, isBusy
  <2>2. CASE tx.action = "approve" BY <1>3, <2>2
  <2>3. CASE tx.action = "launch" BY <1>3, <2>1, <2>3 DEF StillGood
  <2>4. CASE tx.action = "trade"
    <3>1. Allowed /\ UnderTheCap /\ Out(tx.amount, facts.rate) = tx.shown BY <2>1, <2>4 DEF StillGood
    <3>2. tx.shown \in Nat /\ tx.min = applySlippage(tx.shown, tx.slip) /\ tx.slip \in 0..BPS
      BY <1>1, <2>4 DEF TxTyped
    <3>3. tx.min \in Nat /\ tx.min <= tx.shown
      <4>1. \A q \in Nat, s \in 0..BPS : applySlippage(q, s) \in Nat /\ applySlippage(q, s) <= q
        BY SlippageBounds
      <4> QED BY <3>2, <4>1, Zenon
    <3>4. Out(tx.amount, facts.rate) >= tx.min BY <3>1, <3>2, <3>3
    <3> QED BY <1>3, <1>12, <2>4, <3>1, <3>4 DEF TradeGoesThrough
  <2> QED BY <1>1, <2>2, <2>3, <2>4 DEF TxTyped
<1>13. TxFounded'
  <2>1. ~isBusy' BY <1>10 DEF isBusy
  <2>2. (tx.state = "succeeded" /\ tx.action = "trade" => tx.got \in Int /\ tx.got >= tx.min)'
    BY <1>5, <1>7, <1>10
  <2>3. (tx.state = "reverted" => tx.late \/ tx.overtaken)' BY <1>10, <1>12
  <2> QED BY <2>1, <2>2, <2>3 DEF TxFounded
<1> QED BY <1>9, <1>11, <1>13 DEF FormsInv

\* No step of the visitor, the wallet or the chain breaks what the form goes by.
LEMMA FormsKept == ASSUME FormsInv, [FormsNext]_formVars PROVE FormsInv'
<1>1. CASE ChainMoves BY <1>1, MovesKeep
<1>2. CASE ReadFact \/ ReadQuote \/ Types BY <1>2, ReadsKeep
<1>3. CASE Press
  <2>1. FormsTyped' BY <1>3 DEF FormsInv, Press, FormsTyped
  <2>2. TxTyped' /\ TxFounded' BY <1>3, SentIsGood DEF FormsInv
  <2> QED BY <2>1, <2>2 DEF FormsInv
<1>4. CASE WalletAnswers BY <1>4, WalletKeeps
<1>5. CASE Mined BY <1>5, MinedKeeps
<1>6. CASE UNCHANGED formVars
  <2>1. FormsTyped' BY <1>6 DEF FormsInv, formVars, FormsTyped
  <2> QED BY <1>6, <2>1, RestKeeps DEF formVars
<1> QED BY <1>1, <1>2, <1>3, <1>4, <1>5, <1>6 DEF FormsNext

\* A trade that went through brought what was shown, less the slippage.
LEMMA WordFollows == ASSUME FormsInv PROVE FormsKeepTheirWord
<1>1. ASSUME tx.state = "succeeded", tx.action = "trade"
      PROVE BPS * tx.got >= tx.shown * (BPS - tx.slip) - (BPS - 1)
  <2>1. TxTyped /\ TxFounded BY <1>1 DEF FormsInv, NoTx
  <2>2. tx.shown \in Nat /\ tx.slip \in 0..BPS /\ tx.min = applySlippage(tx.shown, tx.slip)
        /\ tx.got \in Int /\ tx.got >= tx.min
    BY <1>1, <2>1 DEF TxTyped, TxFounded
  <2> DEFINE q == tx.shown
             s == tx.slip
  <2>3. q \in Nat /\ s \in 0..BPS BY <2>2
  <2>4. tx.min = applySlippage(q, s) BY <2>2
  <2>5. tx.got >= tx.min /\ tx.got \in Int BY <2>2
  <2> HIDE DEF q, s
  <2>6. applySlippage(q, s) \in Nat /\ q * (BPS - s) \in Nat
        /\ BPS * applySlippage(q, s) >= q * (BPS - s) - (BPS - 1)
    <3>1. \A u \in Nat, v \in 0..BPS :
            /\ applySlippage(u, v) \in Nat /\ u * (BPS - v) \in Nat
            /\ BPS * applySlippage(u, v) >= u * (BPS - v) - (BPS - 1)
      BY SlippageBounds
    <3> QED BY <2>3, <3>1, Zenon
  <2> DEFINE still == q * (BPS - s)
  <2>7. still \in Nat /\ BPS * tx.min >= still - (BPS - 1) /\ tx.min \in Nat BY <2>4, <2>6, Zenon
  <2> HIDE DEF still
  <2>8. BPS * tx.got >= still - (BPS - 1) BY <2>5, <2>7 DEF BPS
  <2> QED BY <2>8, Zenon DEF still, q, s
<1>2. tx.state = "reverted" => tx.late \/ tx.overtaken BY DEF FormsInv, NoTx, TxFounded
<1> QED BY <1>1, <1>2 DEF FormsKeepTheirWord, TradesKeepTheirQuote, NothingSentIsKnownToFail

\* Whatever a visitor types and presses, in whatever order the reads, the wallet and
\* the chain answer, a trade brings what the form showed for it, less the slippage,
\* and only a fact that changed or was unread makes it fail (TradePanel.tsx,
\* SwapPanel.tsx, CreatePage.tsx, curve.ts).
THEOREM FormsKeepTheirWordAlways == FormsSpec => []FormsKeepTheirWord
<1>1. (\E f \in {"trade", "swap by quoter", "swap by spot", "create"} : FormsInit(f)) => FormsInv BY FormsStart
<1>2. FormsInv /\ [FormsNext]_formVars => FormsInv' BY FormsKept
<1>3. FormsInv => FormsKeepTheirWord BY WordFollows
<1> QED BY <1>1, <1>2, <1>3, PTL DEF FormsSpec

-----------------------------------------------------------------------------
(* The indexer's health (IndexerHealth.tla).                                *)

NodeTyped ==
    /\ chain \in [head : 1..MaxBlock, fork : Nat]
    /\ node \in [up : BOOLEAN, errors : BOOLEAN, withholds : BOOLEAN, at : Nat, branch : {"old", "new"}]
    /\ node.at <= chain.head /\ chain.fork <= chain.head
    /\ chain.fork = 0 => node.branch = "old"

\* The lookups are each of the block they are named for, and the indexer's block is
\* the one it named when it last answered.
BannerFounded ==
    /\ DOMAIN banner = {"meta", "head", "lookups"}
    /\ DOMAIN banner.meta = {"data", "isError"} /\ DOMAIN banner.head = {"data", "isError"}
    /\ banner.meta.isError \in BOOLEAN
    /\ banner.head.data \in Nat \cup {UNREAD}
    /\ DOMAIN banner.lookups = 0..MaxBlock
    /\ \A n \in 0..MaxBlock : banner.lookups[n] \in {UNREAD, n}
    /\ banner.meta.data # UNREAD =>
         /\ banner.meta.data.number \in 0..MaxBlock
         /\ banner.meta.data.timestamp \in {UNREAD, banner.meta.data.number}
         /\ banner.meta.data.hasIndexingErrors \in BOOLEAN
         /\ asked.at = banner.meta.data.number /\ asked.head \in Nat

\* A branch that is no longer the chain's never is again.
StatusFounded ==
    /\ check.status.at \in Nat /\ check.status.branch \in {"old", "new"} /\ check.status.fatal \in BOOLEAN
    /\ chain.fork = 0 => check.status.branch = "old"
    /\ check.wedged => chain.fork # 0 /\ Orphaned(check.status)

CheckFounded ==
    /\ DOMAIN check = {"step", "chainHead", "answer", "status", "hash", "verdict", "wedged"}
    /\ check.step \in {"head", "status", "hash", "done"} /\ check.wedged \in BOOLEAN
    /\ check.step \in {"head", "status"} => ~check.wedged
    /\ check.step # "head" => check.chainHead \in Nat
    /\ check.step = "hash" => check.answer = "deployment" /\ StatusFounded
    /\ check.step = "done" =>
         /\ check.wedged => check.verdict \in {"orphaned", "failed", "unknown"}
         /\ check.verdict = "orphaned" => chain.fork # 0 /\ Orphaned(check.status)
         /\ check.verdict = "ok" => ~check.status.fatal /\ check.chainHead - check.status.at <= LagBlocks

HealthInv == NodeTyped /\ BannerFounded /\ CheckFounded

\* Nothing is read yet.
LEMMA HealthStarts == ASSUME NEW who, HealthInit(who) PROVE HealthInv
<1>1. NodeTyped
  <2>1. MaxBlock \in Nat /\ 1 <= MaxBlock BY HealthAssumption
  <2>2. chain = [head |-> 1, fork |-> 0] BY DEF HealthInit
  <2>3. PICK w \in BOOLEAN : node = [up |-> TRUE, errors |-> FALSE, withholds |-> w, at |-> 0, branch |-> "old"]
    BY DEF HealthInit
  <2>4. chain \in [head : 1..MaxBlock, fork : Nat] BY <2>1, <2>2
  <2>5. node \in [up : BOOLEAN, errors : BOOLEAN, withholds : BOOLEAN, at : Nat, branch : {"old", "new"}] BY <2>3
  <2> QED BY <2>2, <2>3, <2>4, <2>5 DEF NodeTyped
<1>2. BannerFounded BY DEF HealthInit, BannerFounded, Pending
<1>3. CheckFounded BY DEF HealthInit, CheckFounded, NoCheck
<1> QED BY <1>1, <1>2, <1>3 DEF HealthInv


\* The chain and the indexer move under the observers.
LEMMA NodeSteps ==
    ASSUME HealthInv, MineBlock \/ Reorganise \/ IndexBlock \/ RevertOrphans \/ NodeFails \/ NodeRestarts
    PROVE  HealthInv'
<1>1. UNCHANGED <<banner, asked, check>>
  BY DEF MineBlock, Reorganise, IndexBlock, RevertOrphans, NodeFails, NodeRestarts, Observed
<1>2. BannerFounded' BY <1>1 DEF HealthInv, BannerFounded
<1>3. NodeTyped BY DEF HealthInv
<1>4. /\ chain.head \in 1..MaxBlock /\ chain.fork \in Nat /\ node.at \in Nat /\ node.at <= chain.head
      /\ node.branch \in {"old", "new"} /\ MaxBlock \in Nat
  BY <1>3, HealthAssumption DEF NodeTyped
<1>5. NodeTyped' /\ (chain.fork # 0 => chain'.fork = chain.fork)
  <2>1. CASE MineBlock BY <1>3, <1>4, <2>1 DEF MineBlock, NodeTyped
  <2>2. CASE Reorganise
    <3>1. PICK n \in 1..chain.head : chain' = [chain EXCEPT !.fork = n] BY <2>2 DEF Reorganise
    <3>2. n \in Nat /\ n # 0 BY <1>4, <3>1
    <3> QED BY <1>3, <2>2, <3>1, <3>2 DEF Reorganise, NodeTyped
  <2>3. CASE IndexBlock
    <3>1. canonical(node.at + 1) \in {"old", "new"} /\ (chain.fork = 0 => canonical(node.at + 1) = "old")
      BY DEF canonical
    <3>2. UNCHANGED chain /\ node' = [node EXCEPT !.at = @ + 1, !.branch = canonical(node.at + 1)]
          /\ node.at < chain.head
      BY <2>3 DEF IndexBlock
    <3> DEFINE b == canonical(node.at + 1)
    <3>3. b \in {"old", "new"} /\ (chain.fork = 0 => b = "old")
          /\ node' = [node EXCEPT !.at = @ + 1, !.branch = b]
      BY <3>1, <3>2
    <3> HIDE DEF b
    <3>4. node' = [up |-> node.up, errors |-> node.errors, withholds |-> node.withholds,
                   at |-> node.at + 1, branch |-> b]
      BY <1>3, <3>3 DEF NodeTyped
    <3>5. node.up \in BOOLEAN /\ node.errors \in BOOLEAN /\ node.withholds \in BOOLEAN BY <1>3 DEF NodeTyped
    <3>6. node.at + 1 \in Nat /\ node.at + 1 <= chain.head BY <1>4, <3>2
    <3>7. node' \in [up : BOOLEAN, errors : BOOLEAN, withholds : BOOLEAN, at : Nat, branch : {"old", "new"}]
      BY <3>3, <3>4, <3>5, <3>6
    <3>8. node'.at = node.at + 1 /\ node'.branch = b BY <3>4
    <3> QED BY <1>3, <3>2, <3>3, <3>6, <3>7, <3>8 DEF NodeTyped
  <2>4. CASE RevertOrphans
    <3>1. UNCHANGED chain /\ node' = [node EXCEPT !.at = chain.fork - 1, !.branch = "old"] /\ Orphaned(node)
      BY <2>4 DEF RevertOrphans
    <3>2. chain.fork # 0 /\ chain.fork - 1 \in Nat
      BY <1>3, <1>4, <3>1 DEF NodeTyped, Orphaned, canonical
    <3>3. chain.fork - 1 <= chain.head
      BY <1>3, <1>4, <3>2 DEF NodeTyped
    <3> QED BY <1>3, <3>1, <3>2, <3>3 DEF NodeTyped
  <2>5. CASE NodeFails \/ NodeRestarts
    <3>1. UNCHANGED chain BY <2>5 DEF NodeFails, NodeRestarts
    <3>2. node' \in {[node EXCEPT !.up = FALSE], [node EXCEPT !.errors = TRUE], [node EXCEPT !.up = TRUE, !.errors = FALSE]}
      BY <2>5 DEF NodeFails, NodeRestarts
    <3> QED BY <1>3, <3>1, <3>2 DEF NodeTyped
  <2> QED BY <2>1, <2>2, <2>3, <2>4, <2>5
<1>6. CheckFounded'
  BY <1>1, <1>5 DEF HealthInv, CheckFounded, StatusFounded, Orphaned, canonical
<1> QED BY <1>2, <1>5, <1>6 DEF HealthInv

\* An answer to the page is the indexer's or the chain's of that moment.
LEMMA PageSteps == ASSUME HealthInv, PollMeta \/ PollHead \/ LookUpTimestamp PROVE HealthInv'
<1>1. UNCHANGED <<chain, node, check>> BY DEF PollMeta, PollHead, LookUpTimestamp
<1>2. NodeTyped' /\ CheckFounded'
  BY <1>1 DEF HealthInv, NodeTyped, CheckFounded, StatusFounded, Orphaned, canonical
<1>3. BannerFounded BY DEF HealthInit, HealthInv
<1>4. node.at \in 0..MaxBlock /\ chain.head \in Nat /\ node.errors \in BOOLEAN
  BY HealthAssumption DEF HealthInv, NodeTyped
<1>5. CASE PollMeta
  <2>1. \/ banner' = [banner EXCEPT !.meta = Answered(Meta)] /\ asked' = [head |-> chain.head, at |-> node.at]
        \/ banner' = [banner EXCEPT !.meta = FailedAfter(banner.meta)] /\ UNCHANGED asked
    BY <1>5 DEF PollMeta
  <2>2. Meta.number = node.at /\ Meta.timestamp \in {UNREAD, node.at} /\ Meta.hasIndexingErrors = node.errors
    BY DEF Meta, time
  <2>3. CASE banner' = [banner EXCEPT !.meta = Answered(Meta)] /\ asked' = [head |-> chain.head, at |-> node.at]
    <3> DEFINE m == Meta
    <3>1. m.number = node.at /\ m.timestamp \in {UNREAD, node.at} /\ m.hasIndexingErrors = node.errors BY <2>2
    <3>2. banner' = [banner EXCEPT !.meta = [data |-> m, isError |-> FALSE]] BY <2>3 DEF Answered
    <3> HIDE DEF m
    <3>3. banner'.meta = [data |-> m, isError |-> FALSE] /\ DOMAIN banner' = DOMAIN banner
          /\ banner'.head = banner.head /\ banner'.lookups = banner.lookups
      BY <1>3, <3>2 DEF BannerFounded
    <3>4. banner'.meta.data = m /\ banner'.meta.isError = FALSE /\ DOMAIN banner'.meta = {"data", "isError"}
      BY <3>3
    <3>5. asked'.at = node.at /\ asked'.head = chain.head BY <2>3
    <3>6. BannerFounded' BY <1>3, <1>4, <3>1, <3>3, <3>4, <3>5 DEF BannerFounded
    <3> QED BY <1>2, <3>6 DEF HealthInv
  <2>4. CASE banner' = [banner EXCEPT !.meta = FailedAfter(banner.meta)] /\ UNCHANGED asked
    <3>1. banner'.meta = FailedAfter(banner.meta) /\ DOMAIN banner' = DOMAIN banner
          /\ banner'.head = banner.head /\ banner'.lookups = banner.lookups
      BY <1>3, <2>4 DEF BannerFounded
    <3>2. banner'.meta.data = banner.meta.data /\ banner'.meta.isError = TRUE
          /\ DOMAIN banner'.meta = {"data", "isError"}
      BY <1>3, <3>1 DEF BannerFounded, FailedAfter
    <3>3. BannerFounded' BY <1>3, <2>4, <3>1, <3>2 DEF BannerFounded
    <3> QED BY <1>2, <3>3 DEF HealthInv
  <2> QED BY <1>2, <2>1, <2>3, <2>4 DEF HealthInv
<1>6. CASE PollHead
  <2>1. UNCHANGED asked /\ (banner' = [banner EXCEPT !.head = Answered(chain.head)]
                            \/ banner' = [banner EXCEPT !.head = FailedAfter(banner.head)])
    BY <1>6 DEF PollHead, time
  <2>2. BannerFounded' BY <1>3, <1>4, <2>1 DEF BannerFounded, Answered, FailedAfter
  <2> QED BY <1>2, <2>2 DEF HealthInv
<1>7. CASE LookUpTimestamp
  <2> DEFINE k == banner.meta.data.number
  <2>1. /\ banner.meta.data # UNREAD
        /\ banner' = [banner EXCEPT !.lookups[k] = k] /\ UNCHANGED asked
    BY <1>7 DEF LookUpTimestamp, needsBlockTimestampLookup, lookedUp, time
  <2>2. k \in 0..MaxBlock BY <1>3, <2>1 DEF BannerFounded
  <2> HIDE DEF k
  <2>3. banner'.meta = banner.meta /\ banner'.head = banner.head /\ DOMAIN banner' = DOMAIN banner
        /\ banner'.lookups = [banner.lookups EXCEPT ![k] = k]
    BY <1>3, <2>1 DEF BannerFounded
  <2>4. BannerFounded' BY <1>3, <2>1, <2>2, <2>3 DEF BannerFounded
  <2> QED BY <1>2, <2>4 DEF HealthInv
<1> QED BY <1>5, <1>6, <1>7

\* The script's three questions, one after the other.
LEMMA ScriptSteps == ASSUME HealthInv, RunCheck PROVE HealthInv'
<1>1. UNCHANGED <<chain, node, banner, asked>> BY DEF RunCheck
<1>2. NodeTyped' /\ BannerFounded' BY <1>1 DEF HealthInv, NodeTyped, BannerFounded
<1>3. CheckFounded /\ NodeTyped BY DEF HealthInv
<1>4. chain.head \in Nat /\ node.at \in Nat /\ node.branch \in {"old", "new"} /\ node.errors \in BOOLEAN
  BY <1>3, HealthAssumption DEF NodeTyped
<1>5. CASE ReadHead
  BY <1>1, <1>2, <1>3, <1>4, <1>5 DEF ReadHead, HealthInv, CheckFounded
<1>6. CASE readStatuses
  <2>1. CASE check' = [check EXCEPT !.step = "hash", !.answer = "deployment", !.wedged = Orphaned(node),
                         !.status = [at |-> node.at, branch |-> node.branch, fatal |-> node.errors]]
    <3>1. /\ DOMAIN check' = DOMAIN check /\ check'.step = "hash" /\ check'.answer = "deployment"
          /\ check'.status = [at |-> node.at, branch |-> node.branch, fatal |-> node.errors]
          /\ check'.chainHead = check.chainHead
      BY <1>3, <2>1 DEF CheckFounded
    <3>2. check'.wedged = Orphaned(node) BY <1>3, <2>1 DEF CheckFounded
    <3>3. Orphaned(node) => chain.fork # 0 BY <1>3 DEF NodeTyped, Orphaned, canonical
    <3>4. Orphaned(node) => Orphaned(check.status)' BY <1>1, <3>1 DEF Orphaned, canonical
    <3>5. StatusFounded' BY <1>1, <1>3, <1>4, <3>1, <3>2, <3>3, <3>4 DEF StatusFounded, NodeTyped
    <3>6. check.chainHead \in Nat BY <1>3, <1>6 DEF CheckFounded, readStatuses
    <3>7. check'.wedged \in BOOLEAN BY <3>2 DEF Orphaned
    <3> QED BY <1>2, <1>3, <3>1, <3>5, <3>6, <3>7 DEF HealthInv, CheckFounded
  <2>2. CASE \E a \in {"unreachable", "none"} : check' = Concluded([check EXCEPT !.answer = a])
    <3>1. PICK a \in {"unreachable", "none"} : check' = Concluded([check EXCEPT !.answer = a]) BY <2>2
    <3> DEFINE c == [check EXCEPT !.answer = a]
    <3>2. DOMAIN c = DOMAIN check /\ c.answer = a /\ c.wedged = check.wedged /\ c.chainHead = check.chainHead
      BY <1>3 DEF CheckFounded
    <3>3. check' = [c EXCEPT !.step = "done", !.verdict = classify(c)] BY <3>1 DEF Concluded
    <3>4. classify(c) \in {"unreachable", "unknown"} BY <3>2 DEF classify
    <3> HIDE DEF c
    <3>5. /\ DOMAIN check' = DOMAIN check /\ check'.step = "done" /\ check'.verdict \in {"unreachable", "unknown"}
          /\ check'.wedged = check.wedged /\ check'.chainHead = check.chainHead
      BY <1>3, <3>2, <3>3, <3>4 DEF CheckFounded
    <3>6. ~check.wedged /\ check.chainHead \in Nat BY <1>3, <1>6 DEF CheckFounded, readStatuses
    <3> QED BY <1>2, <1>3, <3>5, <3>6 DEF HealthInv, CheckFounded
  <2> QED BY <1>6, <2>1, <2>2 DEF readStatuses
<1>7. CASE ReadHash
  <2>1. PICK h \in {canonical(check.status.at), UNREAD} : check' = Concluded([check EXCEPT !.hash = h])
    BY <1>7 DEF ReadHash
  <2> DEFINE c == [check EXCEPT !.hash = h]
  <2>2. /\ DOMAIN c = DOMAIN check /\ c.hash = h /\ c.answer = check.answer /\ c.status = check.status
        /\ c.wedged = check.wedged /\ c.chainHead = check.chainHead
    BY <1>3 DEF CheckFounded
  <2>3. check' = [c EXCEPT !.step = "done", !.verdict = classify(c)] BY <2>1 DEF Concluded
  <2> HIDE DEF c
  <2>4. /\ DOMAIN check' = DOMAIN check /\ check'.step = "done" /\ check'.verdict = classify(c)
        /\ check'.status = check.status /\ check'.wedged = check.wedged /\ check'.chainHead = check.chainHead
    BY <1>3, <2>2, <2>3 DEF CheckFounded
  <2>5. StatusFounded /\ check.answer = "deployment" /\ check.chainHead \in Nat
    BY <1>3, <1>7 DEF CheckFounded, ReadHash
  <2>6. classify(c) = IF check.status.fatal THEN "failed"
                      ELSE IF h = UNREAD THEN "unknown"
                      ELSE IF h # check.status.branch THEN "orphaned"
                      ELSE IF check.chainHead - check.status.at > LagBlocks THEN "lagging" ELSE "ok"
    BY <2>2, <2>5 DEF classify
  <2>7. check.wedged => classify(c) \in {"orphaned", "failed", "unknown"}
    BY <2>1, <2>5, <2>6 DEF StatusFounded, Orphaned
  <2>8. classify(c) = "orphaned" => chain.fork # 0 /\ Orphaned(check.status)
    BY <2>1, <2>5, <2>6 DEF StatusFounded, Orphaned, canonical
  <2>9. classify(c) = "ok" => ~check.status.fatal /\ check.chainHead - check.status.at <= LagBlocks
    <3>1. check.status.at \in Nat /\ LagBlocks \in Nat BY <2>5, HealthAssumption DEF StatusFounded
    <3> QED BY <2>5, <2>6, <3>1
  <2>10. Orphaned(check.status) => Orphaned(check.status)' BY <1>1, <2>4 DEF Orphaned, canonical
  <2> DEFINE v == classify(c)
  <2>11. /\ check'.verdict = v /\ (check.wedged => v \in {"orphaned", "failed", "unknown"})
         /\ (v = "orphaned" => chain.fork # 0 /\ Orphaned(check.status))
         /\ (v = "ok" => ~check.status.fatal /\ check.chainHead - check.status.at <= LagBlocks)
    BY <2>4, <2>7, <2>8, <2>9
  <2> HIDE DEF v
  <2> QED BY <1>1, <1>2, <1>3, <2>4, <2>5, <2>10, <2>11 DEF HealthInv, CheckFounded
<1> QED BY <1>5, <1>6, <1>7 DEF RunCheck

\* What the two observers say follows from what they read.
LEMMA FoundedFollows == ASSUME HealthInv PROVE HealthIsFounded
<1>1. VerdictIsFounded BY DEF HealthInv, CheckFounded, VerdictIsFounded, ExitsWithZero
<1> DEFINE latest == banner.meta.data
           head == banner.head.data
           indexed == IF latest = UNREAD THEN UNREAD ELSE resolveIndexedTimestamp(latest.timestamp, banner.lookups[latest.number])
           lag == IF head > indexed THEN head - indexed ELSE 0
           s == IndexerStatus
           errors == latest # UNREAD /\ latest.hasIndexingErrors
<1>2. BannerFounded BY DEF HealthInv
<1>3. s = IF banner.meta.isError THEN [state |-> "down", lagSeconds |-> UNREAD]
          ELSE IF errors THEN [state |-> "stale", lagSeconds |-> UNREAD]
          ELSE IF UNREAD \in {indexed, head} THEN [state |-> "unknown", lagSeconds |-> UNREAD]
          ELSE [state |-> IF lag > StaleLag THEN "stale" ELSE "ok", lagSeconds |-> lag]
  BY <1>2 DEF IndexerStatus, classifyIndexer, BannerFounded
<1>4. indexed # UNREAD => latest # UNREAD /\ indexed = latest.number /\ indexed \in Nat /\ asked.at = indexed /\ asked.head \in Nat
  BY <1>2 DEF resolveIndexedTimestamp, OrElse, BannerFounded
<1>5. head \in Nat \cup {UNREAD} BY <1>2 DEF BannerFounded
<1>6. StaleLag \in Nat BY HealthAssumption
<1> HIDE DEF s, lag, indexed, head, errors
<1>7. BannerText = "unavailable" <=> banner.meta.isError
  BY <1>2, <1>3 DEF BannerText, isDegraded, s, BannerFounded
<1>8. s.state = "ok" => ~banner.meta.isError /\ ~errors /\ UNREAD \notin {indexed, head} BY <1>3
<1>9. s.lagSeconds # UNREAD => UNREAD \notin {indexed, head} /\ s.state = (IF lag > StaleLag THEN "stale" ELSE "ok")
  BY <1>3
<1>10. UNREAD \notin {indexed, head} =>
         /\ lag <= StaleLag /\ head >= asked.head => asked.head - asked.at <= StaleLag
         /\ lag > StaleLag => head - asked.at > StaleLag
  BY <1>4, <1>5, <1>6 DEF lag
<1>11. s.lagSeconds # UNREAD => lag \in Nat /\ (s.state = "ok" => lag <= StaleLag) /\ (s.state = "stale" => lag > StaleLag)
  BY <1>4, <1>5, <1>6, <1>9 DEF lag
<1>12. BannerIsFounded
  BY <1>4, <1>7, <1>8, <1>9, <1>10, <1>11 DEF BannerIsFounded, s, head, errors
<1> QED BY <1>1, <1>12 DEF HealthIsFounded

\* However blocks, reorganisations, failures and the answers of three polls or three
\* questions interleave, the banner and the script say of the indexer what was so
\* (useIndexerStatus.ts, indexerHealth.ts, indexer-health.mjs).
THEOREM HealthIsFoundedAlways == HealthSpec => []HealthIsFounded
<1>1. (\E who \in {"page", "script"} : HealthInit(who)) => HealthInv BY HealthStarts
<1>2. HealthInv /\ [HealthNext]_healthVars => HealthInv'
  <2> SUFFICES ASSUME HealthInv, [HealthNext]_healthVars PROVE HealthInv' OBVIOUS
  <2>1. CASE UNCHANGED healthVars
    BY <2>1 DEF healthVars, HealthInv, NodeTyped, BannerFounded, CheckFounded, StatusFounded, Orphaned, canonical
  <2> QED BY <2>1, NodeSteps, PageSteps, ScriptSteps DEF HealthNext
<1>3. HealthInv => HealthIsFounded BY FoundedFollows
<1> QED BY <1>1, <1>2, <1>3, PTL DEF HealthSpec

-----------------------------------------------------------------------------
(* The lists of the home page.                                            *)

\* The launches are numbered from one.
LEMMA UpTo == ASSUME NEW n \in Nat PROVE IsFiniteSet(1..n) /\ Cardinality(1..n) = n
  BY FS_Interval

LEMMA LaunchNumbers ==
    /\ Launches = 1..Len(BornIn) /\ Len(BornIn) \in Nat /\ Cardinality(Launches) = Len(BornIn)
    /\ \A l \in Launches : BornIn[l] \in Nat
<1>1. Launches = 1..Len(BornIn) /\ Len(BornIn) \in Nat
  BY FeedsAssumption DEF Launches
<1>2. Cardinality(1..Len(BornIn)) = Len(BornIn)
  BY <1>1, UpTo
<1> QED BY <1>1, <1>2, FeedsAssumption

Rows == [id : Launches, born : Nat, count : Nat]

\* Rows of one answer: each launch has one.
OneRowEach(rows) ==
    /\ rows \subseteq Rows /\ IsFiniteSet(rows)
    /\ \A a, b \in rows : a.id = b.id => a = b

\* The order of the board is a strict one, and of two rows one is before the other.
LEMMA BoardOrder ==
    ASSUME NEW rows, OneRowEach(rows), NEW mode
    PROVE  /\ \A a \in rows : ~Before(a, a, mode)
           /\ \A a, b, c \in rows : Before(a, b, mode) /\ Before(b, c, mode) => Before(a, c, mode)
           /\ \A a, b \in rows : a # b => Before(a, b, mode) \/ Before(b, a, mode)
<1>1. \A a \in rows : a.id \in Nat /\ a.born \in Nat /\ a.count \in Nat
  BY LaunchNumbers DEF OneRowEach, Rows
<1>2. \A a \in rows : ~Before(a, a, mode)
  BY <1>1 DEF Before
<1>3. ASSUME NEW a \in rows, NEW b \in rows, NEW c \in rows, Before(a, b, mode), Before(b, c, mode)
      PROVE  Before(a, c, mode)
  BY <1>1, <1>3 DEF Before
<1>4. ASSUME NEW a \in rows, NEW b \in rows, a # b
      PROVE  Before(a, b, mode) \/ Before(b, a, mode)
  <2>1. a.id # b.id
    BY <1>4 DEF OneRowEach
  <2> QED BY <1>1, <2>1 DEF Before
<1> QED BY <1>2, <1>3, <1>4

\* A board has an order: a row's place is one more than the rows before it.
LEMMA BoardIsSortable ==
    ASSUME NEW rows, OneRowEach(rows), NEW mode
    PROVE  LET places == 1..Cardinality(rows)
           IN \E s \in [places -> rows] : \A i, j \in places : i < j => Before(s[i], s[j], mode)
<1> DEFINE n == Cardinality(rows)
           ahead(a) == {b \in rows : Before(b, a, mode)}
           place == [a \in rows |-> Cardinality(ahead(a)) + 1]
           s == [i \in 1..n |-> CHOOSE a \in rows : place[a] = i]
<1>1. IsFiniteSet(rows) /\ n \in Nat
  BY FS_CardinalityType DEF OneRowEach
<1>2. \A a \in rows : IsFiniteSet(ahead(a)) /\ Cardinality(ahead(a)) \in Nat
  BY <1>1, FS_Subset, FS_CardinalityType
<1>3. ASSUME NEW a \in rows PROVE place[a] \in 1..n
  <2>1. ahead(a) \in SUBSET (rows \ {a})
    BY BoardOrder
  <2>2. IsFiniteSet(rows \ {a}) /\ Cardinality(rows \ {a}) = n - 1
    BY <1>1, FS_RemoveElement
  <2>3. Cardinality(ahead(a)) <= n - 1
    BY <2>1, <2>2, FS_Subset
  <2> HIDE DEF ahead, n
  <2> QED BY <1>1, <1>2, <2>3
<1>4. ASSUME NEW a \in rows, NEW b \in rows, Before(a, b, mode) PROVE place[a] < place[b]
  <2>1. ahead(a) \cup {a} \in SUBSET ahead(b) /\ a \notin ahead(a)
    BY <1>4, BoardOrder
  <2>2. IsFiniteSet(ahead(a) \cup {a}) /\ Cardinality(ahead(a) \cup {a}) = Cardinality(ahead(a)) + 1
    BY <1>2, <2>1, FS_AddElement
  <2>3. Cardinality(ahead(a)) + 1 <= Cardinality(ahead(b))
    BY <1>2, <2>1, <2>2, FS_Subset
  <2> HIDE DEF ahead
  <2> QED BY <1>2, <2>3
<1> HIDE DEF n, place
<1>5. \A a, b \in rows : place[a] = place[b] => a = b
  <2> SUFFICES ASSUME NEW a \in rows, NEW b \in rows, a # b PROVE place[a] # place[b]
    OBVIOUS
  <2>1. place[a] \in Int /\ place[b] \in Int
    BY <1>1, <1>3
  <2> QED BY <1>4, <2>1, BoardOrder
<1>6. place \in [rows -> 1..n]
  BY <1>3 DEF place
<1>7. place \in Injection(rows, 1..n)
  BY <1>5, <1>6 DEF Injection, IsInjective
<1>8. place \in Surjection(rows, 1..n)
  <2>1. IsFiniteSet(1..n) /\ Cardinality(1..n) = n
    BY <1>1, FS_Interval
  <2> QED BY <1>7, <2>1, FS_Injection DEF n
<1>9. \A i \in 1..n : \E a \in rows : place[a] = i
  BY <1>8 DEF Surjection
<1>10. \A i \in 1..n : s[i] \in rows /\ place[s[i]] = i
  BY <1>9
<1>11. s \in [1..n -> rows]
  BY <1>10
<1> HIDE DEF s
<1>12. ASSUME NEW i \in 1..n, NEW j \in 1..n, i < j PROVE Before(s[i], s[j], mode)
  <2>1. s[i] # s[j]
    BY <1>1, <1>10, <1>12
  <2>2. ~Before(s[j], s[i], mode)
    BY <1>1, <1>4, <1>10, <1>12
  <2> QED BY <1>10, <2>1, <2>2, BoardOrder
<1> QED BY <1>11, <1>12 DEF n

\* What the board shows is all of its rows, in its order.
LEMMA BoardIsSorted ==
    ASSUME NEW rows, OneRowEach(rows), NEW mode
    PROVE  LET s == sortTokens(rows, mode)
           IN  /\ Len(s) \in Nat /\ DOMAIN s = 1..Len(s)
               /\ Range(s) = rows
               /\ \A i \in 1..Len(s) : s[i] \in rows
               /\ \A i, j \in 1..Len(s) : i < j => Before(s[i], s[j], mode)
               /\ s = <<>> => rows = {}
<1> DEFINE n == Cardinality(rows)
           s == sortTokens(rows, mode)
<1>1. IsFiniteSet(rows) /\ n \in Nat
  BY FS_CardinalityType DEF OneRowEach
<1>2. s \in [1..n -> rows] /\ \A i, j \in 1..n : i < j => Before(s[i], s[j], mode)
  BY BoardIsSortable DEF sortTokens
<1> HIDE DEF n, s
<1>3. s \in Seq(rows) /\ Len(s) = n /\ DOMAIN s = 1..n
  BY <1>1, <1>2
<1>4. ASSUME NEW i \in 1..n, NEW j \in 1..n, s[i] = s[j] PROVE i = j
  <2> SUFFICES ASSUME i # j PROVE FALSE OBVIOUS
  <2>1. s[i] \in rows /\ (Before(s[i], s[j], mode) \/ Before(s[j], s[i], mode))
    BY <1>1, <1>2
  <2> QED BY <1>4, <2>1, BoardOrder
<1>5. s \in Injection(1..n, rows)
  BY <1>2, <1>4 DEF Injection, IsInjective
<1>6. s \in Surjection(1..n, rows)
  <2>1. Cardinality(1..n) = n
    BY <1>1, FS_Interval
  <2> QED BY <1>1, <1>5, <2>1, FS_Injection DEF n
<1>7. Range(s) = rows
  BY <1>2, <1>3, <1>6 DEF Surjection, Range
<1>8. s = <<>> => rows = {}
  BY <1>3, <1>7 DEF Range
<1> QED BY <1>1, <1>2, <1>3, <1>7, <1>8 DEF s

-----------------------------------------------------------------------------
(* What useArrivals remembers.                                              *)

HasParts(m) == m = [seen |-> m.seen, arrivals |-> m.arrivals, first |-> m.first, count |-> m.count]

IsMemory(m, U) ==
    /\ HasParts(m)
    /\ m.seen # UNREAD => m.seen \subseteq U
    /\ m.arrivals \subseteq U /\ m.first \subseteq U /\ m.count \in [1..MaxTrades -> Nat]

\* The first list is seen, what was announced is seen, was not on the first list, and
\* was announced once.
Remembers(memory, U) ==
    /\ IsMemory(memory, U)
    /\ memory.seen = UNREAD => memory.first = {} /\ memory.arrivals = {}
    /\ memory.seen # UNREAD =>
          /\ memory.first # {} /\ memory.first \subseteq memory.seen
          /\ memory.arrivals \subseteq memory.seen /\ memory.arrivals \cap memory.first = {}
    /\ \A i \in 1..MaxTrades :
          /\ memory.count[i] <= 1
          /\ memory.count[i] # 0 => memory.seen # UNREAD /\ i \in memory.seen

\* A memory after what it announces.
LEMMA MemoryAfter ==
    ASSUME NEW m, HasParts(m), NEW x, NEW y, NEW z
    PROVE  [m EXCEPT !.seen = x, !.arrivals = y, !.count = z]
             = [seen |-> x, arrivals |-> y, first |-> m.first, count |-> z]
<1> DEFINE s == m.seen
           a == m.arrivals
           f == m.first
           c == m.count
           m1 == [m EXCEPT !.seen = x]
           m2 == [m1 EXCEPT !.arrivals = y]
           m3 == [m2 EXCEPT !.count = z]
<1>1. m = [seen |-> s, arrivals |-> a, first |-> f, count |-> c]
  BY DEF HasParts
<1>2. [m EXCEPT !.seen = x, !.arrivals = y, !.count = z] = m3
  OBVIOUS
<1> HIDE DEF s, a, f, c
<1>3. m1 = [seen |-> x, arrivals |-> a, first |-> f, count |-> c]
  BY <1>1
<1> HIDE DEF m1
<1>4. m2 = [seen |-> x, arrivals |-> y, first |-> f, count |-> c]
  BY <1>3
<1> HIDE DEF m2
<1>5. m3 = [seen |-> x, arrivals |-> y, first |-> f, count |-> z]
  BY <1>4
<1> HIDE DEF m3
<1> QED BY <1>2, <1>5 DEF f

\* A list is announced against what was seen, and all of it is seen after.
AreAnswers(U) == \A ids \in SUBSET U : ids # UNREAD

After(memory, ids, m) ==
    /\ ids # {} => m.seen # UNREAD /\ ids \subseteq m.seen
    /\ memory.seen # UNREAD => m.first = memory.first /\ m.seen # UNREAD
                              /\ memory.seen \subseteq m.seen
    /\ memory.seen = UNREAD => m.first = ids
    /\ \/ m.arrivals = memory.arrivals
       \/ memory.seen # UNREAD /\ m.arrivals = ids \ memory.seen

LEMMA ArrivalsRemembered ==
    ASSUME NEW U, AreAnswers(U), NEW memory, Remembers(memory, U), NEW ids, ids \subseteq U
    PROVE  Remembers(useArrivals(memory, ids), U) /\ After(memory, ids, useArrivals(memory, ids))
<1> DEFINE m == useArrivals(memory, ids)
<1> USE DEF AreAnswers, After
<1>1. IsMemory(memory, U)
  BY DEF Remembers
<1>2. CASE memory.seen = UNREAD /\ ids = {}
  <2>1. m = [memory EXCEPT !.first = {}]
    BY <1>2 DEF useArrivals, WithFirst, Remembers
  <2>2. m = memory
    BY <1>1, <1>2, <2>1 DEF IsMemory, HasParts, Remembers
  <2> QED BY <1>2, <2>2 DEF Remembers
<1>3. CASE memory.seen = UNREAD /\ ids # {}
  <2>1. m = [[memory EXCEPT !.seen = ids] EXCEPT !.first = IF @ = {} THEN ids ELSE @]
    BY <1>3 DEF useArrivals, WithFirst
  <2>2. /\ m.seen = ids /\ m.first = ids /\ m.arrivals = {} /\ m.count = memory.count
        /\ IsMemory(m, U)
    BY <1>1, <1>3, <2>1 DEF IsMemory, HasParts, Remembers
  <2>3. \A i \in 1..MaxTrades : m.count[i] = 0
    BY <1>3, <2>2 DEF Remembers
  <2> HIDE DEF m
  <2>4. m.seen # UNREAD
    BY <2>2
  <2> QED BY <1>3, <2>2, <2>3, <2>4 DEF Remembers, m
<1>4. CASE memory.seen # UNREAD
  <2> DEFINE fresh == ids \ memory.seen
             a == Announced(memory, ids)
             counts == [i \in DOMAIN memory.count |-> IF i \in fresh THEN memory.count[i] + 1
                                                      ELSE memory.count[i]]
  <2>1. m = [a EXCEPT !.first = IF @ = {} THEN ids ELSE @]
    BY <1>4 DEF useArrivals, WithFirst
  <2>2. /\ memory.seen \subseteq U /\ memory.arrivals \subseteq U
        /\ memory.first \subseteq U /\ memory.count \in [1..MaxTrades -> Nat]
    BY <1>1, <1>4 DEF IsMemory
  <2>12. HasParts(memory)
    BY <1>1 DEF IsMemory
  <2>3. a = [seen |-> memory.seen \cup ids,
             arrivals |-> IF fresh = {} THEN memory.arrivals ELSE fresh,
             first |-> memory.first,
             count |-> counts]
    <3> DEFINE seen == memory.seen \cup ids
               latest == IF fresh = {} THEN memory.arrivals ELSE fresh
    <3>1. a = [memory EXCEPT !.seen = seen, !.arrivals = latest, !.count = counts]
      BY DEF Announced
    <3> HIDE DEF counts, seen, latest, a, fresh
    <3>2. [memory EXCEPT !.seen = seen, !.arrivals = latest, !.count = counts]
            = [seen |-> seen, arrivals |-> latest, first |-> memory.first, count |-> counts]
      BY <2>12, MemoryAfter
    <3> QED BY <3>1, <3>2 DEF seen, latest
  <2> HIDE DEF a
  <2>11. /\ counts \in [1..MaxTrades -> Nat]
         /\ \A i \in 1..MaxTrades : counts[i] = IF i \in fresh THEN memory.count[i] + 1
                                                ELSE memory.count[i]
    <3>1. DOMAIN memory.count = 1..MaxTrades /\ \A i \in 1..MaxTrades : memory.count[i] \in Nat
      BY <2>2
    <3>2. \A i \in 1..MaxTrades : memory.count[i] + 1 \in Nat
      BY <3>1
    <3> HIDE DEF fresh
    <3> QED BY <3>1, <3>2
  <2> HIDE DEF counts
  <2>4. m = a
    BY <1>4, <2>1, <2>3 DEF Remembers
  <2>5. a.seen # UNREAD /\ a.seen \subseteq U
    <3>1. memory.seen \cup ids \in SUBSET U
      BY <2>2
    <3>2. memory.seen \cup ids # UNREAD
      BY <3>1
    <3> QED BY <2>3, <3>1, <3>2
  <2>6. IsMemory(a, U)
    BY <2>2, <2>3, <2>5, <2>11 DEF IsMemory, HasParts
  <2>7. ASSUME NEW i \in 1..MaxTrades PROVE a.count[i] <= 1 /\ (a.count[i] # 0 => i \in a.seen)
    <3>1. a.count[i] = IF i \in fresh THEN memory.count[i] + 1 ELSE memory.count[i]
      BY <2>3, <2>11
    <3>2. memory.count[i] \in Nat /\ memory.count[i] <= 1
          /\ (memory.count[i] # 0 => i \in memory.seen)
      BY <2>2 DEF Remembers
    <3> QED BY <2>3, <3>1, <3>2
  <2>8. /\ a.first # {} /\ a.first \subseteq a.seen
        /\ a.arrivals \subseteq a.seen /\ a.arrivals \cap a.first = {}
    BY <1>4, <2>3 DEF Remembers
  <2>9. Remembers(a, U)
    BY <2>5, <2>6, <2>7, <2>8 DEF Remembers
  <2>10. a.arrivals = memory.arrivals \/ a.arrivals = fresh
    BY <2>3
  <2> HIDE DEF m
  <2> QED BY <1>4, <2>3, <2>4, <2>5, <2>9, <2>10 DEF m
<1> QED BY <1>2, <1>3, <1>4

-----------------------------------------------------------------------------
(* The market and its answers.                                              *)

MarketTyped ==
    /\ market \in [created : 0..Len(BornIn), graduated : SUBSET Launches, trades : Seq(Launches)]
    /\ Len(market.trades) <= MaxTrades

\* Trades are only added.
LEMMA MarketGrows ==
    ASSUME MarketTyped, Market
    PROVE  /\ MarketTyped'
           /\ DOMAIN market.trades \subseteq DOMAIN market'.trades
           /\ \A i \in DOMAIN market.trades : market'.trades[i] = market.trades[i]
<1>1. CASE market.created < Cardinality(Launches) /\ market' = [market EXCEPT !.created = @ + 1]
  <2>1. market.created + 1 \in 0..Len(BornIn)
    BY <1>1, LaunchNumbers DEF MarketTyped
  <2> QED BY <1>1, <2>1 DEF MarketTyped, Launches
<1>2. CASE Len(market.trades) < MaxTrades
           /\ \E l \in Live : market' = [market EXCEPT !.trades = Append(@, l)]
  <2>1. PICK l \in Live : market' = [market EXCEPT !.trades = Append(@, l)]
    BY <1>2
  <2>2. l \in Launches
    BY LaunchNumbers DEF Live, MarketTyped
  <2>3. market.trades \in Seq(Launches) /\ Len(market.trades) \in Nat
    BY DEF MarketTyped
  <2>4. /\ Append(market.trades, l) \in Seq(Launches)
        /\ Len(Append(market.trades, l)) = Len(market.trades) + 1
        /\ \A i \in 1..Len(market.trades) : Append(market.trades, l)[i] = market.trades[i]
    BY <2>2, <2>3
  <2>5. market'.trades = Append(market.trades, l)
    BY <2>1 DEF MarketTyped
  <2>6. market' \in [created : 0..Len(BornIn), graduated : SUBSET Launches, trades : Seq(Launches)]
    BY <2>1, <2>4 DEF MarketTyped
  <2>7. Len(market'.trades) <= MaxTrades
    BY <1>2, <2>3, <2>4, <2>5, FeedsAssumption
  <2> QED BY <2>3, <2>4, <2>5, <2>6, <2>7 DEF MarketTyped, Launches
<1>3. CASE \E l \in Live : market' = [market EXCEPT !.graduated = @ \cup {l}]
  <2>1. PICK l \in Live : market' = [market EXCEPT !.graduated = @ \cup {l}]
    BY <1>3
  <2>2. l \in Launches
    BY LaunchNumbers DEF Live, MarketTyped
  <2> QED BY <2>1, <2>2 DEF MarketTyped, Launches
<1> QED BY <1>1, <1>2, <1>3 DEF Market

\* An answer of the board's query: whose launches differ, the first of all by its key.
Top(data, orderBy) ==
    data # UNREAD =>
        /\ OneRowEach(data.all) /\ data.rows \subseteq data.all
        /\ IsTop(data.rows, data.all, BoardPageSize, orderBy)

LEMMA BoardAnswers ==
    ASSUME MarketTyped, NEW orderBy, NEW a \in fetchActiveTokens(orderBy)
    PROVE  Top(a, orderBy)
<1> DEFINE all == {Row(l) : l \in Live}
           f == [l \in Live |-> Row(l)]
<1>1. /\ a.all = all /\ a.rows \subseteq all
      /\ IsTop(a.rows, all, BoardPageSize, orderBy)
  BY DEF fetchActiveTokens
<1>2. Live \in SUBSET Launches
  BY LaunchNumbers DEF Live, MarketTyped
<1>3. IsFiniteSet(Live)
  <2>1. IsFiniteSet(Launches)
    BY LaunchNumbers, FS_Interval
  <2> QED BY <1>2, <2>1, FS_Subset
<1>4. f \in Surjection(Live, all)
  BY DEF Surjection
<1>5. IsFiniteSet(all)
  BY <1>3, <1>4, FS_Surjection
<1>6. ASSUME NEW l \in Live PROVE Row(l) \in Rows
  <2>1. l \in Launches /\ BornIn[l] \in Nat
    BY <1>2, LaunchNumbers
  <2>2. TradeCount(l) \in Nat
    <3>1. IsFiniteSet(DOMAIN market.trades)
      <4>1. DOMAIN market.trades = 1..Len(market.trades) /\ Len(market.trades) \in Nat
        BY DEF MarketTyped
      <4> QED BY <4>1, UpTo
    <3> QED BY <3>1, FS_Subset, FS_CardinalityType DEF TradeCount
  <2> QED BY <2>1, <2>2 DEF Row, Rows
<1>7. OneRowEach(all)
  BY <1>5, <1>6 DEF OneRowEach, Row
<1> QED BY <1>1, <1>7 DEF Top

-----------------------------------------------------------------------------
(* The invariant.                                                           *)

IsQuery(q) == DOMAIN q = {"data", "isError"}

\* Each of the board's queries answers for its own order, and what is kept on screen
\* for one of the two.
BoardInv ==
    /\ sort \in SortModes /\ DOMAIN tokens = SortModes
    /\ \A m \in SortModes : IsQuery(tokens[m]) /\ Top(tokens[m].data, orderByFor(m))
    /\ \E m \in SortModes : Top(kept, orderByFor(m))
    /\ Remembers(board, Launches)

AllTrades == {i \in DOMAIN market.trades : page = "rail" \/ market.trades[i] = 1}
Newer(i) == {j \in AllTrades : j > i}

\* A trade older than one of the first list, and not on it, had as many newer ones as a
\* list holds, and has them still.
FirstWasNewest ==
    \A i \in Visible(AllTrades), o \in feed.first :
        i < o /\ i \notin feed.first => Cardinality(Newer(i)) >= FeedSize

FeedInv ==
    /\ IsQuery(trades)
    /\ trades.data # UNREAD => trades.data \subseteq DOMAIN market.trades
    /\ FeedRows # {} => feed.seen # UNREAD /\ FeedRows \subseteq feed.seen
    /\ Remembers(feed, 1..MaxTrades) /\ feed.first \subseteq DOMAIN market.trades
    /\ FirstWasNewest
    /\ \A i \in feed.arrivals, o \in feed.first : i > o

FeedsInv == MarketTyped /\ BoardInv /\ FeedInv

LEMMA FeedsStart == ASSUME NEW which, FeedsInit(which) PROVE FeedsInv
<1>1. NothingSeen = [seen |-> UNREAD, arrivals |-> {}, first |-> {}, count |-> [i \in 1..MaxTrades |-> 0]]
  BY DEF NothingSeen
<1>2. \A U : Remembers(NothingSeen, U) /\ NothingSeen.first = {} /\ NothingSeen.arrivals = {}
  BY <1>1 DEF Remembers, IsMemory, HasParts
<1> HIDE DEF NothingSeen
<1>3. MarketTyped
  <2>1. PICK n \in 0..2 : market = [created |-> n, graduated |-> {}, trades |-> <<>>]
    <3>1. PICK n \in (IF which = UNREAD THEN {0} ELSE {1, 2}) :
              market = [created |-> n, graduated |-> {}, trades |-> <<>>]
      BY DEF FeedsInit
    <3>2. n \in 0..2
      OBVIOUS
    <3> QED BY <3>1, <3>2
  <2>2. n \in 0..Len(BornIn) /\ MaxTrades >= 0
    BY LaunchNumbers, FeedsAssumption
  <2> QED BY <2>1, <2>2 DEF MarketTyped
<1>4. BoardInv
  BY <1>2 DEF FeedsInit, BoardInv, IsQuery, Top, Pending, SortModes
<1>5. FeedInv
  <2>1. trades.data = UNREAD /\ IsQuery(trades) /\ feed = NothingSeen
    BY DEF FeedsInit, Pending, IsQuery
  <2>2. FeedRows = {}
    BY <2>1 DEF FeedRows, Visible, OrElse
  <2> QED BY <1>2, <2>1, <2>2 DEF FeedInv, FirstWasNewest
<1> QED BY <1>3, <1>4, <1>5 DEF FeedsInv

\* Of a query that failed the data stays.
LEMMA QueryAfter ==
    /\ \A v : IsQuery(Answered(v)) /\ Answered(v).data = v
    /\ \A q : IsQuery(q) => IsQuery(FailedAfter(q)) /\ FailedAfter(q).data = q.data
<1>1. \A v : IsQuery(Answered(v)) /\ Answered(v).data = v
  BY DEF IsQuery, Answered
<1>2. ASSUME NEW q, IsQuery(q) PROVE IsQuery(FailedAfter(q)) /\ FailedAfter(q).data = q.data
  BY <1>2 DEF IsQuery, FailedAfter
<1> QED BY <1>1, <1>2

\* The market moves under a list that is on screen.
LEMMA TradingKeeps == ASSUME FeedsInv, Trading PROVE FeedsInv'
<1>1. /\ Market /\ UNCHANGED <<page, sort, tokens, kept, trades, board, feed>>
      /\ MarketTyped /\ BoardInv /\ FeedInv
  BY DEF Trading, FeedsInv
<1>2. /\ MarketTyped' /\ DOMAIN market.trades \subseteq DOMAIN market'.trades
      /\ \A i \in DOMAIN market.trades : market'.trades[i] = market.trades[i]
  BY <1>1, MarketGrows
<1>3. BoardInv'
  BY <1>1 DEF BoardInv
<1>4. FeedRows' = FeedRows
  BY <1>1, <1>2 DEF FeedRows, Visible, OrElse, FeedInv
<1>5. FirstWasNewest'
  <2> SUFFICES ASSUME NEW i \in Visible(AllTrades)', NEW o \in feed.first, i < o, i \notin feed.first
               PROVE  Cardinality(Newer(i))' >= FeedSize
    BY <1>1 DEF FirstWasNewest
  <2>1. /\ DOMAIN market.trades = 1..Len(market.trades) /\ Len(market.trades) \in Nat
        /\ DOMAIN market'.trades = 1..Len(market'.trades) /\ Len(market'.trades) \in Nat
    BY <1>1, <1>2 DEF MarketTyped
  <2>2. i \in DOMAIN market'.trades /\ o \in DOMAIN market.trades
    BY <1>1 DEF Visible, AllTrades, FeedInv
  <2>3. i \in DOMAIN market.trades
    BY <2>1, <2>2
  <2>4. i \in Visible(AllTrades)
    BY <1>1, <1>2, <2>3 DEF Visible, AllTrades
  <2>5. Cardinality(Newer(i)) >= FeedSize
    BY <1>1, <2>4 DEF FeedInv, FirstWasNewest
  <2>6. Newer(i) \in SUBSET Newer(i)'
    BY <1>1, <1>2 DEF Newer, AllTrades
  <2>7. IsFiniteSet(Newer(i)')
    <3>1. IsFiniteSet(DOMAIN market'.trades)
      BY <2>1, UpTo
    <3> QED BY <3>1, FS_Subset DEF Newer, AllTrades
  <2>8. Cardinality(Newer(i)) <= Cardinality(Newer(i)')
    BY <2>6, <2>7, FS_Subset
  <2>9. Cardinality(Newer(i)) \in Nat /\ Cardinality(Newer(i)') \in Nat
    BY <2>6, <2>7, FS_Subset, FS_CardinalityType
  <2> QED BY <2>5, <2>8, <2>9, FeedsAssumption
<1>6. FeedInv'
  BY <1>1, <1>2, <1>4, <1>5 DEF FeedInv
<1> QED BY <1>2, <1>3, <1>6 DEF FeedsInv

\* Whatever the board renders next is announced and kept.
LEMMA RenderedKeeps ==
    ASSUME BoardInv, NEW qs, NEW s \in SortModes, Rendered(qs, s), DOMAIN qs = SortModes,
           \A m \in SortModes : IsQuery(qs[m]) /\ Top(qs[m].data, orderByFor(m))
    PROVE  BoardInv'
<1> DEFINE data == Shown(qs, s, kept)
           ids == Ids(ShownRows(data))
<1>1. tokens' = qs /\ sort' = s /\ kept' = (IF data # UNREAD THEN data ELSE kept)
      /\ board' = useArrivals(board, ids)
  BY DEF Rendered
<1>2. \E m \in SortModes : Top(data, orderByFor(m))
  BY DEF Shown, BoardInv
<1>3. \E m \in SortModes : Top(kept', orderByFor(m))
  BY <1>1, <1>2 DEF BoardInv
<1>4. ids \in SUBSET Launches
  <2>1. CASE data = UNREAD
    BY <2>1 DEF Ids, ShownRows, withoutHidden, OrElse
  <2>2. CASE data # UNREAD
    <3>1. data.rows \subseteq Rows
      BY <1>2, <2>2 DEF Top, OneRowEach
    <3> QED BY <2>2, <3>1 DEF Ids, ShownRows, withoutHidden, OrElse, Rows
  <2> QED BY <2>1, <2>2
<1>5. Remembers(board', Launches)
  <2>1. AreAnswers(Launches)
    BY FeedsAssumption DEF Launches, AreAnswers
  <2> HIDE DEF ids
  <2> QED BY <1>1, <1>4, <2>1, ArrivalsRemembered DEF BoardInv, After
<1> QED BY <1>1, <1>3, <1>5 DEF BoardInv, orderByFor, Top, IsTop, Key

LEMMA BoardKeeps == ASSUME FeedsInv, PollBoard \/ PickSort PROVE FeedsInv'
<1>1. /\ UNCHANGED <<page, market, trades, feed>>
      /\ MarketTyped /\ BoardInv /\ FeedInv
  BY DEF PollBoard, PickSort, FeedsInv
<1>2. DOMAIN tokens = SortModes /\ sort \in SortModes
  BY <1>1 DEF BoardInv
<1>3. ASSUME NEW a \in fetchActiveTokens(orderByFor(sort)),
             Rendered([tokens EXCEPT ![sort] = Answered(a)], sort)
      PROVE  BoardInv'
  <2> DEFINE qs == [tokens EXCEPT ![sort] = Answered(a)]
  <2>1. /\ DOMAIN qs = SortModes /\ qs[sort] = Answered(a)
        /\ \A m \in SortModes : m # sort => qs[m] = tokens[m]
    BY <1>2
  <2>2. \A m \in SortModes : IsQuery(qs[m]) /\ Top(qs[m].data, orderByFor(m))
    <3> HIDE DEF qs
    <3>1. Top(a, orderByFor(sort))
      BY <1>1, BoardAnswers
    <3> QED BY <1>1, <2>1, <3>1, QueryAfter DEF BoardInv
  <2> QED BY <1>1, <1>2, <1>3, <2>1, <2>2, RenderedKeeps
<1>4. ASSUME Rendered([tokens EXCEPT ![sort] = FailedAfter(@)], sort)
      PROVE  BoardInv'
  <2> DEFINE qs == [tokens EXCEPT ![sort] = FailedAfter(@)]
  <2>1. /\ DOMAIN qs = SortModes /\ qs[sort] = FailedAfter(tokens[sort])
        /\ \A m \in SortModes : m # sort => qs[m] = tokens[m]
    BY <1>2
  <2>2. \A m \in SortModes : IsQuery(qs[m]) /\ Top(qs[m].data, orderByFor(m))
    <3> HIDE DEF qs
    <3>1. IsQuery(FailedAfter(tokens[sort])) /\ FailedAfter(tokens[sort]).data = tokens[sort].data
      BY <1>1, <1>2, QueryAfter DEF BoardInv
    <3> QED BY <1>1, <1>2, <2>1, <3>1 DEF BoardInv
  <2> QED BY <1>1, <1>2, <1>4, <2>1, <2>2, RenderedKeeps
<1>5. ASSUME NEW s \in SortModes, Rendered(tokens, s) PROVE BoardInv'
  BY <1>1, <1>5, RenderedKeeps DEF BoardInv
<1>6. BoardInv'
  BY <1>3, <1>4, <1>5 DEF PollBoard, PickSort
<1>7. FeedInv' /\ MarketTyped'
  BY <1>1 DEF FeedInv, FeedRows, Visible, FirstWasNewest, Newer, AllTrades, MarketTyped
<1> QED BY <1>6, <1>7 DEF FeedsInv

\* A poll of the trades.
LEMMA TradesKeep == ASSUME FeedsInv, PollTrades PROVE FeedsInv'
<1> DEFINE ids == Visible(OrElse(trades'.data, {}))
<1>1. /\ UNCHANGED <<page, market, sort, tokens, kept, board>>
      /\ MarketTyped /\ BoardInv /\ FeedInv
      /\ trades' = Answered(fetchTrades) \/ trades' = FailedAfter(trades)
      /\ feed' = useArrivals(feed, ids)
  BY DEF PollTrades, FeedsInv
<1>2. DOMAIN market.trades = 1..Len(market.trades) /\ Len(market.trades) \in Nat
      /\ DOMAIN market.trades \subseteq 1..MaxTrades
  BY <1>1, FeedsAssumption DEF MarketTyped
<1>3. IsQuery(trades') /\ (trades'.data # UNREAD => trades'.data \subseteq DOMAIN market.trades)
  BY <1>1, QueryAfter DEF FeedInv, fetchTrades
<1>4. ids \subseteq DOMAIN market.trades /\ FeedRows' = ids
  BY <1>1, <1>3 DEF FeedRows, Visible, OrElse
<1>5. Remembers(feed, 1..MaxTrades) /\ feed.first \subseteq DOMAIN market.trades
  BY <1>1 DEF FeedInv
<1>6. /\ Remembers(feed', 1..MaxTrades)
      /\ ids # {} => feed'.seen # UNREAD /\ ids \subseteq feed'.seen
      /\ feed.seen # UNREAD => feed'.first = feed.first
      /\ feed.seen = UNREAD => feed'.first = ids
      /\ \/ feed'.arrivals = feed.arrivals
         \/ feed.seen # UNREAD /\ feed'.arrivals = ids \ feed.seen
  <2> DEFINE U == 1..MaxTrades
  <2> DEFINE m == useArrivals(feed, ids)
  <2>1. AreAnswers(U)
    BY FeedsAssumption DEF AreAnswers
  <2>2. ids \subseteq U /\ Remembers(feed, U)
    BY <1>2, <1>4, <1>5
  <2>3. Remembers(m, 1..MaxTrades) /\ After(feed, ids, m)
    <3> HIDE DEF ids, U
    <3>1. Remembers(m, U) /\ After(feed, ids, m)
      BY <2>1, <2>2, ArrivalsRemembered
    <3> QED BY <3>1 DEF U
  <2> HIDE DEF ids
  <2>4. feed' = m
    BY <1>1 DEF ids
  <2> HIDE DEF m
  <2> QED BY <2>3, <2>4 DEF After
\* What is new in a list is newer than the first of them, and what is not on the first
\* and may be shown had enough newer ones.
<1>7. CASE trades' = FailedAfter(trades)
  <2>1. ids = FeedRows
    BY <1>1, <1>7, QueryAfter DEF FeedInv, FeedRows
  <2>2. feed.seen = UNREAD => ids = {}
    BY <1>1, <2>1 DEF FeedInv
  <2>3. feed.seen = UNREAD => feed.first = {} /\ feed.arrivals = {}
    BY <1>5 DEF Remembers
  <2>4. feed.seen # UNREAD => ids \ feed.seen = {}
    BY <1>1, <2>1 DEF FeedInv
  <2> HIDE DEF ids
  <2>5. feed'.first = feed.first /\ (feed'.arrivals = feed.arrivals \/ feed'.arrivals = {})
    BY <1>6, <2>2, <2>3, <2>4
  <2>6. FirstWasNewest'
    BY <1>1, <2>5 DEF FeedInv, FirstWasNewest, Visible, AllTrades, Newer
  <2>7. (\A i \in feed.arrivals, o \in feed.first : i > o)'
    BY <1>1, <2>5 DEF FeedInv
  <2> QED BY <1>1, <1>3, <1>4, <1>5, <1>6, <2>5, <2>6, <2>7 DEF FeedInv, FeedsInv, BoardInv, MarketTyped
<1>8. CASE trades' = Answered(fetchTrades)
  <2>1. fetchTrades = {i \in AllTrades : Cardinality(Newer(i)) < FeedSize}
    BY DEF fetchTrades, AllTrades, Newer
  <2>2. ASSUME NEW i \in AllTrades PROVE Cardinality(Newer(i)) \in Nat
    <3>1. IsFiniteSet(DOMAIN market.trades)
      BY <1>2, UpTo
    <3> QED BY <3>1, FS_Subset, FS_CardinalityType DEF Newer, AllTrades
  <2>3. fetchTrades # UNREAD
    <3>1. fetchTrades \in SUBSET (DOMAIN BornIn \cup 1..MaxTrades)
      BY <1>2 DEF fetchTrades
    <3> QED BY <3>1, FeedsAssumption
  <2>4. ids = Visible(fetchTrades)
    BY <1>8, <2>3, QueryAfter DEF OrElse
  <2>5. \A i \in Visible(AllTrades) : i \notin ids => Cardinality(Newer(i)) >= FeedSize
    BY <2>1, <2>2, <2>4, FeedsAssumption DEF Visible
  <2>6. ids \subseteq Visible(AllTrades) /\ \A i \in ids : Cardinality(Newer(i)) < FeedSize
    BY <2>1, <2>4 DEF Visible
  <2>7. \A i \in Visible(AllTrades) : i \in AllTrades /\ i \in Int
    BY <1>2 DEF Visible, AllTrades
  <2> HIDE DEF ids
  <2>8. CASE feed.seen = UNREAD
    <3>1. feed'.first = ids /\ feed'.arrivals = {}
      BY <1>5, <1>6, <2>8 DEF Remembers
    <3>2. FirstWasNewest'
      BY <1>1, <2>5, <3>1 DEF FirstWasNewest, Visible, AllTrades, Newer
    <3> QED BY <1>1, <1>3, <1>4, <1>6, <3>1, <3>2 DEF FeedInv, FeedsInv, BoardInv, MarketTyped
  <2>9. CASE feed.seen # UNREAD
    <3>1. feed'.first = feed.first /\ (feed'.arrivals = feed.arrivals \/ feed'.arrivals = ids \ feed.seen)
      BY <1>6, <2>9
    <3>2. FirstWasNewest'
      BY <1>1, <3>1 DEF FeedInv, FirstWasNewest, Visible, AllTrades, Newer
    <3>3. ASSUME NEW i \in ids \ feed.seen, NEW o \in feed.first PROVE i > o
      <4>1. i \notin feed.first /\ i # o
        BY <1>5, <2>9 DEF Remembers
      <4>2. i \in Int /\ o \in Int
        BY <1>2, <1>5, <2>6, <2>7
      <4>3. ~(i < o)
        BY <1>1, <2>2, <2>6, <2>7, <4>1, FeedsAssumption DEF FeedInv, FirstWasNewest
      <4> QED BY <4>1, <4>2, <4>3
    <3>4. \A i \in feed.arrivals, o \in feed.first : i > o
      BY <1>1 DEF FeedInv
    <3>5. (\A i \in feed.arrivals, o \in feed.first : i > o)'
      BY <3>1, <3>3, <3>4
    <3> QED BY <1>1, <1>3, <1>4, <1>5, <1>6, <3>1, <3>2, <3>5 DEF FeedInv, FeedsInv, BoardInv, MarketTyped
  <2> QED BY <2>8, <2>9
<1> QED BY <1>1, <1>7, <1>8

LEMMA FeedsKept == ASSUME FeedsInv, [FeedsNext]_feedVars PROVE FeedsInv'
<1>1. CASE UNCHANGED <<page, market, sort, tokens, kept, trades, board, feed>>
  BY <1>1 DEF FeedsInv, MarketTyped, BoardInv, FeedInv, FeedRows, Visible, FirstWasNewest, Newer, AllTrades
<1> QED BY <1>1, TradingKeeps, BoardKeeps, TradesKeep DEF FeedsNext, feedVars, PollStatus, PollTicker, PollToken

-----------------------------------------------------------------------------
(* What it gives.                                                           *)

LEMMA EmptyFollows == ASSUME FeedsInv PROVE EmptyMeansEmpty
<1>1. ASSUME FeedText = "no trades yet"
      PROVE  ~isDegraded(state) /\ trades.data # UNREAD /\ Visible(trades.data) = {}
  BY <1>1 DEF FeedText, TradeFeedState, isLoading, FeedRows, OrElse
<1>2. ASSUME BoardText = "no live curves" PROVE withoutHidden(BoardData.all) = {}
  <2> DEFINE d == BoardData
  <2>1. d # UNREAD /\ Sorted = <<>>
    BY <1>2 DEF BoardText
  <2>2. PICK m \in SortModes : Top(d, orderByFor(m))
    BY DEF Shown, BoardData, FeedsInv, BoardInv
  <2> HIDE DEF d
  <2>3. /\ OneRowEach(d.all) /\ d.rows \subseteq d.all
        /\ Cardinality(d.rows) = IF Cardinality(d.all) < BoardPageSize THEN Cardinality(d.all) ELSE BoardPageSize
    BY <2>1, <2>2 DEF Top, IsTop
  <2>4. IsFiniteSet(d.all) /\ IsFiniteSet(d.rows)
    BY <2>3, FS_Subset DEF OneRowEach
  <2>5. ShownRows(d) = withoutHidden(d.rows)
    BY <2>1 DEF ShownRows, OrElse
  <2>6. OneRowEach(withoutHidden(d.rows))
    BY <2>3, <2>4, FS_Subset DEF OneRowEach, withoutHidden
  <2>7. withoutHidden(d.rows) = {}
    BY <2>1, <2>5, <2>6, BoardIsSorted DEF Sorted, d
  <2>8. Cardinality(d.rows) <= Cardinality(Hidden)
    <3> DEFINE f == [r \in d.rows |-> r.id]
    <3>1. f \in [d.rows -> Hidden]
      BY <2>7 DEF withoutHidden, isHidden
    <3>2. f \in Injection(d.rows, Hidden)
      BY <2>3, <3>1 DEF Injection, IsInjective, OneRowEach
    <3> QED BY <3>2, FS_Injection, FeedsAssumption
  <2>9. Cardinality(d.rows) = Cardinality(d.all)
    <3>1. Cardinality(Hidden) \in Nat /\ Cardinality(d.rows) \in Nat
      BY <2>4, FS_CardinalityType, FeedsAssumption
    <3> QED BY <2>3, <2>8, <3>1, FeedsAssumption
  <2>10. d.rows = d.all
    BY <2>3, <2>4, <2>9, FS_Subset
  <2> QED BY <2>7, <2>10 DEF d
<1>3. TickerText = "nothing" /\ graduated.data # UNREAD => Ids(graduated.data) \subseteq Hidden
  BY DEF TickerText, OrElse, withoutHidden, isHidden, Ids
<1> QED BY <1>1, <1>2, <1>3 DEF EmptyMeansEmpty

LEMMA TopFollows == ASSUME FeedsInv PROVE BoardIsTheTop
<1> DEFINE data == tokens[sort].data
           rows == withoutHidden(data.rows)
<1> SUFFICES ASSUME BoardText = "list", data # UNREAD
             PROVE  LET missing == withoutHidden(data.all) \ Range(Sorted)
                    IN /\ Ids(Range(Sorted)) \cap Hidden = {}
                       /\ \A i \in 1..(Len(Sorted) - 1) :
                             Key(Sorted[i], orderByFor(sort)) >= Key(Sorted[i + 1], orderByFor(sort))
                       /\ \A o \in missing, r \in Range(Sorted) :
                            IF sort = "trades" THEN o.count <= r.count ELSE o.born <= r.born
  BY DEF BoardIsTheTop
<1>1. sort \in SortModes /\ Top(data, orderByFor(sort))
  BY DEF FeedsInv, BoardInv
<1>2. /\ OneRowEach(data.all) /\ data.rows \subseteq data.all
      /\ \A r \in data.rows, o \in data.all \ data.rows : Key(o, orderByFor(sort)) <= Key(r, orderByFor(sort))
  BY <1>1 DEF Top, IsTop
<1>3. Sorted = sortTokens(rows, sort)
  BY DEF Sorted, BoardData, Shown, ShownRows, OrElse
<1>4. OneRowEach(rows)
  BY <1>2, FS_Subset DEF OneRowEach, withoutHidden
<1>5. /\ Len(Sorted) \in Nat /\ Range(Sorted) = rows
      /\ \A i \in 1..Len(Sorted) : Sorted[i] \in rows
      /\ \A i, j \in 1..Len(Sorted) : i < j => Before(Sorted[i], Sorted[j], sort)
  BY <1>3, <1>4, BoardIsSorted
<1>6. \A r \in rows : r.born \in Nat /\ r.count \in Nat
  BY <1>4 DEF OneRowEach, Rows
<1>7. Ids(Range(Sorted)) \cap Hidden = {}
  BY <1>5 DEF Ids, withoutHidden, isHidden
<1> HIDE DEF data, rows
<1>8. ASSUME NEW i \in 1..(Len(Sorted) - 1)
      PROVE  Key(Sorted[i], orderByFor(sort)) >= Key(Sorted[i + 1], orderByFor(sort))
  <2>1. Before(Sorted[i], Sorted[i + 1], sort) /\ Sorted[i] \in rows /\ Sorted[i + 1] \in rows
    BY <1>5
  <2> QED BY <1>1, <1>6, <2>1 DEF Before, Key, orderByFor, SortModes
<1>9. ASSUME NEW o \in withoutHidden(data.all) \ Range(Sorted), NEW r \in Range(Sorted)
      PROVE  IF sort = "trades" THEN o.count <= r.count ELSE o.born <= r.born
  <2>1. o \in data.all \ data.rows /\ r \in data.rows
    BY <1>5, <1>9 DEF withoutHidden, rows
  <2> QED BY <1>1, <1>2, <2>1 DEF Key, orderByFor, SortModes
<1> QED BY <1>7, <1>8, <1>9 DEF data

LEMMA NewsFollows == ASSUME FeedsInv PROVE ArrivalsAreNews
<1>1. Remembers(feed, 1..MaxTrades) /\ Remembers(board, Launches)
  BY DEF FeedsInv, FeedInv, BoardInv
<1>2. DOMAIN feed.count = 1..MaxTrades
  BY <1>1 DEF Remembers, IsMemory
<1>3. board.arrivals \cap board.first = {}
  BY <1>1 DEF Remembers
<1>4. \A i \in 1..MaxTrades : feed.count[i] <= 1 /\ board.count[i] <= 1
  BY <1>1 DEF Remembers
<1> QED BY <1>2, <1>3, <1>4 DEF ArrivalsAreNews, FeedsInv, FeedInv

FeedsSpec ==
    (\E which \in {"board", "ticker", "rail", "token"} : FeedsInit(which)) /\ [][FeedsNext]_feedVars

\* However answers arrive and fail while launches are made, trade and graduate: a list
\* said to be empty is one the indexer last answered so, the board shows the first of all
\* live curves under its order, and what is announced is new, once (HomePage.tsx,
\* TradeFeedState.tsx, board.ts, useArrivals.ts).
THEOREM FeedsTellTheTruthAlways == FeedsSpec => []FeedsTellTheTruth
<1>1. (\E which \in {"board", "ticker", "rail", "token"} : FeedsInit(which)) => FeedsInv
  BY FeedsStart
<1>2. FeedsInv /\ [FeedsNext]_feedVars => FeedsInv'
  BY FeedsKept
<1>3. FeedsInv => FeedsTellTheTruth
  BY EmptyFollows, TopFollows, NewsFollows DEF FeedsTellTheTruth
<1> QED BY <1>1, <1>2, <1>3, PTL DEF FeedsSpec

-----------------------------------------------------------------------------
(* The price chart.                                                        *)

\* A set of as many parts as T has members, one for each f: their sizes add up.
LEMMA PartsAddUp ==
    ASSUME NEW I, IsFiniteSet(I), NEW T, IsFiniteSet(T), NEW f,
           \A i \in I : f[i] \in T,
           NEW c, DOMAIN c = T, \A t \in T : c[t] = Cardinality({i \in I : f[i] = t})
    PROVE  SumFunctionOnSet(c, T) = Cardinality(I)
<1>1. PICK g : Sums(g, c, T) /\ SumFunctionOnSet(c, T) = g[T]
  BY SumIsSums
<1> DEFINE Of(s) == {i \in I : f[i] \in s}
           P(s) == g[s] = Cardinality(Of(s))
           N == {n \in Nat : \A s \in SUBSET T : Cardinality(s) = n => P(s)}
<1>2. \A s \in SUBSET T : IsFiniteSet(Of(s)) /\ Cardinality(Of(s)) \in Nat
  BY FS_Subset, FS_CardinalityType
<1>3. 0 \in N
  <2>1. ASSUME NEW s \in SUBSET T, Cardinality(s) = 0 PROVE P(s)
    <3>1. s = {}
      BY <2>1, SubsetFacts
    <3>2. g[s] = 0
      BY <1>1, <3>1 DEF Sums
    <3>3. Of(s) = {}
      BY <3>1
    <3>4. Cardinality(Of(s)) = 0
      BY <3>3, FS_EmptySet
    <3> QED BY <3>2, <3>4
  <2> QED BY <2>1
<1>4. ASSUME NEW n \in Nat, n \in N PROVE n + 1 \in N
  <2>1. ASSUME NEW s \in SUBSET T, Cardinality(s) = n + 1 PROVE P(s)
    <3> DEFINE x == AnyOf(s)
               t == s \ {x}
               A == {i \in I : f[i] = x}
    <3>1. s # {} /\ x \in s /\ t \in SUBSET T /\ Cardinality(t) = n
      BY <1>4, <2>1, SubsetFacts
    <3>2. P(t)
      BY <1>4, <3>1
    <3>3. g[s] = c[x] + g[t]
      BY <1>1, <3>1 DEF Sums
    <3>4. c[x] = Cardinality(A)
      BY <3>1
    <3>5. Of(s) = A \cup Of(t) /\ A \cap Of(t) = {}
      BY <3>1
    <3>6. IsFiniteSet(A) /\ IsFiniteSet(Of(t)) /\ Cardinality(A) \in Nat /\ Cardinality(Of(t)) \in Nat
      BY <1>2, <3>1, FS_Subset, FS_CardinalityType
    <3>7. Cardinality(A \cap Of(t)) = 0
      BY <3>5, FS_EmptySet
    <3> HIDE DEF A, t, x, Of
    <3>8. Cardinality(A \cup Of(t)) = Cardinality(A) + Cardinality(Of(t)) - Cardinality(A \cap Of(t))
      BY <3>6, FS_Union
    <3> QED BY <3>2, <3>3, <3>4, <3>5, <3>6, <3>7, <3>8
  <2> QED BY <2>1
<1>5. Cardinality(T) \in N
  BY <1>3, <1>4, NatSetInduction, SubsetFacts
<1>6. g[T] = Cardinality(Of(T)) /\ Of(T) = I
  BY <1>5, SubsetFacts
<1> QED BY <1>1, <1>6

LEMMA FiniteImage ==
    ASSUME NEW S, IsFiniteSet(S), NEW f
    PROVE  IsFiniteSet({f[x] : x \in S})
<1> DEFINE F == {f[x] : x \in S}
           e == [x \in S |-> f[x]]
<1>1. e \in Surjection(S, F)
  BY DEF Surjection
<1> HIDE DEF F, e
<1>2. IsFiniteSet(F)
  BY <1>1, FS_Surjection
<1> QED BY <1>2 DEF F

TradeRow == [time : Nat, price : Prices]
Ordered(rows) ==
    /\ rows \in Seq(TradeRow)
    /\ \A i \in 1..Len(rows) : \A j \in 1..Len(rows) : i <= j => rows[i].time <= rows[j].time

\* The trades of a second, and those until a time.
RowsAt(rows, t) == {i \in DOMAIN rows : rows[i].time = t}
RowsUntil(rows, t) == {i \in DOMAIN rows : rows[i].time <= t}
EventAt(rows, t) == [time |-> t, value |-> rows[NewestOf(RowsAt(rows, t))].price, count |-> Cardinality(RowsAt(rows, t))]

LEMMA NewestIsLast ==
    ASSUME NEW n \in Nat, NEW I, I \subseteq 1..n, I # {}
    PROVE  NewestOf(I) \in I /\ \A j \in I : j <= NewestOf(I)
<1> DEFINE T == {k \in Nat : \A i \in I : i <= n - k}
<1>1. \E i \in I : \A j \in I : j <= i
  <2>1. SUFFICES ASSUME \A x \in I : \E y \in I : ~(y <= x) PROVE FALSE
    OBVIOUS
  <2>2. 0 \in T
    OBVIOUS
  <2>3. ASSUME NEW k \in Nat, k \in T PROVE k + 1 \in T
    <3>1. ASSUME n - k \in I PROVE FALSE
      BY <2>1, <2>3, <3>1
    <3> QED BY <2>3, <3>1
  <2>4. n \in T
    BY <2>2, <2>3, NatSetInduction
  <2>5. PICK x \in I : x \in 1..n
    OBVIOUS
  <2>6. x <= 0
    BY <2>4
  <2> QED BY <2>5, <2>6
<1> QED BY <1>1 DEF NewestOf

\* The events of rows: one of each second that has a row.
LEMMA EventsAre ==
    ASSUME NEW rows, Ordered(rows)
    PROVE  /\ DOMAIN rows = 1..Len(rows) /\ Len(rows) \in Nat /\ IsFiniteSet(DOMAIN rows)
           /\ \A i \in DOMAIN rows : rows[i].time \in Nat
           /\ toEvents(rows) = {EventAt(rows, rows[i].time) : i \in DOMAIN rows}
           /\ IsFiniteSet(toEvents(rows))
           /\ \A t : EventAt(rows, t).time = t
<1>1. DOMAIN rows = 1..Len(rows) /\ Len(rows) \in Nat /\ \A i \in DOMAIN rows : rows[i].time \in Nat
  <2>1. rows \in Seq(TradeRow)
    BY DEF Ordered
  <2>2. DOMAIN rows = 1..Len(rows) /\ Len(rows) \in Nat /\ \A i \in 1..Len(rows) : rows[i] \in TradeRow
    BY <2>1
  <2> QED BY <2>2 DEF TradeRow
<1>2. IsFiniteSet(DOMAIN rows)
  BY <1>1, FS_Interval
<1>3. toEvents(rows) = {EventAt(rows, rows[i].time) : i \in DOMAIN rows}
  BY DEF toEvents, EventAt, RowsAt
<1>4. IsFiniteSet(toEvents(rows))
  <2> DEFINE e == [i \in DOMAIN rows |-> EventAt(rows, rows[i].time)]
  <2>0. \A i \in DOMAIN rows : e[i] = EventAt(rows, rows[i].time)
    OBVIOUS
  <2> HIDE DEF e
  <2>1. toEvents(rows) = {e[i] : i \in DOMAIN rows}
    BY <1>3, <2>0
  <2> QED BY <1>2, <2>1, FiniteImage
<1> QED BY <1>1, <1>2, <1>3, <1>4 DEF EventAt

EventOf(rows, i) == EventAt(rows, rows[i].time)

\* The events are told apart by their times, and each is that of its rows.
LEMMA EventOfRow ==
    ASSUME NEW rows, Ordered(rows), NEW e \in toEvents(rows)
    PROVE  /\ e = EventAt(rows, e.time) /\ e.count = Cardinality(RowsAt(rows, e.time))
           /\ \E i \in DOMAIN rows : e = EventOf(rows, i) /\ e.time = rows[i].time
           /\ \A i \in DOMAIN rows : EventOf(rows, i) = e <=> rows[i].time = e.time
<1>1. PICK i \in DOMAIN rows : e = EventAt(rows, rows[i].time)
  BY EventsAre
<1>2. \A t : EventAt(rows, t).time = t /\ EventAt(rows, t).count = Cardinality(RowsAt(rows, t))
  BY DEF EventAt
<1>3. e.time = rows[i].time
  BY <1>1, <1>2
<1> QED BY <1>1, <1>2, <1>3 DEF EventOf

LEMMA Extremes ==
    ASSUME NEW rows, Ordered(rows), NEW S, S \subseteq toEvents(rows), S # {}
    PROVE  /\ Latest(S) \in S /\ \A f \in S : f.time <= Latest(S).time
           /\ Earliest(S) \in S /\ \A f \in S : Earliest(S).time <= f.time
<1> DEFINE I == {i \in DOMAIN rows : EventOf(rows, i) \in S}
<1>1. DOMAIN rows = 1..Len(rows) /\ Len(rows) \in Nat /\ \A i \in DOMAIN rows : rows[i].time \in Nat
  BY EventsAre
<1>2. I \subseteq 1..Len(rows) /\ I \subseteq Nat /\ I # {}
  BY <1>1, EventOfRow
<1>3. \A f \in S : \E i \in I : f = EventOf(rows, i) /\ f.time = rows[i].time
  BY EventOfRow
<1>4. \A i \in I : EventOf(rows, i) \in S /\ EventOf(rows, i).time = rows[i].time
  BY EventsAre DEF EventOf
<1>5. \A i, j \in I : i <= j => rows[i].time <= rows[j].time
  BY <1>2 DEF Ordered
<1> HIDE DEF I
<1>6. \E e \in S : \A f \in S : f.time <= e.time
  <2>1. NewestOf(I) \in I /\ \A j \in I : j <= NewestOf(I)
    BY <1>1, <1>2, NewestIsLast
  <2> DEFINE e == EventOf(rows, NewestOf(I))
  <2>2. \A f \in S : f.time <= e.time
    BY <1>3, <1>4, <1>5, <2>1
  <2> QED BY <1>4, <2>1, <2>2
<1>7. \E e \in S : \A f \in S : e.time <= f.time
  <2>1. PICK k \in I : \A j \in I : k <= j
    BY <1>2, SmallestExists
  <2> DEFINE e == EventOf(rows, k)
  <2>2. \A f \in S : e.time <= f.time
    BY <1>3, <1>4, <1>5, <2>1
  <2> QED BY <1>4, <2>1, <2>2
<1> QED BY <1>6, <1>7 DEF Latest, Earliest

\* The step line has the price of the last row until a time.
LEMMA LineIsLastPrice ==
    ASSUME NEW rows, Ordered(rows), NEW t \in Int, RowsUntil(rows, t) # {}
    PROVE  ValueAt(toEvents(rows), t) = rows[NewestOf(RowsUntil(rows, t))].price
<1> DEFINE U == RowsUntil(rows, t)
           k == NewestOf(U)
           E == {e \in toEvents(rows) : e.time <= t}
           e0 == EventOf(rows, k)
<1>1. DOMAIN rows = 1..Len(rows) /\ Len(rows) \in Nat /\ \A i \in DOMAIN rows : rows[i].time \in Nat
  BY EventsAre
<1>2. k \in U /\ \A j \in U : j <= k
  BY <1>1, NewestIsLast DEF RowsUntil
<1>3. k \in DOMAIN rows /\ rows[k].time <= t
  BY <1>2 DEF RowsUntil
<1> HIDE DEF k
<1>4. e0 \in toEvents(rows) /\ e0.time = rows[k].time
  BY <1>3, EventsAre DEF EventOf
<1>5. ASSUME NEW f \in E PROVE f.time <= e0.time
  <2>1. PICK i \in DOMAIN rows : f.time = rows[i].time
    BY EventOfRow
  <2>2. i \in U
    BY <2>1 DEF RowsUntil
  <2>3. i <= k
    BY <1>2, <2>2
  <2> QED BY <1>1, <1>3, <1>4, <2>1, <2>3 DEF Ordered
<1>6. e0 \in E
  BY <1>3, <1>4
<1>7. Latest(E) \in E /\ e0.time <= Latest(E).time
  BY <1>6, Extremes
<1>8. Latest(E).time = rows[k].time
  <2>1. Latest(E).time <= e0.time
    BY <1>5, <1>7
  <2>2. Latest(E).time \in Nat
    BY <1>1, <1>7, EventOfRow
  <2> QED BY <1>1, <1>3, <1>4, <1>7, <2>1, <2>2
<1>9. Latest(E) = EventAt(rows, rows[k].time)
  BY <1>7, <1>8, EventOfRow
<1>10. NewestOf(RowsAt(rows, rows[k].time)) = k
  <2> DEFINE A == RowsAt(rows, rows[k].time)
  <2>1. k \in A /\ A \subseteq 1..Len(rows) /\ \A j \in A : j \in U
    BY <1>1, <1>3 DEF RowsAt, RowsUntil
  <2>2. NewestOf(A) \in A /\ k <= NewestOf(A)
    BY <1>1, <2>1, NewestIsLast
  <2>3. NewestOf(A) <= k
    BY <1>2, <2>1, <2>2
  <2> HIDE DEF A
  <2>4. NewestOf(A) \in Nat /\ k \in Nat
    BY <1>1, <1>3, <2>1, <2>2
  <2> QED BY <2>2, <2>3, <2>4 DEF A
<1>11. Latest(E).value = rows[k].price
  BY <1>9, <1>10 DEF EventAt
<1> QED BY <1>11 DEF ValueAt, k

\* Events count the trades they are of.
LEMMA EventTrades ==
    ASSUME NEW rows, Ordered(rows), NEW S, S \subseteq toEvents(rows)
    PROVE  TradesOf(S) = Cardinality({i \in DOMAIN rows : EventOf(rows, i) \in S})
<1> DEFINE I == {i \in DOMAIN rows : EventOf(rows, i) \in S}
           f == [i \in DOMAIN rows |-> EventOf(rows, i)]
           c == [e \in S |-> e.count]
<1>1. IsFiniteSet(I) /\ IsFiniteSet(S)
  BY EventsAre, FS_Subset
<1>2. \A i \in I : f[i] \in S /\ f[i] = EventOf(rows, i) /\ i \in DOMAIN rows
  OBVIOUS
<1>3. DOMAIN c = S
  OBVIOUS
<1>4. ASSUME NEW e \in S PROVE c[e] = Cardinality({i \in I : f[i] = e})
  <2>1. e \in toEvents(rows)
    OBVIOUS
  <2>2. /\ e.count = Cardinality(RowsAt(rows, e.time))
        /\ \A i \in DOMAIN rows : EventOf(rows, i) = e <=> rows[i].time = e.time
    BY <2>1, EventOfRow
  <2>3. \A i \in DOMAIN rows : EventOf(rows, i) = e => i \in I
    OBVIOUS
  <2>4. c[e] = e.count
    OBVIOUS
  <2> HIDE DEF I, f, c
  <2>5. {i \in I : f[i] = e} = RowsAt(rows, e.time)
    BY <1>2, <2>2, <2>3 DEF RowsAt
  <2> QED BY <2>2, <2>4, <2>5
<1>5. TradesOf(S) = SumFunctionOnSet(c, S)
  BY DEF TradesOf
<1> HIDE DEF I, f, c
<1>6. SumFunctionOnSet(c, S) = Cardinality(I)
  BY <1>1, <1>2, <1>3, <1>4, PartsAddUp
<1> QED BY <1>5, <1>6 DEF I

\* All markers of some events, before it is asked whether they are too many.
Grouped(events, from, bucket, lastTime, t) == {e \in events : snapped(e.time, from, bucket, lastTime) = t}
MarkerAt(events, from, bucket, lastTime, t) ==
    [time |-> t, count |-> TradesOf(Grouped(events, from, bucket, lastTime, t))]
AllMarkers(events, from, bucket, lastTime) ==
    {MarkerAt(events, from, bucket, lastTime, snapped(e.time, from, bucket, lastTime)) : e \in events}

LEMMA MarkersAre ==
    ASSUME NEW events, NEW from, NEW bucket, NEW lastTime
    PROVE  \/ toMarkers(events, from, bucket, lastTime) = AllMarkers(events, from, bucket, lastTime)
           \/ toMarkers(events, from, bucket, lastTime) = {}
<1> DEFINE At(e) == snapped(e.time, from, bucket, lastTime)
           markers == {[time |-> t, count |-> TradesOf({e \in events : At(e) = t})] : t \in {At(e) : e \in events}}
<1>1. toMarkers(events, from, bucket, lastTime) = IF Cardinality(markers) <= MaxMarkers THEN markers ELSE {}
  BY DEF toMarkers
<1>2. markers = AllMarkers(events, from, bucket, lastTime)
  BY DEF AllMarkers, MarkerAt, Grouped
<1> HIDE DEF markers
<1> QED BY <1>1, <1>2

\* The rows of some events whose markers are among L.
RowsOf(rows, events, from, bucket, lastTime, L) ==
    {i \in DOMAIN rows :
        /\ EventOf(rows, i) \in events
        /\ MarkerAt(events, from, bucket, lastTime, snapped(rows[i].time, from, bucket, lastTime)) \in L}

\* Markers count the trades of the events they are of.
LEMMA MarkersAdd ==
    ASSUME NEW rows, Ordered(rows), NEW events, events \subseteq toEvents(rows),
           NEW from, NEW bucket, NEW lastTime, NEW L, L \subseteq AllMarkers(events, from, bucket, lastTime)
    PROVE  TradesOf(L) = Cardinality(RowsOf(rows, events, from, bucket, lastTime, L))
<1> DEFINE To(t) == snapped(t, from, bucket, lastTime)
           M(t) == MarkerAt(events, from, bucket, lastTime, t)
           I == {i \in DOMAIN rows : EventOf(rows, i) \in events /\ M(To(rows[i].time)) \in L}
           f == [i \in DOMAIN rows |-> M(To(rows[i].time))]
           c == [m \in L |-> m.count]
<1>1. IsFiniteSet(I) /\ \A i \in I : f[i] \in L /\ f[i] = M(To(rows[i].time)) /\ i \in DOMAIN rows
  BY EventsAre, FS_Subset
<1>2. \A t : M(t).time = t /\ M(t).count = TradesOf(Grouped(events, from, bucket, lastTime, t))
  BY DEF MarkerAt
<1>3. \A m \in L : \E e \in events : m = M(To(e.time)) /\ m.time = To(e.time)
  BY <1>2 DEF AllMarkers
<1>4. IsFiniteSet(L)
  <2> DEFINE g == [e \in events |-> M(To(e.time))]
  <2>1. \A e \in events : g[e] = M(To(e.time))
    OBVIOUS
  <2> HIDE DEF g
  <2>2. L \subseteq {g[e] : e \in events}
    BY <1>3, <2>1
  <2>3. IsFiniteSet(events)
    BY EventsAre, FS_Subset
  <2>4. IsFiniteSet({g[e] : e \in events})
    BY <2>3, FiniteImage
  <2> QED BY <2>2, <2>4, FS_Subset
<1>5. ASSUME NEW m \in L PROVE c[m] = Cardinality({i \in I : f[i] = m})
  <2> DEFINE G == Grouped(events, from, bucket, lastTime, m.time)
  <2>1. m = M(m.time)
    BY <1>2, <1>3
  <2>2. c[m] = TradesOf(G)
    BY <1>2, <2>1
  <2>3. G \subseteq toEvents(rows)
    BY DEF Grouped
  <2>4. TradesOf(G) = Cardinality({i \in DOMAIN rows : EventOf(rows, i) \in G})
    BY <2>3, EventTrades
  <2>5. \A i \in DOMAIN rows : EventOf(rows, i).time = rows[i].time
    BY EventsAre DEF EventOf
  <2>6. {i \in DOMAIN rows : EventOf(rows, i) \in G} = {i \in I : f[i] = m}
    <3>1. ASSUME NEW i \in DOMAIN rows, EventOf(rows, i) \in G PROVE i \in I /\ f[i] = m
      BY <2>1, <2>5, <3>1 DEF Grouped
    <3>2. ASSUME NEW i \in I, f[i] = m PROVE i \in DOMAIN rows /\ EventOf(rows, i) \in G
      <4>1. m = M(To(rows[i].time)) /\ i \in DOMAIN rows /\ EventOf(rows, i) \in events
        BY <1>1, <3>2
      <4>2. m.time = To(rows[i].time)
        BY <1>2, <4>1
      <4> QED BY <2>5, <4>1, <4>2 DEF Grouped
    <3> QED BY <3>1, <3>2
  <2> QED BY <2>2, <2>4, <2>6
<1>6. TradesOf(L) = SumFunctionOnSet(c, L) /\ DOMAIN c = L
  BY DEF TradesOf
<1> HIDE DEF I, f, c
<1>7. SumFunctionOnSet(c, L) = Cardinality(I)
  BY <1>1, <1>4, <1>5, <1>6, PartsAddUp
<1> QED BY <1>6, <1>7 DEF I, RowsOf

\* The grid of a step line from one time to another.
Bucket(from, to) == IF to = from THEN 1 ELSE Ceil(to - from, MaxPoints)
Buckets(from, to) == (to - from) \div Bucket(from, to)
Grid(from, to) == [i \in 1..(Buckets(from, to) + 1) |-> from + (i - 1) * Bucket(from, to)]
GridTime(from, to, i) == from + (i - 1) * Bucket(from, to)
Times(from, to) == IF Last(Grid(from, to)) = to THEN Grid(from, to) ELSE Append(Grid(from, to), to)

LEMMA BucketBounds ==
    ASSUME NEW from \in Nat, NEW to \in Nat, from <= to
    PROVE  /\ Bucket(from, to) \in Nat /\ Bucket(from, to) > 0
           /\ Buckets(from, to) \in Nat /\ Buckets(from, to) <= MaxPoints
           /\ Buckets(from, to) * Bucket(from, to) <= to - from
           /\ to - from < Buckets(from, to) * Bucket(from, to) + Bucket(from, to)
<1> DEFINE b == Bucket(from, to)
           n == Buckets(from, to)
           d == to - from
           c == CeilDiv(d, MaxPoints)
<1>1. MaxPoints \in Nat /\ MaxPoints > 0 /\ d \in Nat
  BY ChartAssumption
<1>2. c \in Nat /\ c * MaxPoints >= d
  BY <1>1, CeilDivBounds
<1>3. b = IF d = 0 THEN 1 ELSE c
  BY DEF Bucket, Ceil, CeilDiv
<1>4. b \in Nat /\ b * MaxPoints >= d /\ b > 0
  <2>1. CASE d = 0
    BY <1>1, <1>3, <2>1
  <2>2. CASE d # 0
    <3>1. c # 0
      <4> HIDE DEF c, d
      <4>1. c = 0 => c * MaxPoints = 0
        BY <1>1
      <4> QED BY <1>1, <1>2, <2>2, <4>1
    <3> HIDE DEF b, c, d
    <3> QED BY <1>2, <1>3, <2>2, <3>1
  <2> QED BY <2>1, <2>2
<1>5. n = d \div b
  BY DEF Buckets
<1> HIDE DEF b, n, d, c
<1>6. n \in Nat /\ n * b <= d /\ d < n * b + b
  BY <1>1, <1>4, <1>5, DivBounds
<1>7. n <= MaxPoints
  <2>1. SUFFICES ASSUME MaxPoints < n PROVE FALSE
    BY <1>1, <1>6
  <2>2. MaxPoints * b < n * b
    BY <1>1, <1>4, <1>6, <2>1, MulStrict
  <2>3. MaxPoints * b = b * MaxPoints /\ MaxPoints * b \in Nat /\ n * b \in Nat
    BY <1>1, <1>4, <1>6
  <2> QED BY <1>1, <1>4, <1>6, <2>2, <2>3
<1> QED BY <1>4, <1>6, <1>7 DEF b, n, d

\* The times of a step line go forward from its first to its last, and are few.
LEMMA TimesGoForward ==
    ASSUME NEW from \in Nat, NEW to \in Nat, from <= to
    PROVE  /\ Times(from, to) \in Seq(Nat)
           /\ Len(Times(from, to)) \in 1..(MaxPoints + 2)
           /\ Buckets(from, to) + 1 <= Len(Times(from, to))
           /\ \A i \in 1..(Buckets(from, to) + 1) : Times(from, to)[i] = GridTime(from, to, i)
           /\ \A i \in 1..(Len(Times(from, to)) - 1) : Times(from, to)[i] < Times(from, to)[i + 1]
           /\ \A i \in 1..Len(Times(from, to)) : from <= Times(from, to)[i] /\ Times(from, to)[i] <= to
           /\ Times(from, to)[Len(Times(from, to))] = to
<1> DEFINE b == Bucket(from, to)
           n == Buckets(from, to)
           g == Grid(from, to)
           at(i) == from + (i - 1) * b
<1>1. /\ b \in Nat /\ b > 0 /\ n \in Nat /\ n <= MaxPoints /\ n * b <= to - from /\ to - from < n * b + b
      /\ MaxPoints \in Nat
  BY BucketBounds, ChartAssumption
<1>2. g = [i \in 1..(n + 1) |-> at(i)]
  BY DEF Grid
<1> HIDE DEF b, n, g
<1>3. ASSUME NEW i \in 1..(n + 1) PROVE at(i) \in Nat /\ from <= at(i) /\ at(i) <= to
  <2>1. i - 1 \in Nat /\ i - 1 <= n
    BY <1>1
  <2>2. (i - 1) * b <= n * b /\ 0 * b <= (i - 1) * b
    BY <1>1, <2>1, MulMono
  <2>3. (i - 1) * b \in Nat /\ n * b \in Nat /\ 0 * b = 0
    BY <1>1, <2>1
  <2> QED BY <1>1, <2>2, <2>3
<1>4. ASSUME NEW i \in 1..n PROVE at(i) < at(i + 1)
  <2>1. (i - 1) * b < (i + 1 - 1) * b
    BY <1>1, MulStrict
  <2>2. (i - 1) * b \in Int /\ (i + 1 - 1) * b \in Int
    BY <1>1
  <2> HIDE DEF b
  <2> QED BY <2>1, <2>2
<1>5. at(n + 1) = from + n * b
  BY <1>1
<1> HIDE DEF at
<1>6. g \in Seq(Nat) /\ Len(g) = n + 1 /\ \A i \in 1..(n + 1) : g[i] = at(i)
  BY <1>1, <1>2, <1>3
<1>7. Last(g) = at(n + 1)
  BY <1>1, <1>6 DEF Last
<1>11. \A i : at(i) = GridTime(from, to, i)
  BY DEF at, b, GridTime
<1>8. n + 1 \in 1..(n + 1)
  BY <1>1
<1>9. CASE Last(g) = to
  <2>1. Times(from, to) = g
    BY <1>9 DEF Times, g
  <2>2. n + 1 \in 1..(MaxPoints + 2) /\ \A i \in 1..n : i \in 1..(n + 1) /\ i + 1 \in 1..(n + 1)
    BY <1>1
  <2>3. \A i \in 1..n : g[i] < g[i + 1]
    BY <1>4, <1>6, <2>2
  <2>4. \A i \in 1..(n + 1) : from <= g[i] /\ g[i] <= to /\ g[i] = GridTime(from, to, i)
    BY <1>3, <1>6, <1>11
  <2>5. g[n + 1] = to
    BY <1>6, <1>7, <1>8, <1>9
  <2>6. Len(g) \in 1..(MaxPoints + 2) /\ n + 1 <= Len(g) /\ g[Len(g)] = to
    BY <1>1, <1>6, <2>2, <2>5
  <2>7. \A i \in 1..(Len(g) - 1) : g[i] < g[i + 1]
    BY <1>1, <1>6, <2>3
  <2>8. \A i \in 1..Len(g) : from <= g[i] /\ g[i] <= to
    BY <1>6, <2>4
  <2> QED BY <1>6, <2>1, <2>4, <2>6, <2>7, <2>8 DEF n
<1>10. CASE Last(g) # to
  <2>1. Times(from, to) = Append(g, to)
    BY <1>10 DEF Times, g
  <2> DEFINE T == Append(g, to)
  <2>2. T \in Seq(Nat) /\ Len(T) = n + 2 /\ T[n + 2] = to /\ \A i \in 1..(n + 1) : T[i] = at(i)
    BY <1>1, <1>6
  <2>3. at(n + 1) < to
    BY <1>3, <1>7, <1>8, <1>10
  <2> HIDE DEF T
  <2>4. ASSUME NEW i \in 1..(n + 2 - 1) PROVE T[i] < T[i + 1]
    <3>1. CASE i = n + 1
      BY <1>1, <1>8, <2>2, <2>3, <3>1
    <3>2. CASE i # n + 1
      <4>1. i \in 1..n /\ i \in 1..(n + 1) /\ i + 1 \in 1..(n + 1)
        BY <1>1, <3>2
      <4> QED BY <1>4, <2>2, <4>1
    <3> QED BY <3>1, <3>2
  <2>5. ASSUME NEW i \in 1..(n + 2) PROVE from <= T[i] /\ T[i] <= to
    <3>1. CASE i = n + 2
      BY <2>2, <3>1
    <3>2. CASE i # n + 2
      <4>1. i \in 1..(n + 1)
        BY <1>1, <3>2
      <4> QED BY <1>3, <2>2, <4>1
    <3> QED BY <3>1, <3>2
  <2>6. n + 2 \in 1..(MaxPoints + 2)
    BY <1>1
  <2>7. Times(from, to) = T
    BY <2>1 DEF T
  <2>8. \A i \in 1..(n + 1) : T[i] = GridTime(from, to, i)
    BY <1>11, <2>2
  <2>9. n + 1 <= Len(T) /\ Len(T) - 1 = n + 2 - 1 /\ Len(T) \in 1..(MaxPoints + 2) /\ T[Len(T)] = to
    BY <1>1, <2>2
  <2>10. \A i \in 1..(Len(T) - 1) : T[i] < T[i + 1]
    BY <2>4, <2>9
  <2>11. \A i \in 1..Len(T) : from <= T[i] /\ T[i] <= to
    BY <2>2, <2>5
  <2> QED BY <2>2, <2>7, <2>8, <2>9, <2>10, <2>11 DEF n
<1> QED BY <1>9, <1>10

\* A marker stands on a time of the line, and not before its event.
LEMMA SnapsForward ==
    ASSUME NEW from \in Nat, NEW to \in Nat, NEW t \in from..to
    PROVE  /\ t <= snapped(t, from, Bucket(from, to), to)
           /\ snapped(t, from, Bucket(from, to), to) \in Nat
           /\ \E i \in 1..Len(Times(from, to)) : Times(from, to)[i] = snapped(t, from, Bucket(from, to), to)
<1> DEFINE b == Bucket(from, to)
           n == Buckets(from, to)
           q == CeilDiv(t - from, b)
           T == Times(from, to)
           s == snapped(t, from, b, to)
<1>0. from <= to /\ t - from \in Nat /\ t \in Nat
  OBVIOUS
<1>1. b \in Nat /\ b > 0 /\ n \in Nat /\ to - from < n * b + b
  BY <1>0, BucketBounds
<1>2. /\ Len(T) \in Nat /\ Len(T) > 0 /\ n + 1 <= Len(T) /\ T[Len(T)] = to
      /\ \A i \in 1..(n + 1) : T[i] = GridTime(from, to, i)
  <2>1. /\ Len(T) \in 1..(MaxPoints + 2) /\ n + 1 <= Len(T) /\ T[Len(T)] = to
        /\ \A i \in 1..(n + 1) : T[i] = GridTime(from, to, i)
    BY <1>0, TimesGoForward
  <2> HIDE DEF T, n
  <2> QED BY <2>1, ChartAssumption
<1>3. s = IF from + q * b < to THEN from + q * b ELSE to
  BY DEF snapped, Ceil, CeilDiv
<1> HIDE DEF b, n, s, T
<1>4. q \in Nat /\ q * b >= t - from
  BY <1>0, <1>1, CeilDivBounds
<1>5. CASE from + q * b < to
  <2> HIDE DEF q
  <2>1. q <= n
    <3>1. SUFFICES ASSUME n + 1 <= q PROVE FALSE
      BY <1>1, <1>4
    <3>2. (n + 1) * b <= q * b
      BY <1>1, <1>4, <3>1, MulMono
    <3>3. (n + 1) * b = n * b + b /\ n * b \in Nat /\ q * b \in Nat
      BY <1>1, <1>4
    <3> QED BY <1>0, <1>1, <1>5, <3>2, <3>3
  <2>2. q + 1 \in 1..(n + 1) /\ q + 1 \in 1..Len(T) /\ q + 1 - 1 = q
    BY <1>1, <1>2, <1>4, <2>1
  <2>3. T[q + 1] = from + q * b
    <3>1. T[q + 1] = GridTime(from, to, q + 1)
      BY <1>2, <2>2
    <3> DEFINE j == q + 1
    <3>2. GridTime(from, to, j) = from + (j - 1) * b
      BY DEF GridTime, b
    <3>3. j - 1 = q
      BY <1>4
    <3> QED BY <3>1, <3>2, <3>3
  <2>4. s = from + q * b /\ q * b \in Nat
    BY <1>1, <1>3, <1>4, <1>5
  <2> QED BY <1>0, <1>4, <2>2, <2>3, <2>4 DEF s, b, T
<1>6. CASE ~(from + q * b < to)
  <2>1. s = to /\ Len(T) \in 1..Len(T)
    BY <1>2, <1>3, <1>6
  <2> QED BY <1>2, <2>1 DEF s, b, T
<1> QED BY <1>5, <1>6

\* What buildPriceSeries draws, part by part.
EventsIn(rows, w, at) == {e \in toEvents(rows) : InWindow(e, w, at)}
FromOf(rows, w, at) ==
    IF toEvents(rows) \ EventsIn(rows, w, at) # {} THEN at - w ELSE Earliest(EventsIn(rows, w, at)).time
EndOf(rows, w, at) ==
    IF EventsIn(rows, w, at) # {} THEN Latest(EventsIn(rows, w, at)).time ELSE FromOf(rows, w, at)
HasTail(rows, w, at, ext) == ext /\ at > EndOf(rows, w, at)
ToOf(rows, w, at, ext) == IF HasTail(rows, w, at, ext) THEN at ELSE EndOf(rows, w, at)
Line(rows, times) == [i \in DOMAIN times |-> [time |-> times[i], value |-> ValueAt(toEvents(rows), times[i])]]
Drawn(rows, w, at, ext) ==
    LET from == FromOf(rows, w, at)
        to == ToOf(rows, w, at, ext)
    IN [points |-> Line(rows, Times(from, to)),
        markers |-> toMarkers(EventsIn(rows, w, at), from, Bucket(from, to), to),
        startsAtOldestHeldTrade |-> toEvents(rows) \ EventsIn(rows, w, at) = {}]
Drawable(rows, w, at, ext) ==
    toEvents(rows) # {} /\ (EventsIn(rows, w, at) # {} \/ HasTail(rows, w, at, ext))

LEMMA SeriesIs ==
    ASSUME NEW rows, NEW at, NEW ext, NEW w
    PROVE  buildPriceSeries(rows, at, ext, w) = IF Drawable(rows, w, at, ext) THEN Drawn(rows, w, at, ext) ELSE NoSeries
<1> DEFINE all == toEvents(rows)
           events == {e \in all : InWindow(e, w, at)}
           carried == all \ events
           from == IF carried # {} THEN at - w ELSE Earliest(events).time
           lastEventTime == IF events # {} THEN Latest(events).time ELSE from
           hasTail == ext /\ at > lastEventTime
           to == IF hasTail THEN at ELSE lastEventTime
           bucket == IF to = from THEN 1 ELSE Ceil(to - from, MaxPoints)
           grid == [i \in 1..((to - from) \div bucket + 1) |-> from + (i - 1) * bucket]
           times == IF Last(grid) = to THEN grid ELSE Append(grid, to)
           line == [i \in DOMAIN times |-> [time |-> times[i], value |-> ValueAt(all, times[i])]]
           marks == toMarkers(events, from, bucket, to)
<1>1. buildPriceSeries(rows, at, ext, w) =
        IF all = {} \/ (events = {} /\ ~hasTail) THEN NoSeries
        ELSE [points |-> line, markers |-> marks, startsAtOldestHeldTrade |-> carried = {}]
  BY DEF buildPriceSeries
<1>2. events = EventsIn(rows, w, at)
  BY DEF EventsIn
<1> HIDE DEF events
<1>3. from = FromOf(rows, w, at)
  BY <1>2 DEF FromOf
<1> HIDE DEF from
<1>4. lastEventTime = EndOf(rows, w, at)
  BY <1>2, <1>3 DEF EndOf
<1> HIDE DEF lastEventTime
<1>5. hasTail = HasTail(rows, w, at, ext)
  BY <1>4 DEF HasTail
<1> HIDE DEF hasTail
<1>6. to = ToOf(rows, w, at, ext)
  BY <1>4, <1>5 DEF ToOf
<1> HIDE DEF to
<1>7. bucket = Bucket(from, to)
  BY DEF Bucket
<1>8. grid = Grid(from, to)
  <2>1. (to - from) \div bucket = Buckets(from, to)
    BY <1>7 DEF Buckets
  <2> HIDE DEF bucket
  <2> QED BY <1>7, <2>1 DEF Grid
<1> HIDE DEF bucket, grid
<1>9. times = Times(from, to)
  BY <1>8 DEF Times
<1> HIDE DEF times
<1>10. line = Line(rows, times)
  BY DEF Line
<1>11. marks = toMarkers(events, from, Bucket(from, to), to)
  BY <1>7
<1>12. carried = toEvents(rows) \ EventsIn(rows, w, at)
  BY <1>2
<1>13. Drawn(rows, w, at, ext) = [points |-> line, markers |-> marks, startsAtOldestHeldTrade |-> carried = {}]
  BY <1>2, <1>3, <1>6, <1>9, <1>10, <1>11, <1>12 DEF Drawn
<1>14. Drawable(rows, w, at, ext) <=> ~(all = {} \/ (events = {} /\ ~hasTail))
  BY <1>2, <1>5 DEF Drawable
<1> HIDE DEF all, carried, line, marks
<1> QED BY <1>1, <1>13, <1>14

\* The line spans the rows of its range, starts at a row or after one, and ends at no earlier one.
LEMMA LineSpans ==
    ASSUME NEW rows, Ordered(rows), NEW at \in Nat, NEW ext \in BOOLEAN, NEW w \in Nat, Drawable(rows, w, at, ext)
    PROVE  /\ FromOf(rows, w, at) \in Nat /\ ToOf(rows, w, at, ext) \in Nat
           /\ FromOf(rows, w, at) <= ToOf(rows, w, at, ext)
           /\ \E i \in DOMAIN rows : rows[i].time <= FromOf(rows, w, at)
           /\ \A i \in DOMAIN rows : rows[i].time <= ToOf(rows, w, at, ext)
           /\ \A e \in EventsIn(rows, w, at) : e.time \in FromOf(rows, w, at)..ToOf(rows, w, at, ext)
<1> DEFINE all == toEvents(rows)
           events == EventsIn(rows, w, at)
           carried == all \ events
           from == FromOf(rows, w, at)
           last == EndOf(rows, w, at)
           to == ToOf(rows, w, at, ext)
<1>1. /\ \A i \in DOMAIN rows : rows[i].time \in Nat /\ EventOf(rows, i) \in all /\ EventOf(rows, i).time = rows[i].time
      /\ \A e \in all : e.time \in Nat /\ \E i \in DOMAIN rows : e.time = rows[i].time
  BY EventsAre, EventOfRow DEF EventOf
<1>2. events \subseteq all /\ all # {} /\ \A e \in all : e \in events <=> (w = 0 \/ e.time >= at - w)
  BY DEF EventsIn, InWindow, Drawable
<1>3. events # {} => /\ Latest(events) \in events /\ \A f \in events : f.time <= Latest(events).time
                     /\ Earliest(events) \in events /\ \A f \in events : Earliest(events).time <= f.time
  BY <1>2, Extremes
<1>4. /\ from = IF carried # {} THEN at - w ELSE Earliest(events).time
      /\ last = IF events # {} THEN Latest(events).time ELSE from
      /\ events = {} => ext /\ at > last
      /\ to = IF ext /\ at > last THEN at ELSE last
  BY DEF FromOf, EndOf, HasTail, ToOf, Drawable
<1> HIDE DEF all, events, from, last, to
<1>5. /\ from \in Nat /\ \A e \in carried : e.time < from
      /\ \A e \in events : from <= e.time /\ e.time \in Nat
      /\ \E e \in all : e.time <= from
  <2>1. CASE carried # {}
    <3>1. \A e \in carried : e \in all /\ e.time \in Nat /\ e.time < at - w
      BY <1>1, <1>2
    <3>2. PICK e \in carried : e \in all /\ e.time \in Nat /\ e.time < at - w
      BY <2>1, <3>1
    <3>3. at - w \in Nat /\ w # 0 /\ from = at - w
      BY <1>2, <1>4, <2>1, <3>2
    <3> HIDE DEF carried
    <3>4. e \in all /\ e.time <= from
      BY <3>2, <3>3
    <3> QED BY <1>1, <1>2, <3>1, <3>3, <3>4
  <2>2. CASE carried = {}
    <3>1. events = all /\ events # {}
      BY <1>2, <2>2
    <3>2. Earliest(events) \in all /\ from = Earliest(events).time
      BY <1>3, <1>4, <2>2, <3>1
    <3>3. from \in Nat /\ Earliest(events).time <= from
      BY <1>1, <3>2
    <3> QED BY <1>1, <1>2, <1>3, <2>2, <3>1, <3>2, <3>3
  <2> QED BY <2>1, <2>2
<1>6. last \in Nat /\ from <= last /\ \A e \in events : e.time <= last
  BY <1>1, <1>2, <1>3, <1>4, <1>5
<1>7. to \in Nat /\ last <= to
  BY <1>4, <1>6
<1>8. \A e \in all : e.time <= to
  <2> TAKE e \in all
  <2>1. e.time <= last
    <3>1. CASE e \in events
      BY <1>6, <3>1
    <3>2. CASE e \notin events
      <4>1. e.time < from /\ e.time \in Nat
        BY <1>1, <1>5, <3>2
      <4> QED BY <1>5, <1>6, <4>1
    <3> QED BY <3>1, <3>2
  <2>2. e.time \in Nat
    BY <1>1
  <2> QED BY <1>6, <1>7, <2>1, <2>2
<1>9. from <= to
  BY <1>5, <1>6, <1>7
<1>10. \A i \in DOMAIN rows : rows[i].time <= to
  BY <1>1, <1>8
<1>11. \E i \in DOMAIN rows : rows[i].time <= from
  BY <1>1, <1>5
<1>12. \A e \in events : e.time \in from..to
  BY <1>2, <1>5, <1>7, <1>8
<1> QED BY <1>5, <1>7, <1>9, <1>10, <1>11, <1>12 DEF from, to, events

\* What SeriesIsTheHistory asks of a line, and of the markers on it, for rows held.
LineTrue(points, rows) ==
    /\ \A i \in 1..(Len(points) - 1) : points[i].time < points[i + 1].time
    /\ \A i \in DOMAIN points : points[i].value = rows[NewestOf(RowsUntil(rows, points[i].time))].price
    /\ Len(points) <= MaxPoints + 2
    /\ Last(points).value = rows[Len(rows)].price

RowsIn(rows, w, at) == {i \in DOMAIN rows : w = 0 \/ rows[i].time >= at - w}

MarkersTrue(markers, points, rows, w, at) ==
    /\ markers # {} => TradesOf(markers) = Cardinality(RowsIn(rows, w, at))
    /\ \A m \in markers :
         /\ \E i \in DOMAIN points : points[i].time = m.time
         /\ Cardinality(RowsIn(rows, w, at) \cap RowsUntil(rows, m.time)) >= TradesOf({l \in markers : l.time <= m.time})

\* The rows until a time, of which some are until another.
Spans(rows, from, to) ==
    /\ from \in Nat /\ to \in Nat /\ from <= to
    /\ \E i \in DOMAIN rows : rows[i].time <= from
    /\ \A i \in DOMAIN rows : rows[i].time <= to

OnTimes(points, times) ==
    DOMAIN points = 1..Len(times) /\ \A i \in 1..Len(times) : points[i].time = times[i]

LEMMA LineIsTrue ==
    ASSUME NEW rows, Ordered(rows), NEW from, NEW to, Spans(rows, from, to)
    PROVE  LineTrue(Line(rows, Times(from, to)), rows) /\ OnTimes(Line(rows, Times(from, to)), Times(from, to))
<1> DEFINE T == Times(from, to)
           p == Line(rows, T)
           n == Len(T)
<1>0. /\ from \in Nat /\ to \in Nat /\ from <= to
      /\ \E i \in DOMAIN rows : rows[i].time <= from
      /\ \A i \in DOMAIN rows : rows[i].time <= to
  BY DEF Spans
<1>1. /\ T \in Seq(Nat) /\ n \in 1..(MaxPoints + 2) /\ T[n] = to
      /\ \A i \in 1..(n - 1) : T[i] < T[i + 1]
      /\ \A i \in 1..n : from <= T[i] /\ T[i] <= to
  BY <1>0, TimesGoForward
<1>2. MaxPoints \in Nat /\ n \in Nat /\ n >= 1 /\ n \in 1..n /\ n <= MaxPoints + 2
  BY <1>1, ChartAssumption
<1>3. DOMAIN T = 1..n /\ \A i \in 1..n : T[i] \in Nat
  BY <1>1
<1> HIDE DEF T, n
<1>4. DOMAIN p = 1..n /\ \A i \in 1..n : p[i].time = T[i] /\ p[i].value = ValueAt(toEvents(rows), T[i])
  BY <1>3 DEF Line
<1>5. Len(p) = n
  BY <1>2, <1>4
<1> HIDE DEF p
<1>6. DOMAIN rows = 1..Len(rows) /\ Len(rows) \in Nat /\ \A i \in DOMAIN rows : rows[i].time \in Nat
  BY EventsAre
<1>7. ASSUME NEW i \in 1..n PROVE p[i].value = rows[NewestOf(RowsUntil(rows, T[i]))].price
  <2>1. PICK k \in DOMAIN rows : rows[k].time <= from
    BY <1>0
  <2>2. rows[k].time <= T[i] /\ T[i] \in Int
    BY <1>0, <1>1, <1>3, <1>6, <2>1
  <2>3. RowsUntil(rows, T[i]) # {}
    BY <2>2 DEF RowsUntil
  <2>4. ValueAt(toEvents(rows), T[i]) = rows[NewestOf(RowsUntil(rows, T[i]))].price
    BY <2>2, <2>3, LineIsLastPrice
  <2> QED BY <1>4, <2>4
<1>8. NewestOf(RowsUntil(rows, to)) = Len(rows)
  <2>1. RowsUntil(rows, to) = 1..Len(rows) /\ RowsUntil(rows, to) # {}
    BY <1>0, <1>6 DEF RowsUntil
  <2>2. Len(rows) \in RowsUntil(rows, to)
    BY <1>6, <2>1
  <2>3. /\ NewestOf(RowsUntil(rows, to)) \in RowsUntil(rows, to)
        /\ Len(rows) <= NewestOf(RowsUntil(rows, to))
    BY <1>6, <2>1, <2>2, NewestIsLast
  <2> QED BY <1>6, <2>1, <2>3
<1>9. Last(p).value = rows[Len(rows)].price
  <2>1. p[n].value = rows[NewestOf(RowsUntil(rows, T[n]))].price
    BY <1>2, <1>7
  <2>2. Last(p) = p[n]
    BY <1>5 DEF Last
  <2> QED BY <1>1, <1>8, <2>1, <2>2
<1>10. \A i \in 1..(n - 1) : i \in 1..n /\ i + 1 \in 1..n
  BY <1>2
<1>11. LineTrue(p, rows)
  <2>1. \A i \in 1..(Len(p) - 1) : p[i].time < p[i + 1].time
    BY <1>1, <1>4, <1>5, <1>10
  <2>2. \A i \in DOMAIN p : p[i].value = rows[NewestOf(RowsUntil(rows, p[i].time))].price
    BY <1>4, <1>7
  <2>3. Len(p) <= MaxPoints + 2
    BY <1>2, <1>5
  <2> QED BY <1>9, <2>1, <2>2, <2>3 DEF LineTrue
<1> QED BY <1>4, <1>11 DEF p, T, n, OnTimes

LEMMA MarkersAreTrue ==
    ASSUME NEW rows, Ordered(rows), NEW w \in Nat, NEW at \in Nat, NEW from \in Nat, NEW to \in Nat,
           \A e \in EventsIn(rows, w, at) : e.time \in from..to,
           NEW points, OnTimes(points, Times(from, to))
    PROVE  MarkersTrue(toMarkers(EventsIn(rows, w, at), from, Bucket(from, to), to), points, rows, w, at)
<1> DEFINE b == Bucket(from, to)
           events == EventsIn(rows, w, at)
           M == toMarkers(events, from, b, to)
           A == AllMarkers(events, from, b, to)
           To(t) == snapped(t, from, b, to)
           I == RowsIn(rows, w, at)
           Of(L) == {i \in DOMAIN rows : /\ EventOf(rows, i) \in events
                                         /\ MarkerAt(events, from, b, to, To(rows[i].time)) \in L}
<1>1. /\ DOMAIN rows = 1..Len(rows) /\ IsFiniteSet(DOMAIN rows)
      /\ \A i \in DOMAIN rows : EventOf(rows, i) \in toEvents(rows) /\ EventOf(rows, i).time = rows[i].time
      /\ \A i \in DOMAIN rows : rows[i].time \in Nat
  BY EventsAre DEF EventOf
<1>2. events \subseteq toEvents(rows) /\ \A e \in toEvents(rows) : e \in events <=> (w = 0 \/ e.time >= at - w)
  BY DEF EventsIn, InWindow
<1>3. \A i \in DOMAIN rows : EventOf(rows, i) \in events <=> i \in I
  BY <1>1, <1>2 DEF RowsIn
<1>4. M = A \/ M = {}
  BY MarkersAre
<1>5. ASSUME NEW L, L \subseteq A PROVE TradesOf(L) = Cardinality(Of(L))
  <2>2. L \subseteq AllMarkers(events, from, b, to)
    BY <1>5
  <2> HIDE DEF events, b
  <2>1. TradesOf(L) = Cardinality(RowsOf(rows, events, from, b, to, L))
    BY <1>2, <2>2, MarkersAdd
  <2> QED BY <2>1 DEF RowsOf
<1>6. ASSUME NEW e \in events
      PROVE  /\ e.time <= To(e.time) /\ To(e.time) \in Nat /\ e.time \in Nat
             /\ \E i \in DOMAIN points : points[i].time = To(e.time)
  <2>1. e.time \in from..to
    OBVIOUS
  <2> DEFINE t == e.time
  <2> HIDE DEF t
  <2>2. t \in from..to
    BY <2>1 DEF t
  <2>3. /\ t <= snapped(t, from, Bucket(from, to), to)
        /\ snapped(t, from, Bucket(from, to), to) \in Nat
        /\ \E i \in 1..Len(Times(from, to)) : Times(from, to)[i] = snapped(t, from, Bucket(from, to), to)
    BY <2>2, SnapsForward
  <2>4. \E i \in DOMAIN points : points[i].time = snapped(t, from, Bucket(from, to), to)
    BY <2>3 DEF OnTimes
  <2> QED BY <2>2, <2>3, <2>4 DEF t
<1>7. \A m \in A : \E e \in events : m.time = To(e.time)
  BY DEF AllMarkers, MarkerAt
<1>8. \A t : MarkerAt(events, from, b, to, t).time = t
  BY DEF MarkerAt
<1>9. \A e \in events : MarkerAt(events, from, b, to, To(e.time)) \in A
  BY DEF AllMarkers
<1> HIDE DEF M, A, events, b, To
<1>10. M # {} => TradesOf(M) = Cardinality(I)
  <2>1. Of(A) = I
    <3>1. I \subseteq DOMAIN rows
      BY DEF RowsIn
    <3>2. \A i \in I : EventOf(rows, i) \in events /\ EventOf(rows, i).time = rows[i].time
      BY <1>1, <1>3, <3>1
    <3>3. \A i \in I : MarkerAt(events, from, b, to, To(rows[i].time)) \in A
      BY <1>9, <3>2
    <3> HIDE DEF I
    <3> QED BY <1>3, <3>1, <3>2, <3>3
  <2>2. M = A => TradesOf(M) = Cardinality(Of(A))
    BY <1>5
  <2> QED BY <1>4, <2>1, <2>2
<1>11. ASSUME NEW m \in M
       PROVE  /\ \E i \in DOMAIN points : points[i].time = m.time
              /\ Cardinality(I \cap RowsUntil(rows, m.time)) >= TradesOf({l \in M : l.time <= m.time})
  <2> DEFINE L == {l \in M : l.time <= m.time}
             U == I \cap RowsUntil(rows, m.time)
  <2>1. m \in A /\ L \subseteq A
    BY <1>4
  <2>2. PICK e \in events : m.time = To(e.time)
    BY <1>7, <2>1
  <2>3. m.time \in Nat /\ \E i \in DOMAIN points : points[i].time = m.time
    BY <1>6, <2>2
  <2>4. Of(L) \subseteq U
    <3>1. ASSUME NEW i \in Of(L) PROVE i \in I /\ i \in DOMAIN rows /\ rows[i].time <= m.time
      <4>1. i \in DOMAIN rows /\ EventOf(rows, i) \in events /\ MarkerAt(events, from, b, to, To(rows[i].time)) \in L
        BY <3>1
      <4>2. i \in I /\ EventOf(rows, i).time = rows[i].time /\ rows[i].time \in Nat
        BY <1>1, <1>3, <4>1
      <4>3. To(rows[i].time) <= m.time
        BY <1>8, <4>1
      <4>4. rows[i].time <= To(rows[i].time) /\ To(rows[i].time) \in Nat
        BY <1>6, <4>1, <4>2
      <4> HIDE DEF I
      <4> QED BY <2>3, <4>1, <4>2, <4>3, <4>4
    <3> HIDE DEF I, Of, L
    <3> QED BY <3>1 DEF RowsUntil
  <2>5. IsFiniteSet(U)
    <3>1. U \subseteq DOMAIN rows
      BY DEF RowsUntil
    <3> HIDE DEF U
    <3> QED BY <1>1, <3>1, FS_Subset
  <2> HIDE DEF U, I, L, Of
  <2>6. IsFiniteSet(Of(L)) /\ Cardinality(Of(L)) <= Cardinality(U) /\ Cardinality(U) \in Nat /\ Cardinality(Of(L)) \in Nat
    BY <2>4, <2>5, FS_Subset, FS_CardinalityType
  <2>7. TradesOf(L) = Cardinality(Of(L))
    BY <1>5, <2>1
  <2> QED BY <2>3, <2>6, <2>7 DEF U, L
<1> QED BY <1>10, <1>11 DEF M, events, b, MarkersTrue

LEMMA DrawnIsTrue ==
    ASSUME NEW rows, Ordered(rows), NEW at \in Nat, NEW ext \in BOOLEAN, NEW w \in Nat,
           NEW s, s = buildPriceSeries(rows, at, ext, w), s.points # <<>>
    PROVE  LineTrue(s.points, rows) /\ MarkersTrue(s.markers, s.points, rows, w, at)
<1> DEFINE from == FromOf(rows, w, at)
           to == ToOf(rows, w, at, ext)
<1>1. s = IF Drawable(rows, w, at, ext) THEN Drawn(rows, w, at, ext) ELSE NoSeries
  BY SeriesIs
<1>2. Drawable(rows, w, at, ext) /\ s = Drawn(rows, w, at, ext)
  BY <1>1 DEF NoSeries
<1>3. /\ s.points = Line(rows, Times(from, to))
      /\ s.markers = toMarkers(EventsIn(rows, w, at), from, Bucket(from, to), to)
  BY <1>2 DEF Drawn
<1>4. /\ from \in Nat /\ to \in Nat /\ from <= to
      /\ \E i \in DOMAIN rows : rows[i].time <= from
      /\ \A i \in DOMAIN rows : rows[i].time <= to
      /\ \A e \in EventsIn(rows, w, at) : e.time \in from..to
  BY <1>2, LineSpans
<1> HIDE DEF from, to
<1>5. LineTrue(Line(rows, Times(from, to)), rows) /\ OnTimes(Line(rows, Times(from, to)), Times(from, to))
  <2>1. Spans(rows, from, to)
    BY <1>4 DEF Spans
  <2> QED BY <2>1, LineIsTrue
<1> DEFINE p == s.points
<1>6. p = Line(rows, Times(from, to)) /\ LineTrue(p, rows) /\ OnTimes(p, Times(from, to))
  BY <1>3, <1>5
<1> HIDE DEF p
<1>7. MarkersTrue(toMarkers(EventsIn(rows, w, at), from, Bucket(from, to), to), p, rows, w, at)
  BY <1>4, <1>6, MarkersAreTrue
<1> QED BY <1>3, <1>6, <1>7 DEF p

-----------------------------------------------------------------------------
(* The chart's steps.                                                       *)

Settled == \A i \in 1..(Len(book) - 1) : book[i].time # Last(book).time

ChartTypes == clock \in Nat /\ now \in Nat /\ range \in Nat /\ closed \in BOOLEAN
BookInOrder == Ordered(book) /\ \A i \in 1..Len(book) : book[i].time <= clock

\* rows are the newest of n trades of the book.
NewestHeld(rows, n) ==
    /\ Ordered(rows) /\ n \in 0..Len(book)
    /\ Len(rows) = IF n > HistoryLimit THEN HistoryLimit ELSE n
    /\ n = Len(book) /\ Settled /\ rows # <<>> => rows[Len(rows)].price = book[Len(book)].price

ChartInv ==
    /\ ChartTypes /\ BookInOrder /\ NewestHeld(held, heldOf)
    /\ series = buildPriceSeries(held, now, ~closed, range)
    /\ ViewIsTheReaders

LEMMA OrderedRows ==
    ASSUME NEW rows, Ordered(rows)
    PROVE  rows \in Seq(TradeRow) /\ Len(rows) \in Nat /\ \A i \in 1..Len(rows) : rows[i] \in TradeRow /\ rows[i].time \in Nat
<1>1. rows \in Seq(TradeRow)
  BY DEF Ordered
<1>2. Len(rows) \in Nat /\ \A i \in 1..Len(rows) : rows[i] \in TradeRow
  BY <1>1
<1> QED BY <1>1, <1>2 DEF TradeRow

\* An answer to the poll holds the newest trades of the book.
LEMMA TradesFetched ==
    ASSUME Ordered(book), NEW order \in ServerOrders
    PROVE  NewestHeld(fetchTradesIn(order), Len(book))
<1> DEFINE D == 1..Len(book)
           n == Len(book)
           k == IF n > HistoryLimit THEN n - HistoryLimit + 1 ELSE 1
           rows == fetchTradesIn(order)
<1>1. book \in Seq(TradeRow) /\ n \in Nat /\ DOMAIN book = D /\ \A i \in D : book[i] \in TradeRow /\ book[i].time \in Nat
  <2>1. book \in Seq(TradeRow)
    BY DEF Ordered
  <2> QED BY <2>1, OrderedRows
<1>2. PICK by \in Bijection(D, D) : /\ order = [i \in D |-> book[by[i]]]
                                    /\ \A i \in D : book[by[i]].time = book[i].time
  BY <1>1 DEF ServerOrders
<1>3. \A i \in D : by[i] \in D
  BY DEF Bijection, Injection
<1>4. \A i \in D : order[i] = book[by[i]] /\ order[i] \in TradeRow /\ order[i].time = book[i].time
  BY <1>1, <1>2, <1>3
<1>5. order \in Seq(TradeRow) /\ Len(order) = n /\ DOMAIN order = D
  BY <1>1, <1>2, <1>4
<1>6. HistoryLimit \in Nat /\ HistoryLimit >= 1
  BY ChartAssumption
<1>7. k \in Nat /\ k >= 1 /\ k <= n + 1 /\ n - k + 1 = IF n > HistoryLimit THEN HistoryLimit ELSE n
  BY <1>1, <1>6
<1> HIDE DEF k, n
<1>8. rows = SubSeq(order, k, n)
  BY <1>5 DEF fetchTradesIn, k
<1> HIDE DEF rows
<1>10. /\ 1 + n - k \in Nat /\ 1 + n - k = n - k + 1
       /\ \A i \in 1..(1 + n - k) : i + k - 1 \in D
  BY <1>1, <1>7 DEF n
<1>11. /\ rows \in Seq(TradeRow) /\ Len(rows) = 1 + n - k
       /\ \A i \in 1..(1 + n - k) : rows[i] = order[i + k - 1]
  BY <1>1, <1>5, <1>7, <1>8, <1>10
<1>12. Ordered(rows)
  <2>1. ASSUME NEW i \in 1..Len(rows), NEW j \in 1..Len(rows), i <= j PROVE rows[i].time <= rows[j].time
    <3> DEFINE a == i + k - 1
               c == j + k - 1
    <3>1. a \in D /\ c \in D /\ rows[i] = order[a] /\ rows[j] = order[c]
      BY <1>10, <1>11
    <3>2. a <= c
      BY <1>7, <1>10, <1>11, <2>1
    <3> HIDE DEF a, c
    <3>3. book[a].time <= book[c].time
      BY <3>1, <3>2 DEF Ordered
    <3> QED BY <1>4, <3>1, <3>3
  <2> QED BY <1>11, <2>1 DEF Ordered
<1>13. ASSUME Settled, rows # <<>> PROVE rows[Len(rows)].price = book[n].price
  <2>1. 1 + n - k >= 1
    <3>1. Len(rows) # 0
      BY <1>11, <1>13
    <3> QED BY <1>10, <1>11, <3>1
  <2>2. Len(rows) \in 1..(1 + n - k) /\ Len(rows) + k - 1 = n
    BY <1>1, <1>7, <1>10, <1>11, <2>1
  <2>3. n \in D /\ rows[Len(rows)] = order[n]
    BY <1>10, <1>11, <2>2
  <2>4. by[n] \in D /\ book[by[n]].time = book[n].time /\ order[n] = book[by[n]]
    BY <1>2, <1>3, <1>4, <2>3
  <2>5. \A i \in 1..(n - 1) : book[i].time # book[n].time
    BY <1>13 DEF Settled, Last, n
  <2>6. by[n] = n
    <3>1. SUFFICES ASSUME by[n] # n PROVE FALSE
      OBVIOUS
    <3>2. by[n] \in 1..(n - 1)
      BY <1>1, <2>4, <3>1 DEF n
    <3> QED BY <2>4, <2>5, <3>2
  <2> QED BY <2>3, <2>4, <2>6
<1>14. n \in 0..n
  BY <1>1
<1> QED BY <1>7, <1>10, <1>11, <1>12, <1>13, <1>14 DEF NewestHeld, rows, n

\* What is drawn has points to view.
LEMMA ViewExists ==
    ASSUME NEW rows, Ordered(rows), NEW at \in Nat, NEW ext \in BOOLEAN, NEW w \in Nat,
           NEW s, s = buildPriceSeries(rows, at, ext, w), s.points # <<>>
    PROVE  WholeSeries(s) # UNREAD /\ rows # <<>>
<1>1. s = IF Drawable(rows, w, at, ext) THEN Drawn(rows, w, at, ext) ELSE NoSeries
  BY SeriesIs
<1>2. Drawable(rows, w, at, ext) /\ s = Drawn(rows, w, at, ext)
  BY <1>1 DEF NoSeries
<1> DEFINE from == FromOf(rows, w, at)
           to == ToOf(rows, w, at, ext)
           T == Times(from, to)
           p == Line(rows, T)
<1>3. s.points = p
  BY <1>2 DEF Drawn
<1>4. /\ from \in Nat /\ to \in Nat /\ from <= to
      /\ \E i \in DOMAIN rows : rows[i].time <= from
      /\ \A i \in DOMAIN rows : rows[i].time <= to
  BY <1>2, LineSpans
<1> HIDE DEF from, to
<1>5. Len(T) \in 1..(MaxPoints + 2)
  BY <1>4, TimesGoForward
<1>6. DOMAIN p = 1..Len(T)
  <2>1. Spans(rows, from, to)
    BY <1>4 DEF Spans
  <2> QED BY <2>1, LineIsTrue DEF OnTimes
<1> HIDE DEF p, T
<1>7. MaxPoints \in Nat /\ Len(T) \in Nat
  BY <1>5, ChartAssumption
<1>8. Len(p) = Len(T)
  BY <1>6, <1>7
<1>9. Len(s.points) \in 0..(MaxPoints + 2)
  BY <1>3, <1>5, <1>7, <1>8
<1>10. <<1, Len(s.points)>> # UNREAD
  BY <1>9, ChartAssumption
<1>11. rows # <<>>
  BY <1>4
<1> QED BY <1>10, <1>11 DEF WholeSeries

\* A render keeps the view the reader's.
LEMMA RenderKept ==
    ASSUME ViewIsTheReaders, NEW rows, Ordered(rows), NEW at \in Nat, NEW ext \in BOOLEAN, NEW w \in Nat,
           Render(rows, at, ext, w)
    PROVE  series' = buildPriceSeries(rows, at, ext, w) /\ ViewIsTheReaders'
<1> DEFINE s == buildPriceSeries(rows, at, ext, w)
           free == ~moved \/ w # range \/ series.points = <<>>
<1>1. /\ series' = s /\ moved' = ~free
      /\ frame' = IF s.points = <<>> THEN UNREAD ELSE IF free THEN WholeSeries(s) ELSE frame
  BY DEF Render, Effects
<1>2. s.points # <<>> => WholeSeries(s) # UNREAD
  BY ViewExists
<1>3. ~free => frame # UNREAD
  BY DEF ViewIsTheReaders, isEmpty
<1> HIDE DEF s, free
<1>4. ~(series'.points = <<>>) /\ ~moved' => frame' = WholeSeries(series')
  BY <1>1
<1>5. series'.points = <<>> <=> frame' = UNREAD
  BY <1>1, <1>2, <1>3
<1> QED BY <1>1, <1>4, <1>5 DEF ViewIsTheReaders, isEmpty, s

LEMMA ChartStarts == ChartInit(TRUE) => ChartInv
<1> SUFFICES ASSUME ChartInit(TRUE) PROVE ChartInv
  OBVIOUS
<1>1. /\ clock = 0 /\ book = <<>> /\ closed = FALSE /\ held = <<>> /\ heldOf = 0 /\ now = 0 /\ range = 0
      /\ series = NoSeries /\ frame = UNREAD
  BY DEF ChartInit
<1>2. Ordered(<<>>) /\ Len(<<>>) = 0 /\ DOMAIN <<>> = {}
  BY DEF Ordered
<1>3. toEvents(<<>>) = {}
  BY <1>2, EventsAre
<1>4. buildPriceSeries(<<>>, 0, TRUE, 0) = NoSeries
  BY <1>3, SeriesIs DEF Drawable
<1>5. NewestHeld(held, heldOf)
  BY <1>1, <1>2, ChartAssumption DEF NewestHeld
<1>6. series = buildPriceSeries(held, now, ~closed, range)
  <2>1. (~closed) = TRUE
    BY <1>1
  <2> QED BY <1>1, <1>4, <2>1
<1>7. ViewIsTheReaders
  BY <1>1 DEF ViewIsTheReaders, isEmpty, NoSeries
<1>8. BookInOrder
  BY <1>1, <1>2 DEF BookInOrder
<1>9. ChartTypes
  BY <1>1 DEF ChartTypes
<1> QED BY <1>5, <1>6, <1>7, <1>8, <1>9 DEF ChartInv

LEMMA ChartKept == ChartInv /\ [ChartNext]_chartVars => ChartInv'
<1> SUFFICES ASSUME ChartInv, [ChartNext]_chartVars PROVE ChartInv'
  OBVIOUS
<1>1. /\ clock \in Nat /\ now \in Nat /\ range \in Nat /\ closed \in BOOLEAN
      /\ Ordered(book) /\ \A i \in 1..Len(book) : book[i].time <= clock
      /\ NewestHeld(held, heldOf) /\ Ordered(held)
      /\ series = buildPriceSeries(held, now, ~closed, range) /\ ViewIsTheReaders
  BY DEF ChartInv, ChartTypes, BookInOrder, NewestHeld
<1>2. /\ book \in Seq(TradeRow) /\ Len(book) \in Nat
      /\ \A i \in 1..Len(book) : book[i] \in TradeRow /\ book[i].time \in Nat
  BY <1>1, OrderedRows
<1>3. (~closed) \in BOOLEAN
  BY <1>1
<1>4. CASE ClockTicks
  <2>1. /\ clock' = clock + 1 /\ book' = book /\ closed' = closed /\ held' = held /\ heldOf' = heldOf /\ now' = now
        /\ range' = range /\ series' = series /\ frame' = frame /\ moved' = moved
    BY <1>4 DEF ClockTicks
  <2>2. \A i \in 1..Len(book) : book[i].time <= clock + 1
    BY <1>1, <1>2
  <2>3. BookInOrder'
    BY <1>1, <2>1, <2>2 DEF BookInOrder
  <2>4. NewestHeld(held, heldOf)' /\ ViewIsTheReaders'
    BY <1>1, <2>1 DEF NewestHeld, Settled, ViewIsTheReaders, isEmpty
  <2>5. ChartTypes'
    BY <1>1, <2>1 DEF ChartTypes
  <2> QED BY <1>1, <2>1, <2>3, <2>4, <2>5 DEF ChartInv
<1>5. CASE TradeIsMade
  <2>1. PICK p \in Prices : book' = Append(book, [time |-> clock, price |-> p])
    BY <1>5 DEF TradeIsMade
  <2>2. /\ clock' = clock /\ closed' = closed /\ held' = held /\ heldOf' = heldOf /\ now' = now
        /\ range' = range /\ series' = series /\ frame' = frame /\ moved' = moved
    BY <1>5 DEF TradeIsMade
  <2> DEFINE new == [time |-> clock, price |-> p]
             B == Append(book, new)
             n == Len(book)
  <2>3. new \in TradeRow /\ new.time = clock
    BY <1>1 DEF TradeRow
  <2> HIDE DEF new
  <2>4. B \in Seq(TradeRow) /\ Len(B) = n + 1 /\ B[n + 1] = new /\ \A i \in 1..n : B[i] = book[i]
    BY <1>2, <2>3
  <2> HIDE DEF B
  <2>5. ASSUME NEW i \in 1..(n + 1) PROVE B[i].time <= clock /\ B[i].time \in Nat /\ (i # n + 1 => i \in 1..n)
    <3>1. CASE i = n + 1
      BY <1>1, <2>3, <2>4, <3>1
    <3>2. CASE i # n + 1
      <4>1. i \in 1..n
        BY <1>2, <3>2
      <4> QED BY <1>1, <1>2, <2>4, <4>1
    <3> QED BY <3>1, <3>2
  <2>6. Ordered(B)
    <3>1. ASSUME NEW i \in 1..(n + 1), NEW j \in 1..(n + 1), i <= j PROVE B[i].time <= B[j].time
      <4>1. CASE j = n + 1
        BY <2>3, <2>4, <2>5, <4>1
      <4>2. CASE j # n + 1
        <5>1. j \in 1..n /\ i \in 1..n
          BY <1>2, <2>5, <3>1, <4>2
        <5>2. book[i].time <= book[j].time
          BY <1>1, <3>1, <5>1 DEF Ordered
        <5> QED BY <2>4, <5>1, <5>2
      <4> QED BY <4>1, <4>2
    <3> QED BY <2>4, <3>1 DEF Ordered
  <2>7. BookInOrder'
    <3>1. \A i \in 1..Len(B) : B[i].time <= clock
      BY <2>4, <2>5
    <3>2. book' = B
      BY <2>1 DEF B, new
    <3> QED BY <2>2, <2>6, <3>1, <3>2 DEF BookInOrder
  <2>8. NewestHeld(held, heldOf)'
    <3>1. /\ heldOf \in 0..n /\ Len(held) = IF heldOf > HistoryLimit THEN HistoryLimit ELSE heldOf
      BY <1>1 DEF NewestHeld
    <3>2. Len(book') = n + 1
      BY <2>1, <2>4 DEF B, new
    <3>3. heldOf \in 0..Len(book') /\ heldOf # Len(book')
      BY <1>2, <3>1, <3>2
    <3> QED BY <1>1, <2>2, <3>1, <3>3 DEF NewestHeld
  <2>9. ViewIsTheReaders'
    BY <1>1, <2>2 DEF ViewIsTheReaders, isEmpty
  <2>10. ChartTypes'
    BY <1>1, <2>2 DEF ChartTypes
  <2> QED BY <1>1, <2>2, <2>7, <2>8, <2>9, <2>10 DEF ChartInv
<1>6. CASE CurveCloses
  <2>1. /\ closed' = TRUE /\ Render(held, now, FALSE, range) /\ clock' = clock /\ book' = book
        /\ held' = held /\ heldOf' = heldOf /\ now' = now /\ range' = range
    BY <1>6 DEF CurveCloses
  <2>2. series' = buildPriceSeries(held, now, FALSE, range) /\ ViewIsTheReaders'
    BY <1>1, <2>1, RenderKept
  <2>3. NewestHeld(held, heldOf)' /\ BookInOrder' /\ ChartTypes'
    BY <1>1, <2>1 DEF NewestHeld, Settled, BookInOrder, ChartTypes
  <2>4. (~closed') = FALSE
    BY <2>1
  <2> QED BY <2>1, <2>2, <2>3, <2>4 DEF ChartInv
<1>7. CASE TradesArrive
  <2>1. PICK order \in ServerOrders : held' = fetchTradesIn(order) /\ Render(held', now, ~closed, range)
    BY <1>7 DEF TradesArrive
  <2>2. heldOf' = Len(book) /\ clock' = clock /\ book' = book /\ closed' = closed /\ now' = now /\ range' = range
    BY <1>7 DEF TradesArrive
  <2> DEFINE rows == fetchTradesIn(order)
             ext == ~closed
  <2>3. NewestHeld(rows, Len(book))
    BY <1>1, TradesFetched
  <2>4. Ordered(rows)
    BY <2>3 DEF NewestHeld
  <2>5. Render(rows, now, ext, range) /\ ext \in BOOLEAN
    BY <1>3, <2>1
  <2>6. held' = rows
    BY <2>1
  <2> HIDE DEF rows, ext
  <2>7. series' = buildPriceSeries(rows, now, ext, range) /\ ViewIsTheReaders'
    BY <1>1, <2>4, <2>5, RenderKept
  <2>8. NewestHeld(held, heldOf)'
    BY <2>2, <2>3, <2>6 DEF NewestHeld, Settled
  <2>9. BookInOrder' /\ ChartTypes'
    BY <1>1, <2>2 DEF BookInOrder, ChartTypes
  <2> QED BY <2>2, <2>6, <2>7, <2>8, <2>9 DEF ChartInv, ext
<1>8. CASE PageTicks
  <2>1. PICK t \in (clock - 1)..(clock + 1) : t > now /\ now' = t
    BY <1>8 DEF PageTicks
  <2>2. /\ Render(held, now', ~closed, range) /\ clock' = clock /\ book' = book /\ closed' = closed
        /\ held' = held /\ heldOf' = heldOf /\ range' = range
    BY <1>8 DEF PageTicks
  <2>3. t \in Nat
    BY <1>1, <2>1
  <2> DEFINE ext == ~closed
  <2>4. Render(held, t, ext, range) /\ ext \in BOOLEAN
    BY <1>3, <2>1, <2>2
  <2> HIDE DEF ext
  <2>5. series' = buildPriceSeries(held, t, ext, range) /\ ViewIsTheReaders'
    BY <1>1, <2>3, <2>4, RenderKept
  <2>6. NewestHeld(held, heldOf)' /\ BookInOrder' /\ ChartTypes'
    BY <1>1, <2>1, <2>2, <2>3 DEF NewestHeld, Settled, BookInOrder, ChartTypes
  <2> QED BY <2>1, <2>2, <2>5, <2>6 DEF ChartInv, ext
<1>9. CASE PickRange
  <2>1. PICK w \in Windows \ {range} : range' = w /\ Render(held, now, ~closed, w)
    BY <1>9 DEF PickRange
  <2>2. /\ clock' = clock /\ book' = book /\ closed' = closed /\ held' = held /\ heldOf' = heldOf /\ now' = now
    BY <1>9 DEF PickRange
  <2>3. w \in Nat
    BY ChartAssumption
  <2> DEFINE ext == ~closed
  <2>4. Render(held, now, ext, w) /\ ext \in BOOLEAN
    BY <1>3, <2>1
  <2> HIDE DEF ext
  <2>5. series' = buildPriceSeries(held, now, ext, w) /\ ViewIsTheReaders'
    BY <1>1, <2>3, <2>4, RenderKept
  <2>6. NewestHeld(held, heldOf)' /\ BookInOrder' /\ ChartTypes'
    BY <1>1, <2>1, <2>2, <2>3 DEF NewestHeld, Settled, BookInOrder, ChartTypes
  <2> QED BY <2>1, <2>2, <2>5, <2>6 DEF ChartInv, ext
<1>10. CASE claimViewport
  <2>1. /\ ~isEmpty /\ moved' = TRUE /\ clock' = clock /\ book' = book /\ closed' = closed /\ held' = held
        /\ heldOf' = heldOf /\ now' = now /\ range' = range /\ series' = series /\ frame' = frame
    BY <1>10 DEF claimViewport
  <2>2. ViewIsTheReaders'
    BY <1>1, <2>1 DEF ViewIsTheReaders, isEmpty
  <2>3. NewestHeld(held, heldOf)' /\ BookInOrder' /\ ChartTypes'
    BY <1>1, <2>1 DEF NewestHeld, Settled, BookInOrder, ChartTypes
  <2> QED BY <1>1, <2>1, <2>2, <2>3 DEF ChartInv
<1>11. CASE UNCHANGED chartVars
  <2>1. /\ clock' = clock /\ book' = book /\ closed' = closed /\ held' = held /\ heldOf' = heldOf /\ now' = now
        /\ range' = range /\ series' = series /\ frame' = frame /\ moved' = moved
    BY <1>11 DEF chartVars
  <2>2. ViewIsTheReaders'
    BY <1>1, <2>1 DEF ViewIsTheReaders, isEmpty
  <2>3. NewestHeld(held, heldOf)' /\ BookInOrder' /\ ChartTypes'
    BY <1>1, <2>1 DEF NewestHeld, Settled, BookInOrder, ChartTypes
  <2> QED BY <1>1, <2>1, <2>2, <2>3 DEF ChartInv
<1> QED BY <1>4, <1>5, <1>6, <1>7, <1>8, <1>9, <1>10, <1>11 DEF ChartNext

LEMMA ChartFollows == ChartInv => ChartIsTheHistory
<1> SUFFICES ASSUME ChartInv PROVE SeriesIsTheHistory
  BY DEF ChartInv, ChartIsTheHistory
<1> SUFFICES ASSUME ~isEmpty
             PROVE  /\ LineTrue(series.points, held) /\ MarkersTrue(series.markers, series.points, held, range, now)
                    /\ heldOf = Len(book) /\ Settled => Last(series.points).value = Last(book).price
                    /\ heldOf > Len(held) /\ series.startsAtOldestHeldTrade => ChartNote = "last trades"
  <2> DEFINE Until(t) == {i \in DOMAIN held : held[i].time <= t}
             inRange == {i \in DOMAIN held : range = 0 \/ held[i].time >= now - range}
  <2>1. \A t : Until(t) = RowsUntil(held, t)
    BY DEF RowsUntil
  <2>2. inRange = RowsIn(held, range, now)
    BY DEF RowsIn
  <2> HIDE DEF Until, inRange
  <2>3. SeriesIsTheHistory <=>
          (~isEmpty =>
             /\ \A i \in 1..(Len(series.points) - 1) : series.points[i].time < series.points[i + 1].time
             /\ \A i \in DOMAIN series.points :
                  series.points[i].value = held[NewestOf(Until(series.points[i].time))].price
             /\ series.markers # {} => TradesOf(series.markers) = Cardinality(inRange)
             /\ \A m \in series.markers :
                  /\ \E i \in DOMAIN series.points : series.points[i].time = m.time
                  /\ Cardinality(inRange \cap Until(m.time)) >= TradesOf({l \in series.markers : l.time <= m.time})
             /\ Len(series.points) <= MaxPoints + 2
             /\ heldOf = Len(book) /\ Settled => Last(series.points).value = Last(book).price
             /\ heldOf > Len(held) /\ series.startsAtOldestHeldTrade => ChartNote = "last trades")
    BY DEF SeriesIsTheHistory, Settled, Until, inRange
  <2> QED BY <2>1, <2>2, <2>3 DEF LineTrue, MarkersTrue
<1> DEFINE ext == ~closed
<1>1. /\ now \in Nat /\ range \in Nat /\ ext \in BOOLEAN /\ Ordered(held) /\ NewestHeld(held, heldOf)
      /\ series = buildPriceSeries(held, now, ext, range) /\ series.points # <<>>
  BY DEF ChartInv, ChartTypes, NewestHeld, isEmpty
<1> HIDE DEF ext
<1>2. LineTrue(series.points, held) /\ MarkersTrue(series.markers, series.points, held, range, now)
  BY <1>1, DrawnIsTrue
<1>3. held # <<>>
  BY <1>1, ViewExists
<1>4. heldOf = Len(book) /\ Settled => Last(series.points).value = Last(book).price
  <2>1. Last(series.points).value = held[Len(held)].price
    BY <1>2 DEF LineTrue
  <2> QED BY <1>1, <1>3, <2>1 DEF NewestHeld, Last
<1>5. heldOf > Len(held) /\ series.startsAtOldestHeldTrade => ChartNote = "last trades"
  <2>1. heldOf > Len(held) => isWindowed
    <3>1. Len(held) = IF heldOf > HistoryLimit THEN HistoryLimit ELSE heldOf
      BY <1>1 DEF NewestHeld
    <3>2. heldOf \in Int /\ HistoryLimit \in Nat
      BY <1>1, ChartAssumption DEF NewestHeld
    <3> QED BY <3>1, <3>2 DEF isWindowed
  <2> QED BY <2>1 DEF ChartNote
<1> QED BY <1>2, <1>4, <1>5

ChartSpec == ChartInit(TRUE) /\ [][ChartNext]_chartVars

\* For any trades, polls that order those of one second in any way, ticks, ranges
\* and moves of the reader: what is drawn is the history held, and the view is the
\* reader's (priceSeries.ts, subgraph.ts, CurveChart.tsx).
THEOREM ChartIsTheHistoryAlways == ChartSpec => []ChartIsTheHistory
<1>1. ChartInit(TRUE) => ChartInv
  BY ChartStarts
<1>2. ChartInv /\ [ChartNext]_chartVars => ChartInv'
  BY ChartKept
<1>3. ChartInv => ChartIsTheHistory
  BY ChartFollows
<1> QED BY <1>1, <1>2, <1>3, PTL DEF ChartSpec
=============================================================================
