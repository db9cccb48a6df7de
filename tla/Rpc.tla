--------------------------------- MODULE Rpc ---------------------------------
(***************************************************************************)
(* How the app reaches the chain: the ordered endpoints a build resolves   *)
(* (rpcEndpoints.ts, chain.ts), viem's fallback over them (wagmi.ts), and  *)
(* the proxy route that forwards to a keyed upstream (rpcProxyHandler.ts,  *)
(* rpcUpstream.ts, functions/rpc.ts).                                      *)
(*                                                                         *)
(* One read at a time goes out; endpoints fail, prune and recover while it *)
(* is on its way.  viem and the endpoints are external: an endpoint's reply *)
(* is an HTTP status and what its body is, and viem takes for an answer a  *)
(* successful status with a parsable body that names no error.             *)
(***************************************************************************)
EXTENDS Integers, Sequences, FiniteSets, SequencesExt

CONSTANTS
    PROXY,                 \* the same-origin route, once it is resolved
    PRIMARY, SECONDARY,    \* VITE_RPC_URL, VITE_RPC_URL_2
    PUBLIC,                \* PUBLIC_RPC_BY_CHAIN of the build's chain
    KEYED,                 \* the upstream behind the proxy
    NONE,                  \* a variable that is unset or blank
    Retries,               \* the rounds viem's fallback adds after the first
    MaxTurns               \* bound: how often an endpoint changes during a read

\* No two URLs are the same, nor one that of the app or of the proxy's upstream.
ASSUME URLsDiffer ==
    IsInjective(<<PROXY, PRIMARY, SECONDARY, PUBLIC, KEYED, NONE, "app", "upstream">>)

Endpoints == {PRIMARY, SECONDARY, PUBLIC, KEYED}
Kinds == {"head", "deep", "revert"}      \* what a read asks for
Health == {"up", "pruned", "refusing", "down"}

VARIABLES
    build,       \* the build's variables and what the host does with the route
    urls,        \* rpcUrls, resolved when the app loads
    health,      \* of each endpoint
    turns,       \* how often that has changed
    read,        \* the app's read: its state, what it asks, whom it asked
    wire,        \* the HTTP exchange in flight
    able         \* history: the endpoints able to answer throughout the read

rpcVars == <<build, urls, health, turns, read, wire, able>>

-----------------------------------------------------------------------------
(* rpcEndpoints.ts and chain.ts                                            *)

\* A path alone needs the page's origin; without one there is no proxy.
resolveProxyUrl(path, origin) ==
    IF path = NONE THEN NONE
    ELSE IF path = "absolute" THEN PROXY
    ELSE IF origin = NONE THEN NONE ELSE PROXY

Set(u) == u # NONE

\* The next URL of the ordered list, kept unless it is unset or already there.
Push(urlsSeen, url) ==
    IF ~Set(url) \/ Contains(urlsSeen, url) THEN urlsSeen ELSE Append(urlsSeen, url)

Named(proxy, primary, secondary) == Push(Push(Push(<<>>, proxy), primary), secondary)

(* Mutant: the public endpoint is there only for want of another. *)
PublicIfAlone(proxy, primary, secondary, publicDefault) ==
    IF Named(proxy, primary, secondary) = <<>> THEN <<publicDefault>>
    ELSE Named(proxy, primary, secondary)

resolveRpcUrls(proxy, primary, secondary, publicDefault) ==
    Push(Named(proxy, primary, secondary), publicDefault)

rpcUrls(b) == resolveRpcUrls(resolveProxyUrl(b.path, b.origin), b.primary, b.secondary, PUBLIC)

\* What wallet_addEthereumChain is given, whatever the app reads through.
walletRpcUrls == <<PUBLIC>>

-----------------------------------------------------------------------------
(* Replies.  Status 0 is a request that found no server.                   *)

Reply(status, body) == [status |-> status, body |-> body]
Unreachable == Reply(0, "none")
ok(r) == r.status \in 200..299

\* A pruned node answers reads of the head; one that throttles or rejects its
\* key does so with an error status.
Answer(state, kind) ==
    CASE state = "down" -> Unreachable
      [] state = "refusing" -> Reply(429, "error")
      [] state = "pruned" /\ kind = "deep" -> Reply(200, "missing trie node")
      [] OTHER -> Reply(200, IF kind = "revert" THEN "execution reverted" ELSE "result")

parseUpstream(secret) == secret = "url"

\* handleRpc up to the fetch: the status it refuses with, or 0 to forward.
RefusalOf(request, secret) ==
    CASE request.method # "POST" -> 405
      [] request.method = "POST" /\ request.site = "cross-site" -> 403
      [] request.method = "POST" /\ request.site # "cross-site" /\ ~parseUpstream(secret) -> 500
      [] OTHER -> IF request.large THEN 413 ELSE 0

(* Mutant: whatever happened upstream is wrapped in a 200. *)
AlwaysOk(upstream) == IF upstream = Unreachable THEN Reply(200, "empty") ELSE Reply(200, upstream.body)

\* handleRpc after the fetch.  An error body is redacted, its status kept.
Relayed(upstream) == IF upstream = Unreachable THEN Reply(502, "error") ELSE upstream

\* The app's own reads, as the browser sends them: an absolute route is another
\* site's.
AppRequest(path) == [method |-> "POST", large |-> FALSE,
                     site |-> IF path = "absolute" THEN "cross-site" ELSE "same-origin"]

-----------------------------------------------------------------------------
NoWire == [at |-> NONE]
Unread == [state |-> "idle", kind |-> "head", i |-> 0, round |-> 0, got |-> NONE, reverts |-> 0]

\* The host and the upstream's secret matter to a build with a proxy path, the
\* secret to a host that has the function.
Builds ==
    {b \in [path : {NONE, "relative", "absolute"}, origin : {NONE, "page"},
            secret : {"unset", "not a url", "url"}, host : {"static", "function"},
            primary : {NONE, PRIMARY, PUBLIC}, secondary : {NONE, PRIMARY, SECONDARY}] :
        /\ b.path = NONE => b.origin = "page" /\ b.host = "static"
        /\ b.host = "static" => b.secret = "unset"
        /\ b.host = "function" => b.origin = "page"}

CanAnswer(state, kind) == ok(Answer(state, kind)) /\ Answer(state, kind).body # "missing trie node"

\* An endpoint fails, recovers, or changes what it retains.
Turn(e, h) ==
    /\ turns < MaxTurns /\ h # health[e] /\ read.state \in {"idle", "asking"}
    /\ health' = [health EXCEPT ![e] = h]
    /\ turns' = turns + 1
    /\ able' = IF read.state = "asking" /\ ~CanAnswer(h, read.kind) THEN able \ {e} ELSE able
    /\ UNCHANGED <<build, urls, read, wire>>

Read(kind) ==
    /\ read.state = "idle"
    /\ read' = [Unread EXCEPT !.state = "asking", !.kind = kind, !.i = 1]
    /\ able' = {e \in Endpoints : CanAnswer(health[e], kind)}
    /\ UNCHANGED <<build, urls, health, turns, wire>>

\* viem asks the i-th endpoint of the list.
Ask == /\ read.state = "asking" /\ wire = NoWire
       /\ wire' = [at |-> urls[read.i]]
       /\ UNCHANGED <<build, urls, health, turns, read, able>>

\* The route is served by the function, or by a host that has no such route and
\* answers with a page.
ProxyAnswers ==
    /\ wire.at = PROXY
    /\ LET refusal == RefusalOf(AppRequest(build.path), build.secret)
       IN wire' = IF build.host = "static" THEN [at |-> "app", reply |-> Reply(404, "page")]
                  ELSE IF refusal # 0 THEN [at |-> "app", reply |-> Reply(refusal, "error")]
                  ELSE [at |-> "upstream"]
    /\ UNCHANGED <<build, urls, health, turns, read, able>>

ProxyRelays ==
    /\ wire.at = "upstream"
    /\ wire' = [at |-> "app", reply |-> Relayed(Answer(health[KEYED], read.kind))]
    /\ UNCHANGED <<build, urls, health, turns, read, able>>

EndpointAnswers ==
    /\ wire.at \in Endpoints
    /\ wire' = [at |-> "app", reply |-> Answer(health[wire.at], read.kind)]
    /\ UNCHANGED <<build, urls, health, turns, read, able>>

\* viem: an answer ends the read, a revert ends it as a failure of the call
\* itself, and anything else goes to the next endpoint and then round again.
LastTry(r, n) == r.i = n /\ r.round = Retries

Received ==
    /\ wire.at = "app" /\ wire' = NoWire
    /\ LET r == wire.reply
       IN read' = IF ok(r) /\ r.body = "execution reverted"
                  THEN [read EXCEPT !.state = "reverted", !.reverts = @ + 1]
                  ELSE IF ok(r) /\ r.body \in {"result", "empty"}
                  THEN [read EXCEPT !.state = "answered", !.got = r.body]
                  ELSE IF LastTry(read, Len(urls)) THEN [read EXCEPT !.state = "failed"]
                  ELSE IF read.i < Len(urls) THEN [read EXCEPT !.i = @ + 1]
                  ELSE [read EXCEPT !.i = 1, !.round = @ + 1]
    /\ UNCHANGED <<build, urls, health, turns, able>>

RpcNext == \/ \E e \in Endpoints, h \in Health : Turn(e, h)
           \/ \E kind \in Kinds : Read(kind)
           \/ Ask \/ ProxyAnswers \/ ProxyRelays \/ EndpointAnswers \/ Received

-----------------------------------------------------------------------------
Reached(url) == IF url = PROXY
                THEN IF build.host = "function" /\ RefusalOf(AppRequest(build.path), build.secret) = 0
                     THEN {KEYED} ELSE {}
                ELSE {url}

\* A read fails only if the public endpoint, and every other one the build
\* reaches, was at some moment of the read unable to answer it: no misconfigured
\* proxy, missing route, refused key or pruned node in front hides one that could.
\* (wagmi.ts:19-34, rpcProxyHandler.ts:176)
NoEndpointWasPassedOver ==
    read.state = "failed" =>
        PUBLIC \notin able /\ \A i \in DOMAIN urls : Reached(urls[i]) \cap able = {}

\* What the app takes for an answer is the chain's: never an error, a page or
\* an empty body of something in between; and the last resort is always there,
\* once, so no list asks one endpoint twice for want of another.
\* (rpcProxyHandler.ts:168-199, rpcEndpoints.ts:97)
AnswersAreTheChains ==
    /\ read.state = "answered" => read.got = "result" /\ read.kind # "revert"
    /\ (urls # <<>> /\ read = Unread) => Contains(urls, PUBLIC) /\ IsInjective(urls)
==============================================================================
