------------------------------ MODULE TokenGate ------------------------------
(***************************************************************************)
(* What the token page and the swap page let a visitor do, decided by the   *)
(* chain alone (frontend: useOnchainToken.ts, onchainToken.ts,              *)
(* OnchainTokenGate.tsx, TokenPage.tsx, SwapPage.tsx), and the metadata     *)
(* they look up for the token (useTokenMetadata.ts, tokenMetadata.ts,       *)
(* ipfs.ts, metadataUri.ts).                                                *)
(*                                                                         *)
(* The first round of reads is made once and kept, its failures too; the    *)
(* second needs the first's answers and is polled.  A node may answer from  *)
(* before the chain's last change; a batch is answered by one node.         *)
(***************************************************************************)
EXTENDS Integers, Sequences, FiniteSets, Queries

CONSTANTS
    FAILED,        \* an entry of a batch that came back as a failure
    Uris           \* the kinds of URI a token may name

\* What a batch may answer; neither undefined nor a failure is an answer.
Round1 == [curve : {"zero", "curve", FAILED}, v3Factory : {"factory", FAILED}]
Round2 == [graduated : BOOLEAN \cup {FAILED}, pool : {"zero", "pool", FAILED}]

ASSUME GateAssumption ==
    /\ \A x \in {UNREAD, FAILED} : x \notin {"zero", "curve", "factory", "pool", "none", "document"} /\ x \notin BOOLEAN
    /\ UNREAD # FAILED /\ UNREAD \notin Round1 /\ UNREAD \notin Round2

VARIABLES
    visited,       \* whether the pages are looked at
    token,         \* the token on chain: not launched, on its curve, graduated
    before,        \* the same, one change ago
    round1, round2,
    told,          \* history: what the node that answered the second round last knew
    uri, document, gateways, meta      \* the metadata: its URI, what it names, who serves it

gateVars == <<visited, token, before, round1, round2, told, uri, document, gateways, meta>>

Gateways == <<"dweb", "w3s">>

GateInit(v) ==
    /\ visited = v /\ round1 = Pending /\ round2 = Pending /\ told = UNREAD
    /\ token \in (IF v THEN {"none", "curve", "graduated"} ELSE {"none"}) /\ before = token
    /\ uri \in (IF v THEN Uris ELSE {"empty"})
    /\ document \in (IF v THEN {"document", "useless"} ELSE {"useless"})
    /\ gateways = [g \in {"dweb", "w3s", "direct"} |-> TRUE]
    /\ meta = [tried |-> 0, failed |-> {}, answer |-> UNREAD]

-----------------------------------------------------------------------------
(* The chain: graduation makes the flag and the pool in one transaction.    *)

curveOf(t) == IF t = "none" THEN "zero" ELSE "curve"
graduatedFlag(t) == t = "graduated"
getPool(t) == IF t = "graduated" THEN "pool" ELSE "zero"

Moves == /\ \/ token = "none" /\ token' = "curve"
            \/ token = "curve" /\ token' = "graduated"
         /\ before' = token
         /\ UNCHANGED <<visited, round1, round2, told, uri, document, gateways, meta>>

-----------------------------------------------------------------------------
(* useOnchainToken                                                          *)

\* A batch that is rejected as a whole is an error, asked again; an entry that
\* failed is an answer, kept.
ReadRound1 ==
    /\ round1.data = UNREAD
    /\ \/ \E t \in {token, before}, curveRead, factoryRead \in BOOLEAN :
            round1' = Answered([curve |-> IF curveRead THEN curveOf(t) ELSE FAILED,
                                v3Factory |-> IF factoryRead THEN "factory" ELSE FAILED])
       \/ round1' = FailedAfter(round1)
    /\ UNCHANGED <<visited, token, before, round2, told, uri, document, gateways, meta>>

Entry(q, field) == IF q.data = UNREAD THEN UNREAD ELSE q.data[field]
Succeeded(e) == e \notin {UNREAD, FAILED}

(* Mutant: the pool, once read, is not read again. *)
PoolReadOnce(t) == IF Succeeded(Entry(round2, "pool")) THEN Entry(round2, "pool") ELSE getPool(t)
PoolRead(t) == getPool(t)

\* The zero address is an answer like any other: the second round is asked of it.
Round2Enabled == /\ Succeeded(Entry(round1, "curve")) /\ Succeeded(Entry(round1, "v3Factory"))

ReadRound2 ==
    /\ Round2Enabled
    /\ \/ \E t \in {token, before}, flagRead, poolRead \in BOOLEAN :
            /\ round2' = Answered([graduated |-> IF flagRead /\ curveOf(t) = "curve" /\ round1.data.curve = "curve"
                                                 THEN graduatedFlag(t) ELSE FAILED,
                                   pool |-> IF poolRead THEN PoolRead(t) ELSE FAILED])
            /\ told' = t
       \/ round2' = FailedAfter(round2) /\ UNCHANGED told
    /\ UNCHANGED <<visited, token, before, round1, uri, document, gateways, meta>>

Reload == /\ round1' = Pending /\ round2' = Pending /\ told' = UNREAD
          /\ meta' = [tried |-> 0, failed |-> {}, answer |-> UNREAD]
          /\ UNCHANGED <<visited, token, before, uri, document, gateways>>

\* Checked in this order: a launch that has not graduated needs no pool.
resolveOnchainToken(curve, curveError, flag, graduatedError, pool, poolError) ==
    IF curveError THEN "unreachable"
    ELSE IF curve = UNREAD THEN "loading"
    ELSE IF curve = "zero" THEN "not-a-launch"
    ELSE IF graduatedError THEN "unreachable"
    ELSE IF flag = UNREAD THEN "loading"
    ELSE IF ~flag THEN "on-curve"
    ELSE IF poolError THEN "unreachable"
    ELSE IF pool = UNREAD THEN "loading"
    ELSE IF pool = "zero" THEN "graduated-pool-missing" ELSE "graduated"

Status ==
    LET failed(q, field) == Entry(q, field) = FAILED
        data(q, field) == IF failed(q, field) THEN UNREAD ELSE Entry(q, field)
    IN resolveOnchainToken(
         data(round1, "curve"), failed(round1, "curve") \/ round1.isError,
         data(round2, "graduated"), failed(round2, "graduated") \/ round2.isError,
         data(round2, "pool"), failed(round2, "pool") \/ failed(round1, "v3Factory") \/ round2.isError)

isTradeable == Status \in {"on-curve", "graduated", "graduated-pool-missing"}

\* What the token page and the swap page have to offer.
TradeOffered == isTradeable /\ Status = "on-curve"
SwapOffered == isTradeable /\ Status = "graduated"

-----------------------------------------------------------------------------
(* The metadata                                                             *)

\* ipfs.ts: where a URI may be fetched from, in order.
gatewayUrls(u) ==
    CASE u \in {"https", "data"} -> <<"direct">>
      [] u \in {"ipfs", "cid"} -> Gateways
      [] OTHER -> <<>>

\* metadataUri.ts: what the create form says of it.
classifyMetadataUri(u) ==
    IF u = "empty" THEN "empty"
    ELSE IF u \in {"space", "ipfs without a colon", "http", "javascript"} THEN "invalid"
    ELSE IF gatewayUrls(u) = <<>> THEN "invalid" ELSE "ok"

(* Mutant: the first gateway that fails ends the search. *)
FirstGatewayOnly(urls, i) == i = 1
Asks(urls, i) == i <= Len(urls)

\* fetchTokenMetadata: the first JSON answer is the answer, whatever is in it; when
\* every gateway has failed the answer is none.  Either is kept for ever.
TryGateway ==
    LET urls == gatewayUrls(uri)
        i == meta.tried + 1
        answered == i <= Len(urls) /\ gateways[urls[i]]
    IN /\ meta.answer = UNREAD /\ urls # <<>>
       /\ meta' = IF ~Asks(urls, i) THEN [meta EXCEPT !.answer = "none"]
                  ELSE IF answered THEN [meta EXCEPT !.tried = i, !.answer = IF document = "document" THEN document ELSE "none"]
                  ELSE [meta EXCEPT !.tried = i, !.failed = @ \cup {urls[i]}]
       /\ UNCHANGED <<visited, token, before, round1, round2, told, uri, document, gateways>>

GatewayTurns ==
    /\ meta.answer = UNREAD
    /\ \E g \in DOMAIN gateways : gateways' = [gateways EXCEPT ![g] = ~@]
    /\ UNCHANGED <<visited, token, before, round1, round2, told, uri, document, meta>>

GateNext == /\ visited
            /\ Moves \/ ReadRound1 \/ ReadRound2 \/ Reload \/ TryGateway \/ GatewayTurns

GateSpec == (\E v \in BOOLEAN : GateInit(v)) /\ [][GateNext]_gateVars

-----------------------------------------------------------------------------
\* A visitor is offered the curve only of a launch that had not graduated for the
\* node last asked, and a swap only where there is a pool; a graduated launch is never
\* said to lack its pool, for the two are read of one node together; a failure is
\* never taken for "not a launch", which some node must have said.
\* (useOnchainToken.ts:36-104, onchainToken.ts:87-112)
OffersAreTheChains ==
    /\ TradeOffered => token # "none" /\ told = "curve"
    /\ SwapOffered => token = "graduated"
    /\ Status # "graduated-pool-missing"
    /\ Status = "not-a-launch" => Entry(round1, "curve") = "zero"
    /\ Status = "unreachable" =>
         \/ round1.isError \/ round2.isError
         \/ FAILED \in {Entry(round1, "curve"), Entry(round2, "graduated"), Entry(round2, "pool")}

\* A document that the create form lets a launch name is looked for at every place
\* that may serve it before the page gives up on it.
\* (tokenMetadata.ts:176-190, ipfs.ts:89-115, metadataUri.ts:33-63)
MetadataIsLookedFor ==
    /\ classifyMetadataUri(uri) = "ok" => gatewayUrls(uri) # <<>>
    /\ meta.answer = "none" =>
         \/ document = "useless" /\ meta.tried >= 1
         \/ \A i \in DOMAIN gatewayUrls(uri) : gatewayUrls(uri)[i] \in meta.failed

GateIsTheChains == OffersAreTheChains /\ MetadataIsLookedFor
==============================================================================
