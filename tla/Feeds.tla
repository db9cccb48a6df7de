-------------------------------- MODULE Feeds --------------------------------
(***************************************************************************)
(* The lists the pages poll from the indexer: the board of live curves, the *)
(* ticker of graduated ones, and the feed of trades, of every launch on the *)
(* board and of one launch on its own page (frontend: HomePage.tsx,         *)
(* TokenPage.tsx, board.ts, useSubgraph.ts, subgraph.ts, useArrivals.ts,    *)
(* TradeRail.tsx, TokenTradeFeed.tsx, TradeFeedState.tsx, denylist.ts).     *)
(*                                                                         *)
(* Launches are numbered as they are created, and so are trades.  Answers   *)
(* arrive and fail in any order; a query has its own answer for each way of *)
(* sorting, and the page keeps the last one on screen meanwhile.            *)
(***************************************************************************)
EXTENDS Integers, Sequences, FiniteSets, SequencesExt, IndexerHealth

CONSTANTS
    BoardPageSize, FeedSize,
    Hidden,             \* launches on the hide tier of the denylist
    BornIn,             \* of each launch that may come, the block that creates it
    MaxTrades           \* bound: trades in all

\* A list of ids is never taken for one that has not been answered.
ASSUME FeedsAssumption ==
    /\ IsFiniteSet(Hidden) /\ BoardPageSize \in Nat /\ Cardinality(Hidden) < BoardPageSize
    /\ FeedSize \in Nat \ {0} /\ MaxTrades \in Nat
    /\ BornIn \in Seq(Nat) /\ Len(BornIn) >= 2
    /\ \A ids \in SUBSET (DOMAIN BornIn \cup 1..MaxTrades) : ids # UNREAD

VARIABLES
    page,       \* the list looked at: "board", "ticker" or "rail" of the home page, the
                \* "token" page of the first launch, or none
    market,     \* the launches created, those graduated, and the trades made
    state,      \* the indexer's state, as the page last classified it
    sort, tokens, kept,      \* the board's order, its queries, the page kept on screen
    graduated, trades, row,  \* the ticker's query, the feed's, and the token page's
    board, feed              \* what useArrivals remembers of each list

feedVars == <<page, market, state, sort, tokens, kept, graduated, trades, row, board, feed>>

Launches == DOMAIN BornIn
SortModes == {"new", "trades"}
NothingSeen == [seen |-> UNREAD, arrivals |-> {}, first |-> {}, count |-> [i \in 1..MaxTrades |-> 0]]

FeedsInit(which) ==
    /\ page = which /\ state = "unknown" /\ sort = "new" /\ kept = UNREAD
    /\ \E n \in (IF which = UNREAD THEN {0} ELSE {1, 2}) :
         market = [created |-> n, graduated |-> {}, trades |-> <<>>]
    /\ tokens = [m \in SortModes |-> Pending]
    /\ graduated = Pending /\ trades = Pending /\ row = Pending
    /\ board = NothingSeen /\ feed = NothingSeen

-----------------------------------------------------------------------------
(* The market, and what the indexer answers of it (subgraph.ts).            *)

TradeCount(l) == Cardinality({i \in DOMAIN market.trades : market.trades[i] = l})
Live == (1..market.created) \ market.graduated
Row(l) == [id |-> l, born |-> BornIn[l], count |-> TradeCount(l)]

(* Mutant: the server always ranks by creation. *)
OrderByCreation(mode) == "createdAtTimestamp"

orderByFor(mode) == IF mode = "trades" THEN "tradeCount" ELSE "createdAtTimestamp"
Key(r, orderBy) == IF orderBy = "tradeCount" THEN r.count ELSE r.born

\* The first rows by a key; among equal ones the server takes any.
IsTop(rows, all, n, orderBy) ==
    /\ Cardinality(rows) = IF Cardinality(all) < n THEN Cardinality(all) ELSE n
    /\ \A r \in rows, o \in all \ rows : Key(o, orderBy) <= Key(r, orderBy)

fetchActiveTokens(orderBy) ==
    LET all == {Row(l) : l \in Live}
    IN {[rows |-> rows, all |-> all] : rows \in {s \in SUBSET all : IsTop(s, all, BoardPageSize, orderBy)}}

fetchGraduatedTokens == {Row(l) : l \in market.graduated}

\* The newest trades, of every launch or of the page's.
fetchTrades ==
    LET all == {i \in DOMAIN market.trades : page = "rail" \/ market.trades[i] = 1}
    IN {i \in all : Cardinality({j \in all : j > i}) < FeedSize}

-----------------------------------------------------------------------------
(* The board (board.ts, denylist.ts, HomePage.tsx).                          *)

isHidden(l) == l \in Hidden
withoutHidden(rows) == {r \in rows : ~isHidden(r.id)}

Before(a, b, mode) ==
    LET byNewest == a.born > b.born \/ (a.born = b.born /\ a.id < b.id)
    IN IF mode = "trades" /\ a.count # b.count THEN a.count > b.count ELSE byNewest

sortTokens(rows, mode) ==
    LET places == 1..Cardinality(rows)
    IN CHOOSE s \in [places -> rows] : \A i, j \in places : i < j => Before(s[i], s[j], mode)

\* keepPreviousData stands in while a query is pending, not when it has failed.
Shown(qs, s, k) == IF qs[s].data # UNREAD \/ qs[s].isError THEN qs[s].data ELSE k
ShownRows(data) == withoutHidden(OrElse(data, [rows |-> {}]).rows)

BoardData == Shown(tokens, sort, kept)
Sorted == sortTokens(ShownRows(BoardData), sort)
BoardText == IF tokens[sort].isError THEN "unreachable"
             ELSE IF BoardData = UNREAD THEN "skeleton"
             ELSE IF Sorted = <<>> THEN "no live curves" ELSE "list"

TickerText == IF graduated.isError THEN "unavailable"
              ELSE IF withoutHidden(OrElse(graduated.data, {})) = {} THEN "nothing" ELSE "list"

-----------------------------------------------------------------------------
(* The feed (TradeRail.tsx, TokenTradeFeed.tsx, TradeFeedState.tsx).         *)

Visible(ids) == IF page = "rail" THEN {i \in ids : ~isHidden(market.trades[i])} ELSE ids
FeedRows == Visible(OrElse(trades.data, {}))

(* Mutant: a list without rows is always called empty. *)
EmptyUnlessFailed(degraded, isError, loading, isEmpty) ==
    IF isError THEN "unavailable" ELSE "no trades yet"

TradeFeedState(degraded, isError, loading, isEmpty) ==
    IF degraded /\ (isError \/ isEmpty) THEN "notice"
    ELSE IF isError THEN "unavailable" ELSE IF loading THEN "spinner" ELSE "no trades yet"

FeedText ==
    IF trades.isError \/ isLoading(trades) \/ FeedRows = {}
    THEN TradeFeedState(isDegraded(state), trades.isError, isLoading(trades), FeedRows = {})
    ELSE "list"

\* TokenPage: the chart is given no trades for trades it has not got.
ChartText ==
    IF OrElse(row.data, FALSE) = FALSE /\ isDegraded(state) THEN "notice"
    ELSE IF OrElse(trades.data, {}) = {} THEN "no trades yet" ELSE "chart"

-----------------------------------------------------------------------------
(* useArrivals: an effect of every render that changes the list.            *)

Announced(memory, ids) ==
    LET fresh == ids \ memory.seen
    IN [memory EXCEPT !.seen = @ \cup ids, !.arrivals = IF fresh = {} THEN @ ELSE fresh,
                      !.count = [i \in DOMAIN @ |-> IF i \in fresh THEN @[i] + 1 ELSE @[i]]]

\* History: the first list that had a row.
WithFirst(memory, ids) == [memory EXCEPT !.first = IF @ = {} THEN ids ELSE @]

(* Mutant: the baseline is whatever the first render holds, an empty list too. *)
BaselineAtOnce(memory, ids) ==
    WithFirst(IF memory.seen = UNREAD THEN [memory EXCEPT !.seen = ids] ELSE Announced(memory, ids), ids)

useArrivals(memory, ids) ==
    WithFirst(IF memory.seen # UNREAD THEN Announced(memory, ids)
              ELSE IF ids = {} THEN memory ELSE [memory EXCEPT !.seen = ids], ids)

Ids(rows) == {r.id : r \in rows}

-----------------------------------------------------------------------------
Market == \/ /\ market.created < Cardinality(Launches)
             /\ market' = [market EXCEPT !.created = @ + 1]
          \/ /\ Len(market.trades) < MaxTrades
             /\ \E l \in Live : market' = [market EXCEPT !.trades = Append(@, l)]
          \/ \E l \in Live : TradeCount(l) > 1 /\ market' = [market EXCEPT !.graduated = @ \cup {l}]

Trading == /\ Market
           /\ UNCHANGED <<page, state, sort, tokens, kept, graduated, trades, row, board, feed>>

\* useIndexerStatus, as IndexerHealth has it: what it makes of three polls.
PollStatus ==
    /\ page \in {"rail", "token"}
    /\ state' \in {"ok", "stale", "unknown", "down"} \ {state}
    /\ UNCHANGED <<page, market, sort, tokens, kept, graduated, trades, row, board, feed>>

\* The board renders: what is new on it is announced, what it shows is kept.
Rendered(qs, s) ==
    LET data == Shown(qs, s, kept)
    IN /\ tokens' = qs /\ sort' = s
       /\ kept' = IF data # UNREAD THEN data ELSE kept
       /\ board' = useArrivals(board, Ids(ShownRows(data)))

PollBoard ==
    /\ page = "board"
    /\ \/ \E a \in fetchActiveTokens(orderByFor(sort)) :
             Rendered([tokens EXCEPT ![sort] = Answered(a)], sort)
       \/ Rendered([tokens EXCEPT ![sort] = FailedAfter(@)], sort)
    /\ UNCHANGED <<page, market, state, graduated, trades, row, feed>>

PickSort ==
    /\ page = "board" /\ \E s \in SortModes \ {sort} : Rendered(tokens, s)
    /\ UNCHANGED <<page, market, state, graduated, trades, row, feed>>

PollTicker ==
    /\ page = "ticker"
    /\ graduated' \in {Answered(fetchGraduatedTokens), FailedAfter(graduated)}
    /\ UNCHANGED <<page, market, state, sort, tokens, kept, trades, row, board, feed>>

PollTrades ==
    /\ page \in {"rail", "token"}
    /\ trades' \in {Answered(fetchTrades), FailedAfter(trades)}
    /\ feed' = useArrivals(feed, Visible(OrElse(trades'.data, {})))
    /\ UNCHANGED <<page, market, state, sort, tokens, kept, graduated, row, board>>

PollToken ==
    /\ page = "token"
    /\ row' \in {Answered(TRUE), FailedAfter(row)}
    /\ UNCHANGED <<page, market, state, sort, tokens, kept, graduated, trades, board, feed>>

FeedsNext ==
    /\ page # UNREAD
    /\ Trading \/ PollStatus \/ PollBoard \/ PickSort \/ PollTicker \/ PollTrades \/ PollToken

-----------------------------------------------------------------------------
\* "Nothing yet" is said only of an indexer that last answered so: never while a
\* list is loading, never after a failure, and never while the indexer is known to
\* be behind.  The board says it only if no live curve may be shown.
\* (TradeFeedState.tsx:19-64, HomePage.tsx:126-157, GraduationTicker.tsx:21-36)
EmptyMeansEmpty ==
    /\ FeedText = "no trades yet" =>
         ~isDegraded(state) /\ trades.data # UNREAD /\ Visible(trades.data) = {}
    /\ BoardText = "no live curves" => withoutHidden(BoardData.all) = {}
    /\ TickerText = "nothing" /\ graduated.data # UNREAD => Ids(graduated.data) \subseteq Hidden

\* What the board shows under an order is what that order puts first of every live
\* curve, not of the newest page; nothing hidden is on it.
\* (useSubgraph.ts:33-40, board.ts:34-72, HomePage.tsx:56)
BoardIsTheTop ==
    BoardText = "list" /\ tokens[sort].data # UNREAD =>
        LET data == tokens[sort].data
            missing == withoutHidden(data.all) \ Range(Sorted)
        IN /\ Ids(Range(Sorted)) \cap Hidden = {}
           /\ \A i \in 1..(Len(Sorted) - 1) : Key(Sorted[i], orderByFor(sort)) >= Key(Sorted[i + 1], orderByFor(sort))
           /\ \A o \in missing, r \in Range(Sorted) :
                IF sort = "trades" THEN o.count <= r.count ELSE o.born <= r.born

\* A trade is announced as it arrives, once in a session, and only if it is newer
\* than every row of the list the page opened with; a launch is announced once.
\* (useArrivals.ts:21-44)
ArrivalsAreNews ==
    /\ \A i \in DOMAIN feed.count : feed.count[i] <= 1 /\ board.count[i] <= 1
    /\ \A i \in feed.arrivals, o \in feed.first : i > o
    /\ board.arrivals \cap board.first = {}

FeedsTellTheTruth == EmptyMeansEmpty /\ BoardIsTheTop /\ ArrivalsAreNews
==============================================================================
