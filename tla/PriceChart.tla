----------------------------- MODULE PriceChart -----------------------------
(***************************************************************************)
(* The price chart of the token page (frontend: CurveChart.tsx,             *)
(* priceSeries.ts, chartRange.ts, subgraph.ts): trades come in, the page    *)
(* polls the newest of them, its clock runs, the reader picks a range or    *)
(* moves the frame, and every render resamples what is held into a step     *)
(* line of at most so many points.                                          *)
(***************************************************************************)
EXTENDS Integers, Sequences, FiniteSets, Functions, SequencesExt, Queries

CONSTANTS
    MaxTime, MaxBook, Prices,     \* bounds
    HistoryLimit,                 \* TRADE_HISTORY_LIMIT
    MaxPoints, MaxMarkers,        \* DEFAULT_MAX_POINTS, MAX_MARKERS
    Windows                       \* the seconds of each range; 0 is every trade held

ASSUME ChartAssumption ==
    /\ HistoryLimit \in Nat \ {0} /\ MaxPoints \in Nat \ {0} /\ MaxMarkers \in Nat /\ Windows \subseteq Nat
    /\ \A n \in 0..(MaxPoints + 2) : <<1, n>> # UNREAD

VARIABLES
    open,        \* whether the page is looked at
    clock, book, closed,      \* the chain's clock, the trades made, whether the curve graduated
    held, heldOf,             \* the trades the page holds; history: of how many
    now, range,               \* the page's clock, the range picked
    series, frame, moved      \* what is drawn, where the view was put, whether by the reader

chartVars == <<open, clock, book, closed, held, heldOf, now, range, series, frame, moved>>

NoSeries == [points |-> <<>>, markers |-> {}, startsAtOldestHeldTrade |-> FALSE]

ChartInit(o) ==
    /\ open = o /\ clock = 0 /\ book = <<>> /\ closed = FALSE
    /\ held = <<>> /\ heldOf = 0 /\ now = 0 /\ range = 0
    /\ series = NoSeries /\ frame = UNREAD /\ moved = FALSE

-----------------------------------------------------------------------------
(* subgraph.ts: the newest trades, oldest first; of one second in any order. *)

(* Mutant: the window is anchored to the oldest trades. *)
OldestTrades(order) == SubSeq(order, 1, IF Len(order) < HistoryLimit THEN Len(order) ELSE HistoryLimit)

fetchTradesIn(order) == SubSeq(order, IF Len(order) > HistoryLimit THEN Len(order) - HistoryLimit + 1 ELSE 1,
                               Len(order))

ServerOrders ==
    LET D == DOMAIN book
    IN {[i \in D |-> book[by[i]]] : by \in {p \in Bijection(D, D) : \A i \in D : book[p[i]].time = book[i].time}}

-----------------------------------------------------------------------------
(* priceSeries.ts                                                           *)

Ceil(a, b) == (a + b - 1) \div b

NewestOf(I) == CHOOSE i \in I : \A j \in I : j <= i

\* One event a second: its last price, and how many trades it had.
toEvents(rows) ==
    LET At(t) == {i \in DOMAIN rows : rows[i].time = t}
    IN {[time |-> t, value |-> rows[NewestOf(At(t))].price, count |-> Cardinality(At(t))]
        : t \in {rows[i].time : i \in DOMAIN rows}}

TradesOf(S) == SumFunctionOnSet([e \in S |-> e.count], S)

Latest(events) == CHOOSE e \in events : \A f \in events : f.time <= e.time
Earliest(events) == CHOOSE e \in events : \A f \in events : e.time <= f.time

\* The step line at a time: the value of the last event until then.
ValueAt(events, t) == Latest({e \in events : e.time <= t}).value

(* Mutant: a marker is put on the grid point before its trade. *)
snapDown(time, from, bucket, lastTime) == from + ((time - from) \div bucket) * bucket

snapped(time, from, bucket, lastTime) ==
    LET up == from + Ceil(time - from, bucket) * bucket
    IN IF up < lastTime THEN up ELSE lastTime

toMarkers(events, from, bucket, lastTime) ==
    LET At(e) == snapped(e.time, from, bucket, lastTime)
        markers == {[time |-> t, count |-> TradesOf({e \in events : At(e) = t})] : t \in {At(e) : e \in events}}
    IN IF Cardinality(markers) <= MaxMarkers THEN markers ELSE {}

\* rangeFrom: where the window starts; every trade is in the window of none.
InWindow(e, w, at) == w = 0 \/ e.time >= at - w

buildPriceSeries(rows, at, extendToNow, w) ==
    LET all == toEvents(rows)
        events == {e \in all : InWindow(e, w, at)}
        carried == all \ events
        from == IF carried # {} THEN at - w ELSE Earliest(events).time
        lastEventTime == IF events # {} THEN Latest(events).time ELSE from
        hasTail == extendToNow /\ at > lastEventTime
        to == IF hasTail THEN at ELSE lastEventTime
        bucket == IF to = from THEN 1 ELSE Ceil(to - from, MaxPoints)
        grid == [i \in 1..((to - from) \div bucket + 1) |-> from + (i - 1) * bucket]
        times == IF Last(grid) = to THEN grid ELSE Append(grid, to)
    IN IF all = {} \/ (events = {} /\ ~hasTail) THEN NoSeries
       ELSE [points |-> [i \in DOMAIN times |-> [time |-> times[i], value |-> ValueAt(all, times[i])]],
             markers |-> toMarkers(events, from, bucket, to),
             startsAtOldestHeldTrade |-> carried = {}]

-----------------------------------------------------------------------------
(* CurveChart.tsx: a render, then its effects in their order: the chart is   *)
(* made anew when there is something to draw again, a range just picked     *)
(* takes the view back from the reader, and the view is put on the series.   *)

WholeSeries(s) == <<1, Len(s.points)>>

(* Mutant: the view is put on the series before the range takes it back. *)
EffectsOutOfOrder(s, picked) ==
    LET mounted == s.points # <<>>
        free == ~moved \/ series.points = <<>>
    IN /\ frame' = IF ~mounted THEN UNREAD ELSE IF free THEN WholeSeries(s) ELSE frame
       /\ moved' = (~free /\ ~picked)

Effects(s, picked) ==
    LET mounted == s.points # <<>>
        free == ~moved \/ picked \/ series.points = <<>>
    IN /\ frame' = IF ~mounted THEN UNREAD ELSE IF free THEN WholeSeries(s) ELSE frame
       /\ moved' = ~free

Render(rows, at, extendToNow, w) ==
    LET s == buildPriceSeries(rows, at, extendToNow, w)
    IN series' = s /\ Effects(s, w # range)

isEmpty == series.points = <<>>
isWindowed == Len(held) >= HistoryLimit

\* What stands in place of the chart, or under it.
ChartNote == IF isEmpty /\ held = <<>> THEN "no trades yet"
             ELSE IF isEmpty THEN "none in the range"
             ELSE IF isWindowed /\ series.startsAtOldestHeldTrade THEN "last trades" ELSE "caption"

-----------------------------------------------------------------------------
ClockTicks == /\ clock < MaxTime /\ clock' = clock + 1
              /\ UNCHANGED <<open, book, closed, held, heldOf, now, range, series, frame, moved>>

TradeIsMade ==
    /\ ~closed /\ Len(book) < MaxBook
    /\ \E p \in Prices : book' = Append(book, [time |-> clock, price |-> p])
    /\ UNCHANGED <<open, clock, closed, held, heldOf, now, range, series, frame, moved>>

\* The page reads the graduation from the chain, and renders.
CurveCloses ==
    /\ ~closed /\ book # <<>> /\ closed' = TRUE
    /\ Render(held, now, FALSE, range)
    /\ UNCHANGED <<open, clock, book, held, heldOf, now, range>>

TradesArrive ==
    /\ \E order \in ServerOrders :
         /\ held' = fetchTradesIn(order)
         /\ Render(held', now, ~closed, range)
    /\ heldOf' = Len(book)
    /\ UNCHANGED <<open, clock, book, closed, now, range>>

\* useNowSeconds: the reader's clock, a little before the chain's or after it.
PageTicks ==
    /\ now' \in {t \in (clock - 1)..(clock + 1) : t > now}
    /\ Render(held, now', ~closed, range)
    /\ UNCHANGED <<open, clock, book, closed, held, heldOf, range>>

PickRange ==
    /\ \E w \in Windows \ {range} : range' = w /\ Render(held, now, ~closed, w)
    /\ UNCHANGED <<open, clock, book, closed, held, heldOf, now>>

claimViewport ==
    /\ ~isEmpty /\ ~moved /\ moved' = TRUE
    /\ UNCHANGED <<open, clock, book, closed, held, heldOf, now, range, series, frame>>

ChartNext ==
    /\ open
    /\ \/ ClockTicks \/ TradeIsMade \/ CurveCloses \/ TradesArrive \/ PageTicks \/ PickRange
       \/ claimViewport

-----------------------------------------------------------------------------
\* What is drawn is what happened, however it was resampled: the points go forward
\* in time; each has the price of the last trade held until then; no marker stands
\* before its trade, each stands on a point, and together they count every trade of
\* the range, or are all left out.  Held trades that are up to date end the line at
\* the curve's price, and a line that starts at the oldest of more says so.
\* (priceSeries.ts:125-308, subgraph.ts:439-448, CurveChart.tsx:126, 331)
SeriesIsTheHistory ==
    LET points == series.points
        Until(t) == {i \in DOMAIN held : held[i].time <= t}
        inRange == {i \in DOMAIN held : range = 0 \/ held[i].time >= now - range}
        settled == \A i \in 1..(Len(book) - 1) : book[i].time # Last(book).time
    IN ~isEmpty =>
        /\ \A i \in 1..(Len(points) - 1) : points[i].time < points[i + 1].time
        /\ \A i \in DOMAIN points : points[i].value = held[NewestOf(Until(points[i].time))].price
        /\ series.markers # {} => TradesOf(series.markers) = Cardinality(inRange)
        /\ \A m \in series.markers :
             /\ \E i \in DOMAIN points : points[i].time = m.time
             /\ Cardinality(inRange \cap Until(m.time)) >= TradesOf({l \in series.markers : l.time <= m.time})
        /\ Len(points) <= MaxPoints + 2
        /\ heldOf = Len(book) /\ settled => Last(points).value = Last(book).price
        /\ heldOf > Len(held) /\ series.startsAtOldestHeldTrade => ChartNote = "last trades"

\* A poll or a tick never takes the view from a reader who moved it, and the view is
\* on the whole of what is drawn until they do, right after a range is picked too.
\* (CurveChart.tsx:129-279)
ViewIsTheReaders ==
    /\ ~isEmpty /\ ~moved => frame = WholeSeries(series)
    /\ isEmpty <=> frame = UNREAD

ChartIsTheHistory == SeriesIsTheHistory /\ ViewIsTheReaders
==============================================================================
