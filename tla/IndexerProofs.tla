---------------------------- MODULE IndexerProofs ----------------------------
(***************************************************************************)
(* Theorems of Indexer for every set of launches and of accounts, every    *)
(* number of blocks, of transactions, of restarts and of reorganisations:  *)
(* what the subgraph serves of a block is what the contracts held after    *)
(* it, and its counters add up.                                            *)
(*                                                                         *)
(* A launch's ledger entry is seen as its curve, which only trades change, *)
(* and its terms, which only the other events do.  A block's events lead   *)
(* from the entry before it to the one after (the chain's invariant); a    *)
(* store that serves what held at an event serves, once handled, what      *)
(* holds after it (one lemma to a handler); and the order of delivery      *)
(* keeps the events of one launch's terms in order, and those of its       *)
(* curve, whichever of the two comes first.  So a store serves the terms   *)
(* after the k-th event and the curve after the m-th, and once no event is *)
(* left, both after the last.                                              *)
(***************************************************************************)
EXTENDS Indexer, CurveMathProofs

-----------------------------------------------------------------------------
(* Short sequences.                                                         *)

LEMMA SameSeq ==
    ASSUME NEW S, NEW s \in Seq(S), NEW u \in Seq(S), Len(s) = Len(u),
           \A i \in 1..Len(s) : s[i] = u[i]
    PROVE  s = u
  OBVIOUS

LEMMA PairOf ==
    ASSUME NEW a, NEW b
    PROVE  /\ Append(<<a>>, b) = <<a, b>> /\ Len(<<a, b>>) = 2
           /\ <<a, b>>[1] = a /\ <<a, b>>[2] = b
<1>0. PICK S : a \in S /\ b \in S
  <2>1. a \in {a, b} /\ b \in {a, b}
    OBVIOUS
  <2> QED BY <2>1
<1>1. <<a>> \in Seq(S) /\ <<a, b>> \in Seq(S) /\ Append(<<a>>, b) \in Seq(S)
  BY <1>0
<1>2. Len(<<a>>) = 1 /\ Len(Append(<<a>>, b)) = 2 /\ Len(<<a, b>>) = 2
  BY <1>0, <1>1
<1>3. Append(<<a>>, b)[1] = a /\ Append(<<a>>, b)[2] = b /\ <<a, b>>[1] = a /\ <<a, b>>[2] = b
  BY <1>0, <1>1, <1>2
<1>4. \A i \in 1..2 : Append(<<a>>, b)[i] = <<a, b>>[i]
  BY <1>3
<1>5. Append(<<a>>, b) = <<a, b>>
  BY <1>1, <1>2, <1>4, SameSeq
<1> QED BY <1>2, <1>3, <1>5

LEMMA PairIs ==
    ASSUME NEW S, NEW a \in S, NEW b \in S
    PROVE  /\ Append(<<a>>, b) = <<a, b>> /\ <<a, b>> \in Seq(S)
           /\ \A k \in 1..Len(<<a, b>>) : <<a, b>>[k] \in {a, b}
<1>1. <<a, b>> \in Seq(S)
  OBVIOUS
<1>2. \A k \in 1..2 : <<a, b>>[k] \in {a, b}
  BY PairOf
<1> QED BY <1>1, <1>2, PairOf

LEMMA FourIs ==
    ASSUME NEW S, NEW a \in S, NEW b \in S, NEW c \in S, NEW d \in S,
           NEW u, u = <<a>> \o <<b, c, d>>
    PROVE  /\ Append(Append(<<a, b>>, c), d) = u /\ u \in Seq(S)
           /\ \A k \in 1..Len(u) : u[k] \in {a, b, c, d}
<1>1. PICK s : s = Append(Append(<<a, b>>, c), d)
  OBVIOUS
<1>2. /\ <<a>> \in Seq(S) /\ <<b, c, d>> \in Seq(S) /\ <<a, b>> \in Seq(S)
      /\ Len(<<a>>) = 1 /\ Len(<<b, c, d>>) = 3 /\ Len(<<a, b>>) = 2
      /\ <<a>>[1] = a /\ <<b, c, d>>[1] = b /\ <<b, c, d>>[2] = c /\ <<b, c, d>>[3] = d
      /\ <<a, b>>[1] = a /\ <<a, b>>[2] = b
  OBVIOUS
<1>3. PICK r : r = Append(<<a, b>>, c)
  OBVIOUS
<1>4. r \in Seq(S) /\ Len(r) = 3 /\ r[1] = a /\ r[2] = b /\ r[3] = c
  BY <1>2, <1>3
<1>5. s \in Seq(S) /\ Len(s) = 4 /\ s[1] = a /\ s[2] = b /\ s[3] = c /\ s[4] = d
  BY <1>1, <1>3, <1>4
<1>6. u \in Seq(S) /\ Len(u) = 4 /\ u[1] = a /\ u[2] = b /\ u[3] = c /\ u[4] = d
  BY <1>1, <1>2
<1>7. \A i \in 1..4 : s[i] = u[i] /\ u[i] \in {a, b, c, d}
  BY <1>5, <1>6
<1> QED BY <1>1, <1>3, <1>4, <1>5, <1>6, <1>7, SameSeq

-----------------------------------------------------------------------------
(* What the events of a block say of a launch.  A launch's ledger entry is  *)
(* seen as its curve, which trades change, and its terms, which all other   *)
(* events do; each event leads from what held before it to what holds after.*)

Trades == {"Bought", "Sold"}

Events ==
    [kind : {"LaunchCreated", "Graduation", "Reclaimed"}, token : Tokens]
    \cup [kind : {"LaunchConfig"}, token : Tokens, carve : Nat, permanent : BOOLEAN]
    \cup [kind : {"Bought"}, token : Tokens, trader : Accounts, ethIn : Nat, ethToCurve : Nat,
          fee : Nat, amount : Nat, sold : Int]
    \cup [kind : {"Sold"}, token : Tokens, trader : Accounts, ethOut : Nat, fee : Nat,
          amount : Nat, sold : Int]
    \cup [kind : {"LockRegistered", "LockExtended"}, token : Tokens, until : Nat \ {0}]
    \cup [kind : {"Graduated"}, token : Tokens, weth : Nat]
    \cup [kind : {"Claimed"}, token : Tokens, amount : Nat]
    \cup [kind : {"FeesCollected"}, token : Tokens, creator : Nat, treasury : Nat]

Curves == [sold : Int, traded : Nat, trades : Nat]
Terms == [launched : BOOLEAN, duration : Nat, carve : Nat, permanent : BOOLEAN,
          graduatedAt : Nat, raised : Nat, claimed : Nat,
          until : Nat, extends : Nat, collected : Nat, reclaimed : BOOLEAN]

NoCurve == [sold |-> 0, traded |-> 0, trades |-> 0]
NoTerms == [launched |-> FALSE, duration |-> 0, carve |-> 0, permanent |-> FALSE,
            graduatedAt |-> 0, raised |-> 0, claimed |-> 0,
            until |-> 0, extends |-> 0, collected |-> 0, reclaimed |-> FALSE]

CurveOf(e) == [sold |-> e.sold, traded |-> e.traded, trades |-> e.trades]
TermsOf(e) == [launched |-> e.launched, duration |-> IF e.launched THEN LOCK_DURATION ELSE 0,
               carve |-> e.carve, permanent |-> e.permanent, graduatedAt |-> e.graduatedAt,
               raised |-> e.raised, claimed |-> e.claimed, until |-> e.lock.until,
               extends |-> e.lock.extends, collected |-> e.lock.collected,
               reclaimed |-> e.lock.reclaimed]

\* An event of a launch, emitted in block b, leads from the terms v to the terms w.
TermsStep(e, b, v, w) ==
    \/ /\ e.kind = "LaunchCreated" /\ v = NoTerms
       /\ w = [v EXCEPT !.launched = TRUE]
    \/ /\ e.kind = "LaunchConfig" /\ v.launched
       /\ w = [v EXCEPT !.duration = LOCK_DURATION, !.carve = e.carve, !.permanent = e.permanent]
    \/ /\ e.kind \in Trades /\ v.launched
       /\ w = v
    \/ /\ e.kind = "LockRegistered" /\ v.launched
       /\ v.until = 0 /\ v.extends = 0 /\ v.collected = 0 /\ ~v.reclaimed
       /\ w = [v EXCEPT !.until = e.until]
    \/ /\ e.kind = "Graduated" /\ v.launched /\ v.until # 0 /\ v.graduatedAt = 0 /\ b # 0
       /\ w = [v EXCEPT !.graduatedAt = b, !.raised = e.weth]
    \/ /\ e.kind = "Graduation" /\ v.launched /\ v.graduatedAt # 0
       /\ w = v
    \/ /\ e.kind = "Claimed" /\ v.launched
       /\ w = [v EXCEPT !.claimed = @ + e.amount]
    \/ /\ e.kind = "LockExtended" /\ v.launched /\ v.until # 0
       /\ w = [v EXCEPT !.until = e.until, !.extends = @ + 1]
    \/ /\ e.kind = "FeesCollected" /\ v.launched /\ v.until # 0
       /\ w = [v EXCEPT !.collected = @ + e.creator + e.treasury]
    \/ /\ e.kind = "Reclaimed" /\ v.launched /\ v.until # 0
       /\ w = [v EXCEPT !.reclaimed = TRUE]

\* ... and from the curve c to the curve d.
CurveStep(e, c, d) ==
    \/ e.kind \notin Trades /\ d = c
    \/ /\ e.kind = "Bought" /\ e.sold = c.sold + e.amount
       /\ d = [sold |-> e.sold, traded |-> c.traded + BuyVolume(e), trades |-> c.trades + 1]
    \/ /\ e.kind = "Sold" /\ e.sold = c.sold - e.amount
       /\ d = [sold |-> e.sold, traded |-> c.traded + SellVolume(e), trades |-> c.trades + 1]

StepOf(t, b, e, v, c, w, d) ==
    IF e.token = t THEN TermsStep(e, b, v, w) /\ CurveStep(e, c, d) ELSE w = v /\ d = c

\* p and q are what held of t before the events, after the first of them, after the
\* second ...
Traced(p, q, t, b, events) ==
    /\ p[0] \in Terms /\ q[0] \in Curves
    /\ \A k \in 1..Len(events) :
         /\ p[k] \in Terms /\ q[k] \in Curves
         /\ StepOf(t, b, events[k], p[k - 1], q[k - 1], p[k], q[k])

Leads(t, b, events, v, c, w, d) ==
    \E p, q : /\ Traced(p, q, t, b, events)
              /\ p[0] = v /\ q[0] = c
              /\ p[Len(events)] = w /\ q[Len(events)] = d

\* An event leads from terms to terms, and a launch stays launched, graduated and locked.
LEMMA TermsStepTyped ==
    ASSUME NEW e \in Events, NEW b \in Nat, NEW v \in Terms, NEW w, TermsStep(e, b, v, w)
    PROVE  /\ w \in Terms
           /\ v.launched => w.launched
           /\ v.graduatedAt # 0 => w.graduatedAt # 0
           /\ v.until # 0 => w.until # 0
           /\ w.launched
<1> USE DEF TermsStep
<1>1. CASE e.kind = "LaunchCreated"
  <2>1. v = NoTerms /\ w = [v EXCEPT !.launched = TRUE]
    BY <1>1 DEF Trades
  <2> QED BY <2>1 DEF NoTerms, Terms
<1>2. CASE e.kind = "LaunchConfig"
  <2>1. v.launched /\ e.carve \in Nat /\ e.permanent \in BOOLEAN
    BY <1>2 DEF Trades, Events
  <2>2. w = [v EXCEPT !.duration = LOCK_DURATION, !.carve = e.carve, !.permanent = e.permanent]
    BY <1>2 DEF Trades
  <2> QED BY <2>1, <2>2, Sizes DEF Terms
<1>3. CASE e.kind \in Trades \cup {"Graduation"}
  BY <1>3 DEF Trades
<1>4. CASE e.kind = "LockRegistered"
  <2>1. v.launched /\ e.until \in Nat \ {0} /\ w = [v EXCEPT !.until = e.until]
    BY <1>4 DEF Trades, Events
  <2> QED BY <2>1 DEF Terms
<1>5. CASE e.kind = "Graduated"
  <2>1. v.launched /\ e.weth \in Nat /\ b # 0 /\ w = [v EXCEPT !.graduatedAt = b, !.raised = e.weth]
    BY <1>5 DEF Trades, Events
  <2> QED BY <2>1 DEF Terms
<1>6. CASE e.kind = "Claimed"
  <2>1. v.launched /\ e.amount \in Nat /\ w = [v EXCEPT !.claimed = @ + e.amount]
    BY <1>6 DEF Trades, Events
  <2> QED BY <2>1 DEF Terms
<1>7. CASE e.kind = "LockExtended"
  <2>1. v.launched /\ e.until \in Nat \ {0} /\ w = [v EXCEPT !.until = e.until, !.extends = @ + 1]
    BY <1>7 DEF Trades, Events
  <2>2. PICK x : x = [v EXCEPT !.until = e.until]
    OBVIOUS
  <2>3. x \in Terms /\ x.launched /\ x.until # 0 /\ x.graduatedAt = v.graduatedAt
    BY <2>1, <2>2 DEF Terms
  <2>4. w = [x EXCEPT !.extends = @ + 1]
    BY <2>1, <2>2 DEF Terms
  <2> QED BY <2>1, <2>3, <2>4 DEF Terms
<1>8. CASE e.kind = "FeesCollected"
  <2>1. /\ v.launched /\ e.creator \in Nat /\ e.treasury \in Nat
        /\ w = [v EXCEPT !.collected = @ + e.creator + e.treasury]
    BY <1>8 DEF Trades, Events
  <2> QED BY <2>1 DEF Terms
<1>9. CASE e.kind = "Reclaimed"
  <2>1. v.launched /\ w = [v EXCEPT !.reclaimed = TRUE]
    BY <1>9 DEF Trades
  <2> QED BY <2>1 DEF Terms
<1> QED BY <1>1, <1>2, <1>3, <1>4, <1>5, <1>6, <1>7, <1>8, <1>9

LEMMA CurveStepTyped ==
    ASSUME NEW e \in Events, NEW c \in Curves, NEW d, CurveStep(e, c, d)
    PROVE  d \in Curves
  BY DEF CurveStep, Events, Curves, Trades, BuyVolume, SellVolume

LEMMA LeadsNowhere ==
    ASSUME NEW t, NEW b, NEW v \in Terms, NEW c \in Curves
    PROVE  Leads(t, b, <<>>, v, c, v, c)
<1>1. PICK p, q : p = [k \in {0} |-> v] /\ q = [k \in {0} |-> c]
  OBVIOUS
<1>2. Len(<<>>) = 0 /\ 1..0 = {}
  OBVIOUS
<1>3. Traced(p, q, t, b, <<>>)
  BY <1>1, <1>2 DEF Traced
<1> QED BY <1>1, <1>2, <1>3 DEF Leads

LEMMA LeadsOn ==
    ASSUME NEW t, NEW b \in Nat, NEW events \in Seq(Events), NEW e \in Events,
           NEW v, NEW c, NEW w, NEW d, Leads(t, b, events, v, c, w, d),
           NEW x, NEW y, StepOf(t, b, e, w, d, x, y)
    PROVE  Leads(t, b, Append(events, e), v, c, x, y) /\ Append(events, e) \in Seq(Events)
<1> DEFINE N == Len(events)
           after == Append(events, e)
<1>1. PICK p, q : /\ Traced(p, q, t, b, events)
                  /\ p[0] = v /\ q[0] = c /\ p[N] = w /\ q[N] = d
  BY DEF Leads
<1>2. /\ N \in Nat /\ Len(after) = N + 1 /\ after[N + 1] = e /\ after \in Seq(Events)
      /\ \A k \in 1..N : after[k] = events[k]
  OBVIOUS
<1>3. PICK r, s : /\ r = [k \in 0..(N + 1) |-> IF k = N + 1 THEN x ELSE p[k]]
                  /\ s = [k \in 0..(N + 1) |-> IF k = N + 1 THEN y ELSE q[k]]
  OBVIOUS
<1>4. w \in Terms /\ d \in Curves
  <2>1. N = 0 \/ N \in 1..N
    BY <1>2
  <2> QED BY <1>1, <2>1 DEF Traced
<1>5. x \in Terms /\ y \in Curves
  BY <1>4, TermsStepTyped, CurveStepTyped DEF StepOf
<1> HIDE DEF N, after
<1>6. r[0] = v /\ s[0] = c /\ r[N] = w /\ s[N] = d /\ r[N + 1] = x /\ s[N + 1] = y
  BY <1>1, <1>2, <1>3
<1>7. ASSUME NEW k \in 1..(N + 1)
      PROVE  /\ r[k] \in Terms /\ s[k] \in Curves
             /\ StepOf(t, b, after[k], r[k - 1], s[k - 1], r[k], s[k])
  <2>1. CASE k = N + 1
    <3>1. k - 1 = N
      BY <1>2, <2>1
    <3> QED BY <1>2, <1>5, <1>6, <2>1, <3>1
  <2>2. CASE k \in 1..N
    <3>1. r[k] = p[k] /\ s[k] = q[k] /\ r[k - 1] = p[k - 1] /\ s[k - 1] = q[k - 1]
      BY <1>2, <1>3, <2>2
    <3>2. /\ p[k] \in Terms /\ q[k] \in Curves
          /\ StepOf(t, b, events[k], p[k - 1], q[k - 1], p[k], q[k])
      BY <1>1, <2>2 DEF Traced, N
    <3> QED BY <1>2, <2>2, <3>1, <3>2
  <2> QED BY <1>2, <2>1, <2>2
<1>8. Traced(r, s, t, b, after)
  <2>1. r[0] \in Terms /\ s[0] \in Curves
    BY <1>1, <1>6 DEF Traced
  <2> QED BY <1>2, <1>7, <2>1 DEF Traced
<1>9. Leads(t, b, after, v, c, x, y)
  BY <1>2, <1>6, <1>8 DEF Leads
<1> QED BY <1>2, <1>9 DEF after

LEMMA LeadsBy ==
    ASSUME NEW t, NEW b \in Nat, NEW e \in Events, NEW v \in Terms, NEW c \in Curves,
           NEW w, NEW d, StepOf(t, b, e, v, c, w, d)
    PROVE  Leads(t, b, <<e>>, v, c, w, d) /\ <<e>> \in Seq(Events)
<1>1. <<>> \in Seq(Events) /\ <<e>> = Append(<<>>, e)
  OBVIOUS
<1>2. Leads(t, b, <<>>, v, c, v, c)
  BY LeadsNowhere
<1> QED BY <1>1, <1>2, LeadsOn

\* Events of other launches say nothing.
LEMMA LeadsPast ==
    ASSUME NEW t, NEW b, NEW events \in Seq(Events), NEW v \in Terms, NEW c \in Curves,
           \A k \in 1..Len(events) : events[k].token # t
    PROVE  Leads(t, b, events, v, c, v, c)
<1>1. PICK p, q : p = [k \in 0..Len(events) |-> v] /\ q = [k \in 0..Len(events) |-> c]
  OBVIOUS
<1>2. /\ Len(events) \in Nat /\ \A k \in 0..Len(events) : p[k] = v /\ q[k] = c
  BY <1>1
<1>3. Traced(p, q, t, b, events)
  BY <1>2 DEF Traced, StepOf
<1> QED BY <1>2, <1>3 DEF Leads

LEMMA LeadsThrough ==
    ASSUME NEW t, NEW b, NEW first \in Seq(Events), NEW second \in Seq(Events),
           NEW v, NEW c, NEW w, NEW d, NEW x, NEW y,
           Leads(t, b, first, v, c, w, d), Leads(t, b, second, w, d, x, y)
    PROVE  Leads(t, b, first \o second, v, c, x, y) /\ first \o second \in Seq(Events)
<1> DEFINE M == Len(first)
           N == Len(second)
           both == first \o second
<1>1. PICK p, q : /\ Traced(p, q, t, b, first)
                  /\ p[0] = v /\ q[0] = c /\ p[M] = w /\ q[M] = d
  BY DEF Leads
<1>2. PICK f, g : /\ Traced(f, g, t, b, second)
                  /\ f[0] = w /\ g[0] = d /\ f[N] = x /\ g[N] = y
  BY DEF Leads
<1>3. /\ M \in Nat /\ N \in Nat /\ Len(both) = M + N /\ both \in Seq(Events)
      /\ \A k \in 1..M : both[k] = first[k]
      /\ \A k \in 1..N : both[M + k] = second[k]
  OBVIOUS
<1>4. PICK r, s : /\ r = [k \in 0..(M + N) |-> IF k <= M THEN p[k] ELSE f[k - M]]
                  /\ s = [k \in 0..(M + N) |-> IF k <= M THEN q[k] ELSE g[k - M]]
  OBVIOUS
<1>5. \A k \in 1..M : /\ p[k] \in Terms /\ q[k] \in Curves
                      /\ StepOf(t, b, first[k], p[k - 1], q[k - 1], p[k], q[k])
  BY <1>1 DEF Traced
<1>6. \A k \in 1..N : /\ f[k] \in Terms /\ g[k] \in Curves
                      /\ StepOf(t, b, second[k], f[k - 1], g[k - 1], f[k], g[k])
  BY <1>2 DEF Traced
<1>7. p[0] \in Terms /\ q[0] \in Curves
  BY <1>1 DEF Traced
<1> HIDE DEF M, N, both
<1>8. /\ \A k \in 0..M : r[k] = p[k] /\ s[k] = q[k]
      /\ \A k \in 0..N : r[M + k] = f[k] /\ s[M + k] = g[k]
  <2>1. ASSUME NEW k \in 0..M PROVE r[k] = p[k] /\ s[k] = q[k]
    BY <1>3, <1>4
  <2>2. ASSUME NEW k \in 0..N PROVE r[M + k] = f[k] /\ s[M + k] = g[k]
    <3>1. CASE k = 0
      BY <1>1, <1>2, <1>3, <1>4, <3>1
    <3>2. CASE k # 0
      <4>1. M + k \in 0..(M + N) /\ ~(M + k <= M) /\ (M + k) - M = k
        BY <1>3, <3>2
      <4> QED BY <1>4, <4>1
    <3> QED BY <3>1, <3>2
  <2> QED BY <2>1, <2>2
<1>9. ASSUME NEW k \in 1..(M + N)
      PROVE  /\ r[k] \in Terms /\ s[k] \in Curves
             /\ StepOf(t, b, both[k], r[k - 1], s[k - 1], r[k], s[k])
  <2>1. CASE k <= M
    <3>1. k \in 1..M /\ k \in 0..M /\ k - 1 \in 0..M
      BY <1>3, <2>1
    <3> QED BY <1>3, <1>5, <1>8, <3>1
  <2>2. CASE ~(k <= M)
    <3>1. PICK j : j = k - M
      OBVIOUS
    <3>2. j \in 1..N /\ j \in 0..N /\ j - 1 \in 0..N /\ k = M + j /\ k - 1 = M + (j - 1)
      BY <1>3, <2>2, <3>1
    <3>3. /\ both[k] = second[j] /\ r[k] = f[j] /\ s[k] = g[j]
          /\ r[k - 1] = f[j - 1] /\ s[k - 1] = g[j - 1]
      BY <1>3, <1>8, <3>2
    <3> QED BY <1>6, <3>2, <3>3
  <2> QED BY <2>1, <2>2
<1>10. Traced(r, s, t, b, both)
  <2>1. 0 \in 0..M
    BY <1>3
  <2> QED BY <1>3, <1>7, <1>8, <1>9, <2>1 DEF Traced
<1>11. r[0] = v /\ s[0] = c /\ r[M + N] = x /\ s[M + N] = y
  <2>1. 0 \in 0..M /\ N \in 0..N
    BY <1>3
  <2> QED BY <1>1, <1>2, <1>8, <2>1
<1>12. Leads(t, b, both, v, c, x, y)
  BY <1>3, <1>10, <1>11 DEF Leads
<1> QED BY <1>3, <1>12 DEF both

-----------------------------------------------------------------------------
(* The chain: what a block's events lead to is the ledger after it.         *)

Locks == [until : Nat, extends : Nat, collected : Nat, reclaimed : BOOLEAN]
Entries == [launched : BOOLEAN, carve : Nat, permanent : BOOLEAN, sold : Int, traded : Nat,
            trades : Nat, graduatedAt : Nat, raised : Nat, claimed : Nat,
            lock : Locks, held : [Accounts -> Int]]

EntryOK(e) ==
    /\ e \in Entries
    /\ e.sold <= Allocation
    /\ ~e.launched => TermsOf(e) = NoTerms /\ CurveOf(e) = NoCurve
    /\ e.lock.until = 0 <=> e.graduatedAt = 0
    /\ e.lock.until = 0 => e.lock.extends = 0 /\ e.lock.collected = 0 /\ ~e.lock.reclaimed

LEMMA ViewsTyped ==
    ASSUME NEW e, EntryOK(e)
    PROVE  TermsOf(e) \in Terms /\ CurveOf(e) \in Curves
  BY Sizes DEF EntryOK, Entries, Locks, TermsOf, CurveOf, Terms, Curves

\* What a change of the lock, or of the curve, leaves alone.
SameTerms(entry, e) ==
    /\ entry.launched = e.launched /\ entry.carve = e.carve /\ entry.permanent = e.permanent
    /\ entry.graduatedAt = e.graduatedAt /\ entry.raised = e.raised
    /\ entry.claimed = e.claimed

SameCurve(entry, e) ==
    entry.sold = e.sold /\ entry.traded = e.traded /\ entry.trades = e.trades

Curve(entry, x, y, z) == entry.sold = x /\ entry.traded = y /\ entry.trades = z

LEMMA WithLock ==
    ASSUME NEW e \in Entries, NEW lock \in Locks, NEW entry, entry = [e EXCEPT !.lock = lock]
    PROVE  /\ entry \in Entries /\ entry.lock = lock
           /\ SameTerms(entry, e) /\ SameCurve(entry, e)
  BY DEF Entries, SameTerms, SameCurve

AfterTrade(entry, e, x, y, z, held) ==
    entry = [e EXCEPT !.sold = x, !.traded = y, !.trades = z, !.held = held]

LEMMA WithTrade ==
    ASSUME NEW e \in Entries, NEW x \in Int, NEW y \in Nat, NEW z \in Nat,
           NEW held \in [Accounts -> Int], NEW entry, AfterTrade(entry, e, x, y, z, held)
    PROVE  /\ entry \in Entries /\ entry.lock = e.lock
           /\ SameTerms(entry, e) /\ Curve(entry, x, y, z)
<1>1. PICK f : f = [e EXCEPT !.sold = x, !.traded = y]
  OBVIOUS
<1>2. /\ f \in Entries /\ f.lock = e.lock
      /\ f.launched = e.launched /\ f.carve = e.carve /\ f.permanent = e.permanent
      /\ f.sold = x /\ f.traded = y /\ f.graduatedAt = e.graduatedAt /\ f.raised = e.raised
      /\ f.claimed = e.claimed
  BY <1>1 DEF Entries
<1>3. entry = [f EXCEPT !.trades = z, !.held = held]
  BY <1>1 DEF AfterTrade
<1> QED BY <1>2, <1>3 DEF Entries, SameTerms, Curve

LEMMA TermsEqual ==
    ASSUME NEW v \in Terms, NEW w \in Terms,
           v.launched = w.launched, v.duration = w.duration, v.carve = w.carve,
           v.permanent = w.permanent, v.graduatedAt = w.graduatedAt, v.raised = w.raised,
           v.claimed = w.claimed, v.until = w.until, v.extends = w.extends,
           v.collected = w.collected, v.reclaimed = w.reclaimed
    PROVE  v = w
  BY DEF Terms

\* w is v but for the lock.
SameButLock(w, v) ==
    /\ w.launched = v.launched /\ w.duration = v.duration /\ w.carve = v.carve
    /\ w.permanent = v.permanent /\ w.graduatedAt = v.graduatedAt /\ w.raised = v.raised
    /\ w.claimed = v.claimed

LEMMA LockUpdates ==
    ASSUME NEW v \in Terms, NEW w \in Terms, SameButLock(w, v)
    PROVE  /\ w.until = v.until /\ w.extends = v.extends /\ w.collected = v.collected
                /\ w.reclaimed = TRUE
              => w = [v EXCEPT !.reclaimed = TRUE]
           /\ w.extends = v.extends + 1 /\ w.collected = v.collected
                /\ w.reclaimed = v.reclaimed
              => w = [v EXCEPT !.until = w.until, !.extends = @ + 1]
<1>1. ASSUME w.until = v.until, w.extends = v.extends, w.collected = v.collected, w.reclaimed = TRUE
      PROVE  w = [v EXCEPT !.reclaimed = TRUE]
  <2>1. PICK x : x = [v EXCEPT !.reclaimed = TRUE]
    OBVIOUS
  <2>2. /\ x \in Terms /\ SameButLock(x, v) /\ x.until = v.until /\ x.extends = v.extends
        /\ x.collected = v.collected /\ x.reclaimed = TRUE
    BY <2>1 DEF Terms, SameButLock
  <2> QED BY <1>1, <2>1, <2>2, TermsEqual DEF SameButLock
<1>2. ASSUME w.extends = v.extends + 1, w.collected = v.collected, w.reclaimed = v.reclaimed
      PROVE  w = [v EXCEPT !.until = w.until, !.extends = @ + 1]
  <2>1. PICK u : u = w.until
    OBVIOUS
  <2>2. PICK x : x = [v EXCEPT !.until = u]
    OBVIOUS
  <2>3. /\ x \in Terms /\ SameButLock(x, v) /\ x.until = u /\ x.extends = v.extends
        /\ x.collected = v.collected /\ x.reclaimed = v.reclaimed
    BY <2>1, <2>2 DEF Terms, SameButLock
  <2>4. PICK y : y = [x EXCEPT !.extends = @ + 1]
    OBVIOUS
  <2>5. /\ y \in Terms /\ SameButLock(y, x) /\ y.until = u /\ y.extends = x.extends + 1
        /\ y.collected = x.collected /\ y.reclaimed = x.reclaimed
    BY <2>3, <2>4 DEF Terms, SameButLock
  <2>6. y = [v EXCEPT !.until = u, !.extends = @ + 1]
    BY <2>2, <2>3, <2>4 DEF Terms
  <2>7. w = y
    BY <1>2, <2>1, <2>3, <2>5, TermsEqual DEF SameButLock
  <2> QED BY <2>1, <2>6, <2>7
<1> QED BY <1>1, <1>2

\* w is v with fees collected.
Collected(w, v, x, y) ==
    /\ SameButLock(w, v) /\ w.until = v.until /\ w.extends = v.extends
    /\ w.reclaimed = v.reclaimed /\ w.collected = v.collected + x + y

LEMMA CollectedIs ==
    ASSUME NEW v \in Terms, NEW w \in Terms, NEW x \in Nat, NEW y \in Nat, Collected(w, v, x, y)
    PROVE  w = [v EXCEPT !.collected = @ + x + y]
<1>1. PICK n : n = v.collected + x + y
  OBVIOUS
<1>2. PICK u : u = [v EXCEPT !.collected = n]
  OBVIOUS
<1>3. n \in Nat
  BY <1>1 DEF Terms
<1>4. /\ u \in Terms /\ SameButLock(u, v) /\ u.until = v.until /\ u.extends = v.extends
      /\ u.collected = n /\ u.reclaimed = v.reclaimed
  BY <1>2, <1>3 DEF Terms, SameButLock
<1>5. w = u
  BY <1>1, <1>4, TermsEqual DEF SameButLock, Collected
<1> QED BY <1>1, <1>2, <1>5

LedgerOK(ledger) == ledger \in [Tokens -> Entries] /\ \A t \in Tokens : EntryOK(ledger[t])

BlockLeads(b, before, events, after) ==
    \A t \in Tokens : Leads(t, b, events, TermsOf(before[t]), CurveOf(before[t]),
                            TermsOf(after[t]), CurveOf(after[t]))

Blocks == [id : Nat, events : Seq(Events), ledger : [Tokens -> Entries]]

ChainTyped ==
    /\ chain \in Seq(Blocks) /\ Len(chain) >= 1
    /\ open \in [events : Seq(Events), ledger : [Tokens -> Entries], size : Nat]
    /\ txs \in Nat /\ faults \in Nat

\* Ids go up: a block that replaces another holds a transaction none before it held.
IdsGoUp ==
    /\ chain[1].id = 0
    /\ \A i, j \in 1..Len(chain) : i < j => chain[i].id < chain[j].id
    /\ \A i \in 1..Len(chain) : chain[i].id <= txs /\ (open.size > 0 => chain[i].id < txs)

ChainLeads ==
    /\ \A i \in 1..Len(chain) : LedgerOK(chain[i].ledger)
    /\ \A i \in 2..Len(chain) :
          BlockLeads(i - 1, chain[i - 1].ledger, chain[i].events, chain[i].ledger)

OpenLeads ==
    /\ LedgerOK(open.ledger)
    /\ BlockLeads(Len(chain), chain[Len(chain)].ledger, open.events, open.ledger)

ChainInv == ChainTyped /\ IdsGoUp /\ ChainLeads /\ OpenLeads

LEMMA LastFront ==
    ASSUME NEW S, NEW s \in Seq(S), Len(s) >= 1
    PROVE  /\ Last(s) = s[Len(s)] /\ Last(s) \in S
           /\ Front(s) \in Seq(S) /\ Len(Front(s)) = Len(s) - 1
           /\ \A i \in 1..(Len(s) - 1) : Front(s)[i] = s[i]
<1>1. Front(s) = [i \in 1..(Len(s) - 1) |-> s[i]]
  BY DEF Front, SubSeq
<1> QED BY <1>1 DEF Last

\* What a transaction of launch t has to show: its events lead from the entry to the new one.
Emitted(t, entry, events) ==
    /\ EntryOK(entry) /\ events \in Seq(Events)
    /\ \A k \in 1..Len(events) : events[k].token = t
    /\ Leads(t, Now, events, TermsOf(open.ledger[t]), CurveOf(open.ledger[t]),
             TermsOf(entry), CurveOf(entry))

LEMMA BlocksTyped ==
    ASSUME ChainTyped
    PROVE  \A i \in 1..Len(chain) : chain[i].id \in Nat /\ chain[i].events \in Seq(Events)
<1>1. \A i \in 1..Len(chain) : chain[i] \in Blocks
  BY DEF ChainTyped
<1>2. \A b \in Blocks : b.id \in Nat /\ b.events \in Seq(Events)
  BY DEF Blocks
<1> QED BY <1>1, <1>2

LEMMA TxKeepsChain ==
    ASSUME ChainInv, NEW t \in Tokens, NEW entry, NEW events,
           Emitted(t, entry, events), Tx(t, entry, events)
    PROVE  ChainInv'
<1>1. /\ chain' = chain /\ txs' = txs + 1 /\ faults' = faults
      /\ open' = [events |-> open.events \o events, size |-> open.size + 1,
                  ledger |-> [open.ledger EXCEPT ![t] = entry]]
  BY DEF Tx
<1>2. /\ open.events \in Seq(Events) /\ open.size \in Nat /\ open.ledger \in [Tokens -> Entries]
      /\ entry \in Entries /\ events \in Seq(Events) /\ Len(events) \in Nat
  BY DEF ChainInv, ChainTyped, Emitted, EntryOK
<1>3. ChainTyped'
  <2>1. open.events \o events \in Seq(Events)
    BY <1>2
  <2>2. [open.ledger EXCEPT ![t] = entry] \in [Tokens -> Entries]
    BY <1>2
  <2>3. open' \in [events : Seq(Events), ledger : [Tokens -> Entries], size : Nat]
    BY <1>1, <1>2, <2>1, <2>2
  <2> QED BY <1>1, <2>3 DEF ChainInv, ChainTyped
<1>4. IdsGoUp'
  <2>1. \A i \in 1..Len(chain) : chain[i].id \in Nat
    BY BlocksTyped DEF ChainInv
  <2>2. txs \in Nat
    BY DEF ChainInv, ChainTyped
  <2> QED BY <1>1, <2>1, <2>2 DEF ChainInv, IdsGoUp
<1>5. ChainLeads'
  BY <1>1 DEF ChainInv, ChainLeads
<1>6. OpenLeads'
  <2>1. ASSUME NEW u \in Tokens
        PROVE  /\ EntryOK(open'.ledger[u])
               /\ Leads(u, Len(chain), open'.events, TermsOf(chain[Len(chain)].ledger[u]),
                        CurveOf(chain[Len(chain)].ledger[u]), TermsOf(open'.ledger[u]),
                        CurveOf(open'.ledger[u]))
    <3>1. /\ EntryOK(open.ledger[u])
          /\ Leads(u, Len(chain), open.events, TermsOf(chain[Len(chain)].ledger[u]),
                   CurveOf(chain[Len(chain)].ledger[u]), TermsOf(open.ledger[u]),
                   CurveOf(open.ledger[u]))
      BY DEF ChainInv, OpenLeads, LedgerOK, BlockLeads
    <3>2. CASE u = t
      BY <1>1, <1>2, <3>1, <3>2, LeadsThrough DEF Emitted, Now
    <3>3. CASE u # t
      <4>1. Leads(u, Len(chain), events, TermsOf(open.ledger[u]), CurveOf(open.ledger[u]),
                  TermsOf(open.ledger[u]), CurveOf(open.ledger[u]))
        BY <1>2, <3>1, <3>3, ViewsTyped, LeadsPast DEF Emitted
      <4>2. open'.ledger[u] = open.ledger[u]
        BY <1>1, <1>2, <3>3
      <4> QED BY <1>1, <1>2, <3>1, <4>1, <4>2, LeadsThrough
    <3> QED BY <3>2, <3>3
  <2>2. open'.ledger \in [Tokens -> Entries]
    BY <1>3 DEF ChainTyped
  <2> QED BY <1>1, <2>1, <2>2 DEF OpenLeads, LedgerOK, BlockLeads
<1> QED BY <1>3, <1>4, <1>5, <1>6 DEF ChainInv

\* A transaction is one launch's, and shows what it has to.
Transacts(t) == \E entry, events : Emitted(t, entry, events) /\ Tx(t, entry, events)

LEMMA CreateLaunchTransacts ==
    ASSUME ChainInv, NEW t \in Tokens, NEW terms \in Launches, CreateLaunch(t, terms[1], terms[2])
    PROVE  Transacts(t)
<1> DEFINE e == open.ledger[t]
           entry == [e EXCEPT !.launched = TRUE, !.carve = terms[1], !.permanent = terms[2]]
           created == [kind |-> "LaunchCreated", token |-> t]
           config == [kind |-> "LaunchConfig", token |-> t, carve |-> terms[1],
                      permanent |-> terms[2]]
           mid == [NoTerms EXCEPT !.launched = TRUE]
<1>1. EntryOK(e) /\ ~e.launched /\ Tx(t, entry, <<created, config>>)
  BY DEF ChainInv, OpenLeads, LedgerOK, CreateLaunch
<1>2. terms[1] \in Nat /\ terms[2] \in BOOLEAN
  BY Sizes
<1>3. created \in Events /\ config \in Events /\ Now \in Nat
  BY <1>2 DEF Events, Now, ChainInv, ChainTyped
<1>4. TermsOf(e) = NoTerms /\ CurveOf(e) = NoCurve /\ NoTerms \in Terms /\ NoCurve \in Curves
  BY <1>1 DEF EntryOK, NoTerms, Terms, NoCurve, Curves
<1>5. /\ entry.sold = e.sold /\ entry.traded = e.traded /\ entry.trades = e.trades
      /\ entry.launched /\ entry.carve = terms[1] /\ entry.permanent = terms[2]
      /\ entry.graduatedAt = e.graduatedAt /\ entry.raised = e.raised /\ entry.claimed = e.claimed
      /\ entry.lock = e.lock /\ entry \in Entries
  BY <1>1, <1>2 DEF EntryOK, Entries
<1>6. EntryOK(entry)
  BY <1>1, <1>5 DEF EntryOK
<1> HIDE DEF entry, e
<1>7. /\ TermsOf(entry) = [mid EXCEPT !.duration = LOCK_DURATION, !.carve = terms[1],
                                      !.permanent = terms[2]]
      /\ CurveOf(entry) = NoCurve
  <2>1. mid \in Terms /\ mid.launched /\ ~mid.permanent /\ ~mid.reclaimed
    BY <1>4 DEF Terms, NoTerms
  <2>2. /\ mid.graduatedAt = 0 /\ mid.raised = 0 /\ mid.claimed = 0 /\ mid.until = 0
        /\ mid.extends = 0 /\ mid.collected = 0
    BY <1>4 DEF Terms, NoTerms
  <2>3. PICK w : w = [mid EXCEPT !.duration = LOCK_DURATION, !.carve = terms[1],
                                 !.permanent = terms[2]]
    OBVIOUS
  <2> HIDE DEF mid
  <2>4. /\ w \in Terms /\ w.launched /\ w.duration = LOCK_DURATION /\ w.carve = terms[1]
        /\ w.permanent = terms[2] /\ w.graduatedAt = 0 /\ w.raised = 0 /\ w.claimed = 0
        /\ w.until = 0 /\ w.extends = 0 /\ w.collected = 0 /\ w.reclaimed = FALSE
    BY <1>2, <2>1, <2>2, <2>3, Sizes DEF Terms
  <2>5. /\ e.graduatedAt = 0 /\ e.raised = 0 /\ e.claimed = 0 /\ e.lock.until = 0
        /\ e.lock.extends = 0 /\ e.lock.collected = 0 /\ e.lock.reclaimed = FALSE
    BY <1>4 DEF TermsOf, NoTerms
  <2>6. TermsOf(entry) \in Terms
    BY <1>6, ViewsTyped
  <2>7. PICK v : v = TermsOf(entry)
    OBVIOUS
  <2>8. /\ v \in Terms /\ v.launched /\ v.duration = LOCK_DURATION /\ v.carve = terms[1]
        /\ v.permanent = terms[2] /\ v.graduatedAt = 0 /\ v.raised = 0 /\ v.claimed = 0
        /\ v.until = 0 /\ v.extends = 0 /\ v.collected = 0 /\ v.reclaimed = FALSE
    BY <1>5, <2>5, <2>6, <2>7 DEF TermsOf
  <2>9. v = w
    BY <2>4, <2>8, TermsEqual
  <2>10. CurveOf(entry) = CurveOf(e)
    BY <1>5 DEF CurveOf
  <2> QED BY <1>4, <2>3, <2>7, <2>9, <2>10
<1>8. StepOf(t, Now, created, TermsOf(e), CurveOf(e), mid, NoCurve)
  BY <1>4 DEF StepOf, TermsStep, CurveStep, Trades
<1>9. StepOf(t, Now, config, mid, NoCurve, TermsOf(entry), CurveOf(entry))
  BY <1>7 DEF StepOf, TermsStep, CurveStep, Trades, NoTerms
<1> HIDE DEF created, config, mid
<1>10. /\ Leads(t, Now, <<created>>, TermsOf(e), CurveOf(e), mid, NoCurve)
       /\ <<created>> \in Seq(Events)
  BY <1>3, <1>4, <1>8, LeadsBy
<1>11. Leads(t, Now, Append(<<created>>, config), TermsOf(e), CurveOf(e),
             TermsOf(entry), CurveOf(entry))
  BY <1>3, <1>9, <1>10, LeadsOn
<1>12. created.token = t /\ config.token = t
  BY DEF created, config
<1>13. /\ Append(<<created>>, config) = <<created, config>> /\ <<created, config>> \in Seq(Events)
       /\ \A k \in 1..Len(<<created, config>>) : <<created, config>>[k].token = t
  BY <1>3, <1>12, PairIs
<1> QED BY <1>1, <1>6, <1>11, <1>13 DEF Transacts, Emitted, e

LEMMA OneEvent ==
    ASSUME ChainInv, NEW t \in Tokens, NEW entry, EntryOK(entry), NEW e \in Events, e.token = t,
           TermsStep(e, Now, TermsOf(open.ledger[t]), TermsOf(entry)),
           CurveStep(e, CurveOf(open.ledger[t]), CurveOf(entry))
    PROVE  Emitted(t, entry, <<e>>)
<1>1. EntryOK(open.ledger[t]) /\ Now \in Nat
  BY DEF ChainInv, OpenLeads, LedgerOK, ChainTyped, Now
<1>2. StepOf(t, Now, e, TermsOf(open.ledger[t]), CurveOf(open.ledger[t]),
             TermsOf(entry), CurveOf(entry))
  BY DEF StepOf
<1>3. TermsOf(open.ledger[t]) \in Terms /\ CurveOf(open.ledger[t]) \in Curves
  BY <1>1, ViewsTyped
<1>4. /\ Leads(t, Now, <<e>>, TermsOf(open.ledger[t]), CurveOf(open.ledger[t]),
               TermsOf(entry), CurveOf(entry))
      /\ <<e>> \in Seq(Events)
  BY <1>1, <1>2, <1>3, LeadsBy
<1>5. \A k \in 1..Len(<<e>>) : <<e>>[k].token = t
  OBVIOUS
<1> QED BY <1>4, <1>5 DEF Emitted

LEMMA ClaimTransacts ==
    ASSUME ChainInv, NEW t \in Tokens, Claim(t)
    PROVE  Transacts(t)
<1> DEFINE e == open.ledger[t]
           entry == [e EXCEPT !.claimed = @ + 1]
           event == [kind |-> "Claimed", token |-> t, amount |-> 1]
<1>1. EntryOK(e) /\ e.graduatedAt # 0 /\ Tx(t, entry, <<event>>)
  BY DEF ChainInv, OpenLeads, LedgerOK, Claim
<1>2. /\ entry \in Entries /\ entry.claimed = e.claimed + 1
      /\ entry.launched = e.launched /\ entry.carve = e.carve /\ entry.permanent = e.permanent
      /\ entry.sold = e.sold /\ entry.traded = e.traded /\ entry.trades = e.trades
      /\ entry.graduatedAt = e.graduatedAt /\ entry.raised = e.raised /\ entry.lock = e.lock
  BY <1>1 DEF EntryOK, Entries
<1>3. e.launched /\ event \in Events
  BY <1>1 DEF EntryOK, TermsOf, NoTerms, Events
<1> HIDE DEF e, entry
<1>4. EntryOK(entry)
  BY <1>1, <1>2, <1>3 DEF EntryOK
<1>5. TermsOf(entry) = [TermsOf(e) EXCEPT !.claimed = @ + event.amount]
  BY <1>2 DEF TermsOf
<1>6. TermsStep(event, Now, TermsOf(e), TermsOf(entry))
  BY <1>3, <1>5 DEF TermsStep, TermsOf, Trades
<1>7. CurveStep(event, CurveOf(e), CurveOf(entry))
  BY <1>2 DEF CurveStep, CurveOf, Trades
<1>8. event.token = t
  OBVIOUS
<1> QED BY <1>1, <1>3, <1>4, <1>6, <1>7, <1>8, OneEvent DEF Transacts, e

LEMMA LockChanged ==
    ASSUME NEW e, EntryOK(e), e.lock.until # 0, NEW lock \in Locks, lock.until # 0,
           NEW entry, entry = [e EXCEPT !.lock = lock]
    PROVE  /\ EntryOK(entry) /\ e.launched /\ entry.lock = lock
           /\ SameTerms(entry, e) /\ SameCurve(entry, e)
<1>1. e \in Entries
  BY DEF EntryOK, SameTerms, SameCurve
<1>2. /\ entry \in Entries /\ entry.lock = lock
      /\ SameTerms(entry, e) /\ SameCurve(entry, e)
  BY <1>1, WithLock
<1>3. e.launched
  BY DEF EntryOK, TermsOf, NoTerms
<1>4. EntryOK(entry)
  BY <1>2, <1>3 DEF EntryOK, SameTerms, SameCurve
<1> QED BY <1>2, <1>3, <1>4

LEMMA ExtendTransacts ==
    ASSUME ChainInv, NEW t \in Tokens, NEW until \in Nat, until # 0, Extend(t, until)
    PROVE  Transacts(t)
<1> DEFINE e == open.ledger[t]
           entry == [e EXCEPT !.lock.until = until, !.lock.extends = @ + 1]
           event == [kind |-> "LockExtended", token |-> t, until |-> until]
<1>1. EntryOK(e) /\ e.lock.until # 0 /\ Tx(t, entry, <<event>>)
  BY DEF ChainInv, OpenLeads, LedgerOK, Extend, Locked
<1>2. e \in Entries /\ e.lock \in Locks
  BY <1>1 DEF EntryOK, Entries
<1>3. PICK lock : lock = [e.lock EXCEPT !.until = until, !.extends = @ + 1]
  OBVIOUS
<1>4. /\ lock \in Locks /\ lock.until = until /\ lock.extends = e.lock.extends + 1
      /\ lock.collected = e.lock.collected /\ lock.reclaimed = e.lock.reclaimed
  <2>1. PICK l : l = [e.lock EXCEPT !.until = until]
    OBVIOUS
  <2>2. /\ l \in Locks /\ l.until = until /\ l.extends = e.lock.extends
        /\ l.collected = e.lock.collected /\ l.reclaimed = e.lock.reclaimed
    BY <1>2, <2>1 DEF Locks
  <2>3. lock = [l EXCEPT !.extends = @ + 1]
    BY <1>2, <1>3, <2>1 DEF Locks
  <2> QED BY <2>2, <2>3 DEF Locks
<1>5. entry = [e EXCEPT !.lock = lock]
  BY <1>2, <1>3
<1>6. event \in Events /\ event.token = t
  BY DEF Events
<1> HIDE DEF e, entry
<1>7. /\ EntryOK(entry) /\ e.launched /\ entry.lock = lock
      /\ SameTerms(entry, e) /\ SameCurve(entry, e)
  <2>1. lock.until # 0
    BY <1>1, <1>4
  <2> QED BY <1>1, <1>4, <1>5, <2>1, LockChanged
<1>8. /\ TermsOf(entry) \in Terms /\ TermsOf(e) \in Terms
      /\ SameButLock(TermsOf(entry), TermsOf(e))
  BY <1>1, <1>7, ViewsTyped DEF SameButLock, TermsOf, SameTerms, SameCurve
<1>9. TermsOf(entry) = [TermsOf(e) EXCEPT !.until = event.until, !.extends = @ + 1]
  <2>1. /\ TermsOf(entry).until = event.until /\ TermsOf(entry).extends = TermsOf(e).extends + 1
        /\ TermsOf(entry).collected = TermsOf(e).collected
        /\ TermsOf(entry).reclaimed = TermsOf(e).reclaimed
    BY <1>4, <1>7 DEF TermsOf, SameTerms, SameCurve
  <2>2. PICK v, w : v = TermsOf(e) /\ w = TermsOf(entry)
    OBVIOUS
  <2> HIDE DEF event
  <2>3. w = [v EXCEPT !.until = w.until, !.extends = @ + 1]
    BY <1>8, <2>1, <2>2, LockUpdates
  <2> QED BY <2>1, <2>2, <2>3
<1>10. TermsStep(event, Now, TermsOf(e), TermsOf(entry))
  BY <1>1, <1>7, <1>9 DEF TermsStep, TermsOf, Trades, SameTerms, SameCurve
<1>11. CurveStep(event, CurveOf(e), CurveOf(entry))
  BY <1>7 DEF CurveStep, CurveOf, Trades, SameTerms, SameCurve
<1> QED BY <1>1, <1>6, <1>7, <1>10, <1>11, OneEvent DEF Transacts, e

LEMMA CollectTransacts ==
    ASSUME ChainInv, NEW t \in Tokens, Collect(t, 1, 2)
    PROVE  Transacts(t)
<1> DEFINE e == open.ledger[t]
           entry == [e EXCEPT !.lock.collected = @ + 1 + 2]
           event == [kind |-> "FeesCollected", token |-> t, creator |-> 1, treasury |-> 2]
<1>1. EntryOK(e) /\ e.lock.until # 0 /\ Tx(t, entry, <<event>>)
  BY DEF ChainInv, OpenLeads, LedgerOK, Collect, Locked
<1>2. e \in Entries /\ e.lock \in Locks
  BY <1>1 DEF EntryOK, Entries
<1>3. PICK lock : lock = [e.lock EXCEPT !.collected = @ + 1 + 2]
  OBVIOUS
<1>4. /\ lock \in Locks /\ lock.until = e.lock.until /\ lock.extends = e.lock.extends
      /\ lock.collected = e.lock.collected + 1 + 2 /\ lock.reclaimed = e.lock.reclaimed
  BY <1>2, <1>3 DEF Locks
<1>5. entry = [e EXCEPT !.lock = lock]
  BY <1>2, <1>3
<1>6. event \in Events /\ event.token = t
  BY DEF Events
<1> HIDE DEF e, entry
<1>7. /\ EntryOK(entry) /\ e.launched /\ entry.lock = lock
      /\ SameTerms(entry, e) /\ SameCurve(entry, e)
  <2>1. lock.until # 0
    BY <1>1, <1>4
  <2> QED BY <1>1, <1>4, <1>5, <2>1, LockChanged
<1>8. /\ TermsOf(entry) \in Terms /\ TermsOf(e) \in Terms
      /\ SameButLock(TermsOf(entry), TermsOf(e))
  BY <1>1, <1>7, ViewsTyped DEF SameButLock, TermsOf, SameTerms, SameCurve
<1>9. TermsOf(entry) = [TermsOf(e) EXCEPT !.collected = @ + event.creator + event.treasury]
  <2>1. /\ TermsOf(entry).until = TermsOf(e).until /\ TermsOf(entry).extends = TermsOf(e).extends
        /\ TermsOf(entry).collected = TermsOf(e).collected + event.creator + event.treasury
        /\ TermsOf(entry).reclaimed = TermsOf(e).reclaimed
    BY <1>4, <1>7 DEF TermsOf, SameTerms, SameCurve
  <2>2. PICK x \in Nat, y \in Nat : x = event.creator /\ y = event.treasury
    OBVIOUS
  <2>3. PICK v, w : v = TermsOf(e) /\ w = TermsOf(entry)
    OBVIOUS
  <2> HIDE DEF event
  <2>4. Collected(w, v, x, y)
    BY <1>8, <2>1, <2>2, <2>3 DEF Collected
  <2>5. w = [v EXCEPT !.collected = @ + x + y]
    BY <1>8, <2>3, <2>4, CollectedIs
  <2> QED BY <2>2, <2>3, <2>5
<1>10. TermsStep(event, Now, TermsOf(e), TermsOf(entry))
  BY <1>1, <1>7, <1>9 DEF TermsStep, TermsOf, Trades, SameTerms, SameCurve
<1>11. CurveStep(event, CurveOf(e), CurveOf(entry))
  BY <1>7 DEF CurveStep, CurveOf, Trades, SameTerms, SameCurve
<1> QED BY <1>1, <1>6, <1>7, <1>10, <1>11, OneEvent DEF Transacts, e

LEMMA ReclaimTransacts ==
    ASSUME ChainInv, NEW t \in Tokens, Reclaim(t)
    PROVE  Transacts(t)
<1> DEFINE e == open.ledger[t]
           entry == [e EXCEPT !.lock.reclaimed = TRUE]
           event == [kind |-> "Reclaimed", token |-> t]
<1>1. EntryOK(e) /\ e.lock.until # 0 /\ Tx(t, entry, <<event>>)
  BY DEF ChainInv, OpenLeads, LedgerOK, Reclaim, Locked
<1>2. e \in Entries /\ e.lock \in Locks
  BY <1>1 DEF EntryOK, Entries
<1>3. PICK lock : lock = [e.lock EXCEPT !.reclaimed = TRUE]
  OBVIOUS
<1>4. /\ lock \in Locks /\ lock.until = e.lock.until /\ lock.extends = e.lock.extends
      /\ lock.collected = e.lock.collected /\ lock.reclaimed = TRUE
  BY <1>2, <1>3 DEF Locks
<1>5. entry = [e EXCEPT !.lock = lock]
  BY <1>2, <1>3
<1>6. event \in Events /\ event.token = t
  BY DEF Events
<1> HIDE DEF e, entry
<1>7. /\ EntryOK(entry) /\ e.launched /\ entry.lock = lock
      /\ SameTerms(entry, e) /\ SameCurve(entry, e)
  <2>1. lock.until # 0
    BY <1>1, <1>4
  <2> QED BY <1>1, <1>4, <1>5, <2>1, LockChanged
<1>8. /\ TermsOf(entry) \in Terms /\ TermsOf(e) \in Terms
      /\ SameButLock(TermsOf(entry), TermsOf(e))
  BY <1>1, <1>7, ViewsTyped DEF SameButLock, TermsOf, SameTerms, SameCurve
<1>9. TermsOf(entry) = [TermsOf(e) EXCEPT !.reclaimed = TRUE]
  <2>1. /\ TermsOf(entry).until = TermsOf(e).until /\ TermsOf(entry).extends = TermsOf(e).extends
        /\ TermsOf(entry).collected = TermsOf(e).collected /\ TermsOf(entry).reclaimed = TRUE
    BY <1>4, <1>7 DEF TermsOf, SameTerms, SameCurve
  <2> QED BY <1>8, <2>1, LockUpdates
<1>10. TermsStep(event, Now, TermsOf(e), TermsOf(entry))
  BY <1>1, <1>7, <1>9 DEF TermsStep, TermsOf, Trades, SameTerms, SameCurve
<1>11. CurveStep(event, CurveOf(e), CurveOf(entry))
  BY <1>7 DEF CurveStep, CurveOf, Trades, SameTerms, SameCurve
<1> QED BY <1>1, <1>6, <1>7, <1>10, <1>11, OneEvent DEF Transacts, e

LEMMA SellTransacts ==
    ASSUME ChainInv, NEW t \in Tokens, NEW a \in Accounts, NEW n \in 1..Allocation, Sell(t, a, n)
    PROVE  Transacts(t)
<1> DEFINE e == open.ledger[t]
           entry == [e EXCEPT !.sold = @ - n, !.traded = @ + n, !.trades = @ + 1,
                              !.held[a] = @ - n]
           event == [kind |-> "Sold", token |-> t, trader |-> a, ethOut |-> n - 1,
                     fee |-> 1, amount |-> n, sold |-> e.sold - n]
<1>1. EntryOK(e) /\ e.launched /\ e.graduatedAt = 0 /\ Tx(t, entry, <<event>>)
  BY DEF ChainInv, OpenLeads, LedgerOK, Sell, Trading
<1>2. n \in Nat \ {0} /\ n - 1 \in Nat /\ Allocation \in Nat
  BY Sizes
<1>3. /\ e \in Entries /\ e.sold \in Int /\ e.traded \in Nat /\ e.trades \in Nat
      /\ e.held \in [Accounts -> Int]
  BY <1>1 DEF EntryOK, Entries
<1>4. PICK held : held = [e.held EXCEPT ![a] = @ - n]
  OBVIOUS
<1>5. held \in [Accounts -> Int]
  BY <1>2, <1>3, <1>4
<1>6. PICK x \in Int, y \in Nat, z \in Nat :
         x = e.sold - n /\ y = e.traded + n /\ z = e.trades + 1
  BY <1>2, <1>3
<1>7. /\ entry \in Entries /\ entry.lock = e.lock
      /\ SameTerms(entry, e) /\ Curve(entry, x, y, z)
  <2>1. AfterTrade(entry, e, x, y, z, held)
    BY <1>4, <1>6 DEF AfterTrade
  <2> HIDE DEF entry, e
  <2> QED BY <1>3, <1>5, <2>1, WithTrade
<1>8. event \in Events /\ event.token = t
  BY <1>2, <1>3 DEF Events
<1> HIDE DEF e, entry
<1>9. EntryOK(entry)
  BY <1>1, <1>2, <1>3, <1>6, <1>7 DEF EntryOK, SameTerms, Curve
<1>10. TermsOf(entry) = TermsOf(e)
  BY <1>7 DEF TermsOf, SameTerms
<1>11. TermsStep(event, Now, TermsOf(e), TermsOf(entry))
  BY <1>1, <1>10 DEF TermsStep, TermsOf, Trades
<1>12. CurveStep(event, CurveOf(e), CurveOf(entry))
  BY <1>2, <1>3, <1>6, <1>7 DEF CurveStep, CurveOf, Trades, SellVolume, Curve
<1> QED BY <1>1, <1>8, <1>9, <1>11, <1>12, OneEvent DEF Transacts, e

LEMMA TransferTransacts ==
    ASSUME ChainInv, NEW t \in Tokens, NEW a \in Accounts, NEW b \in Accounts, Transfer(t, a, b)
    PROVE  Transacts(t)
<1> DEFINE e == open.ledger[t]
           held == [e.held EXCEPT ![a] = 0, ![b] = @ + e.held[a]]
           entry == [e EXCEPT !.held = held]
<1>1. EntryOK(e) /\ Tx(t, entry, <<>>)
  BY DEF ChainInv, OpenLeads, LedgerOK, Transfer
<1>2. e \in Entries /\ e.held \in [Accounts -> Int]
  BY <1>1 DEF EntryOK, Entries
<1>3. held \in [Accounts -> Int]
  BY <1>2
<1> HIDE DEF held
<1>4. /\ entry \in Entries /\ entry.lock = e.lock
      /\ SameTerms(entry, e) /\ SameCurve(entry, e)
  BY <1>2, <1>3 DEF Entries, SameTerms, SameCurve
<1> HIDE DEF e, entry
<1>5. TermsOf(entry) = TermsOf(e) /\ CurveOf(entry) = CurveOf(e)
  BY <1>4 DEF TermsOf, CurveOf, SameTerms, SameCurve
<1>6. EntryOK(entry)
  BY <1>1, <1>4, <1>5 DEF EntryOK, SameTerms, SameCurve
<1>7. Leads(t, Now, <<>>, TermsOf(e), CurveOf(e), TermsOf(e), CurveOf(e))
  BY <1>1, ViewsTyped, LeadsNowhere
<1>8. <<>> \in Seq(Events) /\ \A k \in 1..Len(<<>>) : <<>>[k].token = t
  OBVIOUS
<1> QED BY <1>1, <1>5, <1>6, <1>7, <1>8 DEF Transacts, Emitted, e

\* The curve's side of a buy, whether it closes the curve or not.
AfterBuy(entry, e, a, out) ==
    entry = [e EXCEPT !.sold = @ + out, !.traded = @ + out + 1, !.trades = @ + 1,
                      !.held[a] = @ + out]

LEMMA BuyTrades ==
    ASSUME NEW e, EntryOK(e), e.launched, e.graduatedAt = 0, NEW a \in Accounts, NEW out \in Nat,
           e.sold + out <= Allocation, NEW entry, AfterBuy(entry, e, a, out)
    PROVE  /\ EntryOK(entry) /\ TermsOf(entry) = TermsOf(e)
           /\ CurveOf(entry) = [sold |-> e.sold + out, traded |-> e.traded + (out + 1),
                                trades |-> e.trades + 1]
<1>1. /\ e \in Entries /\ e.sold \in Int /\ e.traded \in Nat /\ e.trades \in Nat
      /\ e.held \in [Accounts -> Int]
  BY DEF EntryOK, Entries
<1>2. PICK held : held = [e.held EXCEPT ![a] = @ + out]
  OBVIOUS
<1>3. held \in [Accounts -> Int]
  BY <1>1, <1>2
<1>4. PICK x \in Int, y \in Nat, z \in Nat :
         x = e.sold + out /\ y = e.traded + out + 1 /\ z = e.trades + 1
  BY <1>1
<1>5. AfterTrade(entry, e, x, y, z, held)
  BY <1>2, <1>4 DEF AfterTrade, AfterBuy
<1>6. /\ entry \in Entries /\ entry.lock = e.lock
      /\ SameTerms(entry, e) /\ Curve(entry, x, y, z)
  BY <1>1, <1>3, <1>5, WithTrade
<1>7. TermsOf(entry) = TermsOf(e)
  BY <1>6 DEF TermsOf, SameTerms
<1>8. EntryOK(entry)
  BY <1>4, <1>6 DEF EntryOK, SameTerms, Curve
<1>9. y = e.traded + (out + 1)
  BY <1>1, <1>4
<1> QED BY <1>4, <1>6, <1>7, <1>8, <1>9 DEF CurveOf, Curve

\* The terms' side of a buy that closes the curve.
AfterClose(entry, e, time, until) ==
    entry = [e EXCEPT !.graduatedAt = time, !.raised = Allocation, !.lock.until = until]

ClosedTerms(x, v, time, until) ==
    x = [[v EXCEPT !.until = until] EXCEPT !.graduatedAt = time, !.raised = Allocation]

LEMMA ClosingGraduates ==
    ASSUME NEW e, EntryOK(e), e.launched, e.graduatedAt = 0, NEW time \in Nat \ {0},
           NEW until \in Nat \ {0}, NEW entry, AfterClose(entry, e, time, until)
    PROVE  /\ EntryOK(entry) /\ CurveOf(entry) = CurveOf(e)
           /\ ClosedTerms(TermsOf(entry), TermsOf(e), time, until)
<1>1. e \in Entries /\ e.lock \in Locks /\ Allocation \in Nat
  BY Sizes DEF EntryOK, Entries
<1>2. PICK lock : lock = [e.lock EXCEPT !.until = until]
  OBVIOUS
<1>3. /\ lock \in Locks /\ lock.until = until /\ lock.extends = e.lock.extends
      /\ lock.collected = e.lock.collected /\ lock.reclaimed = e.lock.reclaimed
  BY <1>1, <1>2 DEF Locks
<1>4. PICK f : f = [e EXCEPT !.graduatedAt = time, !.raised = Allocation]
  OBVIOUS
<1>5. /\ f \in Entries /\ f.lock = e.lock
      /\ f.launched = e.launched /\ f.carve = e.carve /\ f.permanent = e.permanent
      /\ f.sold = e.sold /\ f.traded = e.traded /\ f.trades = e.trades
      /\ f.graduatedAt = time /\ f.raised = Allocation /\ f.claimed = e.claimed
  BY <1>1, <1>4 DEF Entries
<1>6. entry = [f EXCEPT !.lock = lock]
  BY <1>2, <1>4, <1>5 DEF AfterClose
<1>7. /\ entry \in Entries /\ entry.lock = lock
      /\ entry.launched = e.launched /\ entry.carve = e.carve /\ entry.permanent = e.permanent
      /\ entry.sold = e.sold /\ entry.traded = e.traded /\ entry.trades = e.trades
      /\ entry.graduatedAt = time /\ entry.raised = Allocation /\ entry.claimed = e.claimed
  <2>1. f \in Entries /\ lock \in Locks
    BY <1>3, <1>5
  <2>2. entry \in Entries /\ entry.lock = lock /\ SameTerms(entry, f) /\ SameCurve(entry, f)
    BY <1>6, <2>1, WithLock
  <2> QED BY <1>5, <2>2 DEF SameTerms, SameCurve
<1>8. EntryOK(entry)
  BY <1>3, <1>7 DEF EntryOK
<1>9. PICK v, w : v = TermsOf(e) /\ w = TermsOf(entry)
  OBVIOUS
<1>10. v \in Terms /\ w \in Terms
  BY <1>8, <1>9, ViewsTyped
<1>11. /\ w.launched = v.launched /\ w.duration = v.duration /\ w.carve = v.carve
       /\ w.permanent = v.permanent /\ w.graduatedAt = time /\ w.raised = Allocation
       /\ w.claimed = v.claimed /\ w.until = until /\ w.extends = v.extends
       /\ w.collected = v.collected /\ w.reclaimed = v.reclaimed
  BY <1>3, <1>7, <1>9 DEF TermsOf
<1>12. PICK x : x = [v EXCEPT !.until = until]
  OBVIOUS
<1>13. /\ x \in Terms /\ SameButLock(x, v) /\ x.until = until /\ x.extends = v.extends
       /\ x.collected = v.collected /\ x.reclaimed = v.reclaimed
  BY <1>10, <1>12 DEF Terms, SameButLock
<1>14. PICK y : y = [x EXCEPT !.graduatedAt = time, !.raised = Allocation]
  OBVIOUS
<1>15. /\ y \in Terms /\ y.launched = x.launched /\ y.duration = x.duration /\ y.carve = x.carve
       /\ y.permanent = x.permanent /\ y.graduatedAt = time /\ y.raised = Allocation
       /\ y.claimed = x.claimed /\ y.until = x.until /\ y.extends = x.extends
       /\ y.collected = x.collected /\ y.reclaimed = x.reclaimed
  BY <1>1, <1>13, <1>14 DEF Terms
<1>16. w = y
  BY <1>10, <1>11, <1>13, <1>15, TermsEqual DEF SameButLock
<1>17. ClosedTerms(w, v, time, until)
  BY <1>12, <1>14, <1>16 DEF ClosedTerms
<1>18. CurveOf(entry) = CurveOf(e)
  BY <1>7 DEF CurveOf
<1> QED BY <1>8, <1>9, <1>17, <1>18

LEMMA BuyTransacts ==
    ASSUME ChainInv, NEW t \in Tokens, NEW a \in Accounts, NEW n \in 1..Allocation, Buy(t, a, n)
    PROVE  Transacts(t)
<1> DEFINE e == open.ledger[t]
           out == IF e.sold + n > Allocation THEN Allocation - e.sold ELSE n
           until == IF e.permanent THEN PERMANENT ELSE Now + LOCK_DURATION
           bought == [kind |-> "Bought", token |-> t, trader |-> a, ethIn |-> n + 1,
                      ethToCurve |-> out, fee |-> 1, amount |-> out, sold |-> e.sold + out]
           registered == [kind |-> "LockRegistered", token |-> t, until |-> until]
           graduated == [kind |-> "Graduated", token |-> t, weth |-> Allocation]
           graduation == [kind |-> "Graduation", token |-> t]
           traded == [e EXCEPT !.sold = @ + out, !.traded = @ + out + 1, !.trades = @ + 1,
                               !.held[a] = @ + out]
           closed == [traded EXCEPT !.graduatedAt = Now, !.raised = Allocation,
                                    !.lock.until = until]
<1>1. EntryOK(e) /\ e.launched /\ e.graduatedAt = 0
  BY DEF ChainInv, OpenLeads, LedgerOK, Buy, Trading
<1>2. \/ Tx(t, traded, <<bought>>)
      \/ Tx(t, closed, <<bought>> \o <<registered, graduated, graduation>>)
  BY DEF Buy
<1>3. /\ n \in Nat /\ Allocation \in Nat /\ e.sold \in Int /\ e.sold <= Allocation
      /\ Now \in Nat \ {0}
  BY <1>1, Sizes DEF EntryOK, Entries, ChainInv, ChainTyped, Now
<1>4. out \in Nat /\ e.sold + out <= Allocation
  BY <1>3
<1>5. until \in Nat \ {0}
  BY <1>3, Sizes
<1>6. /\ bought \in Events /\ bought.token = t /\ bought.kind = "Bought"
      /\ bought.sold = e.sold + bought.amount /\ BuyVolume(bought) = out + 1
      /\ bought.sold = e.sold + out
  BY <1>3, <1>4 DEF Events, BuyVolume
<1>7. /\ registered \in Events /\ registered.token = t /\ registered.kind = "LockRegistered"
      /\ registered.until = until
  <2>1. registered \in [kind : {"LockRegistered", "LockExtended"}, token : Tokens,
                        until : Nat \ {0}]
    BY <1>5
  <2> QED BY <2>1 DEF Events
<1>8. /\ graduated \in Events /\ graduated.token = t /\ graduated.kind = "Graduated"
      /\ graduated.weth = Allocation
  BY <1>3 DEF Events
<1>9. graduation \in Events /\ graduation.token = t /\ graduation.kind = "Graduation"
  BY DEF Events
<1>10. AfterBuy(traded, e, a, out) /\ AfterClose(closed, traded, Now, until)
  BY DEF AfterBuy, AfterClose
<1> HIDE DEF e, out, until, bought, registered, graduated, graduation, traded, closed
<1>11. /\ EntryOK(traded) /\ TermsOf(traded) = TermsOf(e)
       /\ CurveOf(traded) = [sold |-> e.sold + out, traded |-> e.traded + (out + 1),
                             trades |-> e.trades + 1]
  BY <1>1, <1>4, <1>10, BuyTrades
<1>12. TermsStep(bought, Now, TermsOf(e), TermsOf(traded))
  BY <1>1, <1>6, <1>11 DEF TermsStep, TermsOf, Trades
<1>13. CurveStep(bought, CurveOf(e), CurveOf(traded))
  BY <1>6, <1>11 DEF CurveStep, CurveOf, Trades
<1>14. Emitted(t, traded, <<bought>>)
  BY <1>6, <1>11, <1>12, <1>13, OneEvent DEF e
<1>15. CASE Tx(t, traded, <<bought>>)
  BY <1>14, <1>15 DEF Transacts
<1>16. CASE Tx(t, closed, <<bought>> \o <<registered, graduated, graduation>>)
  <2> DEFINE v == TermsOf(e)
             c == CurveOf(traded)
             w == [v EXCEPT !.until = until]
             x == [w EXCEPT !.graduatedAt = Now, !.raised = Allocation]
  <2>1. v \in Terms /\ c \in Curves
    BY <1>1, <1>11, ViewsTyped
  <2>2. /\ v.launched /\ v.graduatedAt = 0 /\ v.until = 0 /\ v.extends = 0
        /\ v.collected = 0 /\ ~v.reclaimed
    BY <1>1 DEF EntryOK, TermsOf
  <2>3. traded.launched /\ traded.graduatedAt = 0
    BY <1>1, <1>11 DEF TermsOf
  <2>4. EntryOK(closed) /\ CurveOf(closed) = c /\ TermsOf(closed) = x
    <3>1. /\ EntryOK(closed) /\ CurveOf(closed) = CurveOf(traded)
          /\ ClosedTerms(TermsOf(closed), TermsOf(traded), Now, until)
      BY <1>3, <1>5, <1>10, <1>11, <2>3, ClosingGraduates
    <3> QED BY <1>11, <3>1 DEF ClosedTerms
  <2> HIDE DEF v, c
  <2>5. /\ w \in Terms /\ w.launched /\ w.until # 0 /\ w.graduatedAt = 0
    BY <1>5, <2>1, <2>2 DEF Terms
  <2>6. StepOf(t, Now, registered, v, c, w, c)
    BY <1>7, <2>2 DEF StepOf, TermsStep, CurveStep, Trades
  <2>7. StepOf(t, Now, graduated, w, c, x, c)
    <3> HIDE DEF w
    <3> QED BY <1>3, <1>8, <2>5 DEF StepOf, TermsStep, CurveStep, Trades
  <2>8. x \in Terms /\ x.launched /\ x.graduatedAt # 0
    <3> HIDE DEF w
    <3> QED BY <1>3, <2>5 DEF Terms
  <2> HIDE DEF w, x
  <2>9. StepOf(t, Now, graduation, x, c, x, c)
    BY <1>9, <2>8 DEF StepOf, TermsStep, CurveStep, Trades
  <2>10. /\ Leads(t, Now, <<bought>>, v, CurveOf(e), v, c) /\ <<bought>> \in Seq(Events)
    BY <1>11, <1>14 DEF Emitted, v, c, e
  <2>11. /\ Leads(t, Now, <<bought, registered>>, v, CurveOf(e), w, c)
         /\ <<bought, registered>> \in Seq(Events)
    <3>1. bought \in Events /\ registered \in Events
      BY <1>6, <1>7
    <3>2. /\ Leads(t, Now, Append(<<bought>>, registered), v, CurveOf(e), w, c)
          /\ Append(<<bought>>, registered) \in Seq(Events)
      BY <1>3, <2>6, <2>10, <3>1, LeadsOn
    <3>3. Append(<<bought>>, registered) = <<bought, registered>>
      BY PairOf
    <3> QED BY <3>2, <3>3
  <2>12. /\ Leads(t, Now, Append(<<bought, registered>>, graduated), v, CurveOf(e), x, c)
         /\ Append(<<bought, registered>>, graduated) \in Seq(Events)
    BY <1>3, <1>8, <2>7, <2>11, LeadsOn
  <2>13. Leads(t, Now, Append(Append(<<bought, registered>>, graduated), graduation), v,
               CurveOf(e), x, c)
    BY <1>3, <1>9, <2>9, <2>12, LeadsOn
  <2>14. PICK all : all = <<bought>> \o <<registered, graduated, graduation>>
    OBVIOUS
  <2>15. /\ Append(Append(<<bought, registered>>, graduated), graduation) = all
         /\ all \in Seq(Events)
         /\ \A k \in 1..Len(all) : all[k] \in {bought, registered, graduated, graduation}
    <3>1. /\ bought \in Events /\ registered \in Events
          /\ graduated \in Events /\ graduation \in Events
      BY <1>6, <1>7, <1>8, <1>9
    <3> QED BY <2>14, <3>1, FourIs
  <2>16. Leads(t, Now, all, v, CurveOf(e), x, c)
    BY <2>13, <2>15
  <2>17. \A k \in 1..Len(all) : all[k].token = t
    BY <1>6, <1>7, <1>8, <1>9, <2>15
  <2>18. Emitted(t, closed, all)
    BY <2>4, <2>15, <2>16, <2>17 DEF Emitted, v, e
  <2> QED BY <1>16, <2>18, <2>14 DEF Transacts
<1> QED BY <1>2, <1>15, <1>16

\* The chain is as its events say, at every step.
LEMMA SealKeepsChain == ASSUME ChainInv, Seal PROVE ChainInv'
<1> DEFINE N == Len(chain)
           b == [id |-> txs, events |-> open.events, ledger |-> open.ledger]
<1>1. /\ open.size > 0 /\ chain' = Append(chain, b) /\ UNCHANGED <<txs, faults>>
      /\ open' = [open EXCEPT !.events = <<>>, !.size = 0]
  BY DEF Seal
<1>2. /\ chain \in Seq(Blocks) /\ N \in Nat /\ N >= 1 /\ txs \in Nat
      /\ open.events \in Seq(Events) /\ open.ledger \in [Tokens -> Entries]
  BY DEF ChainInv, ChainTyped
<1>3. b \in Blocks /\ b.id = txs /\ b.events = open.events /\ b.ledger = open.ledger
  BY <1>2 DEF Blocks
<1>4. /\ open'.events = <<>> /\ open'.size = 0 /\ open'.ledger = open.ledger
      /\ open' \in [events : Seq(Events), ledger : [Tokens -> Entries], size : Nat]
  <2>1. open \in [events : Seq(Events), ledger : [Tokens -> Entries], size : Nat]
    BY DEF ChainInv, ChainTyped
  <2>2. <<>> \in Seq(Events)
    OBVIOUS
  <2> QED BY <1>1, <2>1, <2>2
<1> HIDE DEF b
<1>5. /\ Len(chain') = N + 1 /\ chain'[N + 1] = b /\ chain' \in Seq(Blocks)
      /\ \A i \in 1..N : chain'[i] = chain[i]
  BY <1>1, <1>2, <1>3
<1>6. ChainTyped'
  BY <1>1, <1>2, <1>4, <1>5 DEF ChainInv, ChainTyped
<1>7. IdsGoUp'
  <2>1. \A i \in 1..N : chain[i].id \in Nat /\ chain[i].id < txs
    BY <1>1, BlocksTyped DEF ChainInv, IdsGoUp
  <2>2. ASSUME NEW i \in 1..(N + 1), NEW j \in 1..(N + 1), i < j
        PROVE  chain'[i].id < chain'[j].id
    <3>1. CASE j = N + 1
      BY <1>2, <1>3, <1>5, <2>1, <2>2, <3>1
    <3>2. CASE j # N + 1
      BY <1>2, <1>5, <2>2, <3>2 DEF ChainInv, IdsGoUp
    <3> QED BY <3>1, <3>2
  <2>3. \A i \in 1..(N + 1) : chain'[i].id <= txs'
    BY <1>1, <1>2, <1>3, <1>5, <2>1
  <2>4. chain'[1].id = 0
    BY <1>2, <1>5 DEF ChainInv, IdsGoUp
  <2> QED BY <1>4, <1>5, <2>2, <2>3, <2>4 DEF IdsGoUp
<1>8. ChainLeads'
  <2>1. ASSUME NEW i \in 1..(N + 1) PROVE LedgerOK(chain'[i].ledger)
    BY <1>2, <1>3, <1>5 DEF ChainInv, ChainLeads, OpenLeads
  <2>2. ASSUME NEW i \in 2..(N + 1)
        PROVE  BlockLeads(i - 1, chain'[i - 1].ledger, chain'[i].events, chain'[i].ledger)
    <3>1. CASE i = N + 1
      <4>1. i - 1 = N /\ N \in 1..N
        BY <1>2, <3>1
      <4> QED BY <1>3, <1>5, <3>1, <4>1 DEF ChainInv, OpenLeads
    <3>2. CASE i # N + 1
      <4>1. i \in 2..N /\ i \in 1..N /\ i - 1 \in 1..N
        BY <1>2, <3>2
      <4> QED BY <1>5, <4>1 DEF ChainInv, ChainLeads
    <3> QED BY <3>1, <3>2
  <2> QED BY <1>5, <2>1, <2>2 DEF ChainLeads
<1>9. OpenLeads'
  <2>1. LedgerOK(open.ledger)
    BY DEF ChainInv, OpenLeads
  <2>2. ASSUME NEW t \in Tokens
        PROVE  Leads(t, N + 1, <<>>, TermsOf(open.ledger[t]), CurveOf(open.ledger[t]),
                     TermsOf(open.ledger[t]), CurveOf(open.ledger[t]))
    BY <2>1, ViewsTyped, LeadsNowhere DEF LedgerOK
  <2> QED BY <1>3, <1>4, <1>5, <2>1, <2>2 DEF OpenLeads, BlockLeads
<1> QED BY <1>6, <1>7, <1>8, <1>9 DEF ChainInv

LEMMA ReorgKeepsChain == ASSUME ChainInv, Reorg PROVE ChainInv'
<1> DEFINE N == Len(chain)
           last == chain[N - 1].ledger
<1>1. /\ N > 1 /\ chain' = Front(chain) /\ txs' = txs /\ faults' = faults + 1
      /\ open' = [events |-> <<>>, ledger |-> Last(Front(chain)).ledger, size |-> 0]
  BY DEF Reorg
<1>2. /\ chain \in Seq(Blocks) /\ N \in Nat /\ txs \in Nat /\ faults \in Nat
  BY DEF ChainInv, ChainTyped
<1>3. /\ chain' \in Seq(Blocks) /\ Len(chain') = N - 1
      /\ \A i \in 1..(N - 1) : chain'[i] = chain[i]
  BY <1>1, <1>2, LastFront
<1>4. Last(Front(chain)).ledger = last
  <2>1. Last(chain') = chain'[N - 1]
    <3>1. Len(chain') >= 1
      BY <1>1, <1>2, <1>3
    <3> QED BY <1>3, <3>1, LastFront
  <2> QED BY <1>1, <1>2, <1>3, <2>1
<1>5. LedgerOK(last)
  BY <1>1, <1>2 DEF ChainInv, ChainLeads
<1> HIDE DEF last
<1>6. open'.events = <<>> /\ open'.size = 0 /\ open'.ledger = last
  BY <1>1, <1>4
<1>7. open' \in [events : Seq(Events), ledger : [Tokens -> Entries], size : Nat]
  BY <1>1, <1>4, <1>5 DEF LedgerOK
<1>8. ChainTyped'
  BY <1>1, <1>2, <1>3, <1>7 DEF ChainTyped
<1>9. IdsGoUp'
  BY <1>1, <1>2, <1>3, <1>6 DEF ChainInv, IdsGoUp
<1>10. ChainLeads'
  <2>1. ASSUME NEW i \in 1..(N - 1) PROVE LedgerOK(chain'[i].ledger)
    BY <1>2, <1>3 DEF ChainInv, ChainLeads
  <2>2. ASSUME NEW i \in 2..(N - 1)
        PROVE  BlockLeads(i - 1, chain'[i - 1].ledger, chain'[i].events, chain'[i].ledger)
    <3>1. i \in 2..N /\ i \in 1..(N - 1) /\ i - 1 \in 1..(N - 1)
      BY <1>2
    <3> QED BY <1>3, <3>1 DEF ChainInv, ChainLeads
  <2> QED BY <1>3, <2>1, <2>2 DEF ChainLeads
<1>11. OpenLeads'
  <2>1. chain'[Len(chain')].ledger = last
    BY <1>1, <1>2, <1>3 DEF last
  <2>2. ASSUME NEW t \in Tokens
        PROVE  Leads(t, N - 1, <<>>, TermsOf(last[t]), CurveOf(last[t]), TermsOf(last[t]),
                     CurveOf(last[t]))
    BY <1>5, ViewsTyped, LeadsNowhere DEF LedgerOK
  <2> QED BY <1>3, <1>5, <1>6, <2>1, <2>2 DEF OpenLeads, BlockLeads
<1> QED BY <1>8, <1>9, <1>10, <1>11 DEF ChainInv

LEMMA ChainKept == ASSUME ChainInv, Chain PROVE ChainInv'
<1>1. ASSUME NEW t \in Tokens, Transacts(t) PROVE ChainInv'
  BY <1>1, TxKeepsChain DEF Transacts
<1>2. ASSUME NEW t \in Tokens, NEW terms \in Launches, CreateLaunch(t, terms[1], terms[2])
      PROVE  ChainInv'
  BY <1>1, <1>2, CreateLaunchTransacts
<1>3. ASSUME NEW t \in Tokens, NEW a \in Accounts, NEW n \in 1..Allocation,
             Buy(t, a, n) \/ Sell(t, a, n)
      PROVE  ChainInv'
  BY <1>1, <1>3, BuyTransacts, SellTransacts
<1>4. ASSUME NEW t \in Tokens, NEW a \in Accounts, NEW b \in Accounts, Transfer(t, a, b)
      PROVE  ChainInv'
  BY <1>1, <1>4, TransferTransacts
<1>5. ASSUME NEW t \in Tokens, Claim(t) \/ Reclaim(t) \/ Collect(t, 1, 2) PROVE ChainInv'
  BY <1>1, <1>5, ClaimTransacts, ReclaimTransacts, CollectTransacts
<1>6. ASSUME NEW t \in Tokens, NEW until \in {Now + LOCK_DURATION + 1, PERMANENT}, Extend(t, until)
      PROVE  ChainInv'
  <2>1. until \in Nat /\ until # 0
    BY Sizes DEF Now, ChainInv, ChainTyped
  <2> QED BY <1>1, <1>6, <2>1, ExtendTransacts
<1> QED BY <1>2, <1>3, <1>4, <1>5, <1>6, SealKeepsChain, ReorgKeepsChain DEF Chain

LEMMA ChainStarts == ASSUME Init PROVE ChainInv
<1> DEFINE genesis == [t \in Tokens |-> Unlaunched]
           b == [id |-> 0, events |-> <<>>, ledger |-> genesis]
<1>1. /\ chain = <<b>> /\ open = [events |-> <<>>, ledger |-> genesis, size |-> 0]
      /\ txs = 0 /\ faults = 0
  BY DEF Init
<1>2. EntryOK(Unlaunched)
  <2>1. Unlaunched \in Entries
    BY DEF Unlaunched, Entries, NoLock, Locks
  <2>2. TermsOf(Unlaunched) = NoTerms /\ CurveOf(Unlaunched) = NoCurve
    BY DEF Unlaunched, NoLock, TermsOf, NoTerms, CurveOf, NoCurve
  <2>3. Unlaunched.sold = 0 /\ Unlaunched.graduatedAt = 0 /\ Unlaunched.lock = NoLock
    BY DEF Unlaunched
  <2> QED BY <2>1, <2>2, <2>3, Sizes DEF EntryOK, NoLock
<1>3. LedgerOK(genesis)
  BY <1>2 DEF LedgerOK, EntryOK
<1>4. b \in Blocks /\ b.id = 0 /\ b.ledger = genesis
  BY <1>3 DEF Blocks, LedgerOK
<1>5. genesis \in [Tokens -> Entries]
  BY <1>3 DEF LedgerOK
<1> HIDE DEF genesis, b
<1>6. Len(chain) = 1 /\ chain[1] = b /\ chain \in Seq(Blocks)
  BY <1>1, <1>4
<1>7. open.ledger = genesis /\ open.events = <<>> /\ open.size = 0
  BY <1>1
<1>8. ChainTyped
  BY <1>1, <1>5, <1>6 DEF ChainTyped
<1>9. IdsGoUp
  BY <1>1, <1>4, <1>6, <1>7 DEF IdsGoUp
<1>10. ChainLeads
  BY <1>3, <1>4, <1>6 DEF ChainLeads
<1>11. OpenLeads
  <2>1. ASSUME NEW t \in Tokens
        PROVE  Leads(t, 1, <<>>, TermsOf(genesis[t]), CurveOf(genesis[t]), TermsOf(genesis[t]),
                     CurveOf(genesis[t]))
    BY <1>3, ViewsTyped, LeadsNowhere DEF LedgerOK
  <2> QED BY <1>3, <1>4, <1>6, <1>7, <2>1 DEF OpenLeads, BlockLeads
<1> QED BY <1>8, <1>9, <1>10, <1>11 DEF ChainInv

-----------------------------------------------------------------------------
(* The store: what its entities say of a launch.                            *)

StoreFields == {"factory", "tokens", "trades", "positions", "graduations", "locks",
                "collections", "templates"}
FactoryFields == {"launchCount", "graduationCount", "tradeCount", "buyCount", "sellCount",
                  "totalVolumeEth", "totalRaisedEth"}
TokenFields == {"tokensSold", "ethReserve", "progress", "lastTrade", "buyCount", "sellCount",
                "tradeCount", "volumeEth", "curvePositionCount", "devAllocation",
                "devClaimed", "lockDuration", "permanentLock", "lock", "graduated",
                "graduatedAt", "graduation"}
LockFields == {"until", "permanent", "extendCount", "reclaimed", "collectionCount",
               "creatorFees", "treasuryFees"}
PositionFields == {"balance", "bought", "sold", "tradeCount", "firstTrade"}

FactoryOK(f) ==
    /\ DOMAIN f = FactoryFields
    /\ f.launchCount \in Nat /\ f.graduationCount \in Nat /\ f.tradeCount \in Nat
    /\ f.buyCount \in Nat /\ f.sellCount \in Nat /\ f.totalVolumeEth \in Nat

TokenOK(k) ==
    /\ DOMAIN k = TokenFields
    /\ k.tokensSold \in Int /\ k.buyCount \in Nat /\ k.sellCount \in Nat
    /\ k.volumeEth \in Nat /\ k.curvePositionCount \in Int

LockOK(k) == DOMAIN k = LockFields /\ k.creatorFees \in Nat /\ k.treasuryFees \in Nat

PositionOK(k) == DOMAIN k = PositionFields /\ k.balance \in Nat

StoreOK(s) ==
    /\ DOMAIN s = StoreFields
    /\ FactoryOK(s.factory)
    /\ DOMAIN s.tokens \subseteq Tokens /\ \A t \in DOMAIN s.tokens : TokenOK(s.tokens[t])
    /\ \A t \in DOMAIN s.locks : LockOK(s.locks[t])
    /\ DOMAIN s.graduations \subseteq Tokens
    /\ IsFiniteSet(DOMAIN s.trades)
    /\ \A id \in DOMAIN s.positions :
          /\ id \in (DOMAIN s.tokens) \X Accounts
          /\ PositionOK(s.positions[id])

\* The token, the graduation and the lock of a launch with the terms v ...
TokenShows(k, v) ==
    /\ k.devAllocation = v.carve /\ k.devClaimed = v.claimed
    /\ k.lockDuration = v.duration /\ k.permanentLock = v.permanent
    /\ k.graduated = (v.graduatedAt # 0)
    /\ v.graduatedAt # 0 => k.graduatedAt = v.graduatedAt

LockShows(k, v) ==
    /\ k.until = v.until /\ k.permanent = (v.until = PERMANENT)
    /\ k.extendCount = v.extends /\ k.reclaimed = v.reclaimed
    /\ k.creatorFees + k.treasuryFees = v.collected

Shows(s, t, v) ==
    /\ Has(s.tokens, t) <=> v.launched
    /\ v.launched => TokenShows(s.tokens[t], v)
    /\ Has(s.graduations, t) <=> v.graduatedAt # 0
    /\ v.graduatedAt # 0 => s.graduations[t].raisedEth = v.raised
    /\ Has(s.locks, t) <=> v.until # 0
    /\ v.until # 0 => LockShows(s.locks[t], v)

\* ... and the token of one with the curve c.
CurveShows(k, c) ==
    /\ k.tokensSold = c.sold /\ k.ethReserve = VIRTUAL_ETH + c.sold
    /\ k.volumeEth = c.traded /\ k.tradeCount = c.trades

Serves(s, t, v, c) ==
    /\ Shows(s, t, v)
    /\ v.launched => CurveShows(s.tokens[t], c)
    /\ ~v.launched => c = NoCurve

Untouched(s, s2, t) ==
    /\ Has(s2.tokens, t) <=> Has(s.tokens, t)
    /\ Has(s2.graduations, t) <=> Has(s.graduations, t)
    /\ Has(s2.locks, t) <=> Has(s.locks, t)
    /\ Has(s.tokens, t) => s2.tokens[t] = s.tokens[t]
    /\ Has(s.graduations, t) => s2.graduations[t] = s.graduations[t]
    /\ Has(s.locks, t) => s2.locks[t] = s.locks[t]

LEMMA UntouchedServes ==
    ASSUME NEW s, NEW s2, NEW t, Untouched(s, s2, t), NEW v, NEW c, Serves(s, t, v, c)
    PROVE  Serves(s2, t, v, c)
  BY DEF Untouched, Serves, Shows

LEMMA SavedIs ==
    ASSUME NEW entities, NEW id, NEW e
    PROVE  /\ DOMAIN Save(entities, id, e) = DOMAIN entities \cup {id}
           /\ Save(entities, id, e)[id] = e
           /\ \A x \in DOMAIN entities : x # id => Save(entities, id, e)[x] = entities[x]
  BY DEF Save

\* s2 is s with a token saved.
TokenSaved(s, s2, id, k) ==
    /\ DOMAIN s2 = StoreFields /\ s2.factory = s.factory /\ s2.trades = s.trades
    /\ s2.positions = s.positions /\ s2.graduations = s.graduations /\ s2.locks = s.locks
    /\ DOMAIN s2.tokens = DOMAIN s.tokens \cup {id} /\ s2.tokens[id] = k
    /\ \A x \in DOMAIN s.tokens : x # id => s2.tokens[x] = s.tokens[x]

LEMMA SaveTokenIs ==
    ASSUME NEW s, DOMAIN s = StoreFields, NEW id, NEW k
    PROVE  TokenSaved(s, SaveToken(s, id, k), id, k)
<1>1. PICK tokens : tokens = Save(s.tokens, id, k)
  OBVIOUS
<1>2. /\ DOMAIN tokens = DOMAIN s.tokens \cup {id} /\ tokens[id] = k
      /\ \A x \in DOMAIN s.tokens : x # id => tokens[x] = s.tokens[x]
  BY <1>1 DEF Save
<1>3. PICK s2 : s2 = [s EXCEPT !.tokens = tokens]
  OBVIOUS
<1>4. s2 = SaveToken(s, id, k)
  BY <1>1, <1>3 DEF SaveToken
<1>5. TokenSaved(s, s2, id, k)
  BY <1>2, <1>3 DEF TokenSaved, StoreFields
<1> QED BY <1>4, <1>5

\* ... with a lock saved.
LockSaved(s, s2, id, k) ==
    /\ DOMAIN s2 = StoreFields /\ s2.factory = s.factory /\ s2.trades = s.trades
    /\ s2.positions = s.positions /\ s2.graduations = s.graduations /\ s2.tokens = s.tokens
    /\ DOMAIN s2.locks = DOMAIN s.locks \cup {id} /\ s2.locks[id] = k
    /\ \A x \in DOMAIN s.locks : x # id => s2.locks[x] = s.locks[x]

LEMMA SaveLockIs ==
    ASSUME NEW s, DOMAIN s = StoreFields, NEW id, NEW k
    PROVE  LockSaved(s, SaveLock(s, id, k), id, k)
<1>1. PICK locks : locks = Save(s.locks, id, k)
  OBVIOUS
<1>2. /\ DOMAIN locks = DOMAIN s.locks \cup {id} /\ locks[id] = k
      /\ \A x \in DOMAIN s.locks : x # id => locks[x] = s.locks[x]
  BY <1>1 DEF Save
<1>3. PICK s2 : s2 = [s EXCEPT !.locks = locks]
  OBVIOUS
<1>4. s2 = SaveLock(s, id, k)
  BY <1>1, <1>3 DEF SaveLock
<1>5. LockSaved(s, s2, id, k)
  BY <1>2, <1>3 DEF LockSaved, StoreFields
<1> QED BY <1>4, <1>5

\* What a handler makes of a store: the event of launch t led from the terms v and
\* the curve c to w and d, and other launches are left alone.
Handled(s, s2, t, w, d) ==
    /\ StoreOK(s2)
    /\ Serves(s2, t, w, d)
    /\ \A u \in Tokens : u # t => Untouched(s, s2, u)

\* What holds when an event is handled.
Due(s, e, v, c, w, d) ==
    /\ StoreOK(s) /\ e \in Events /\ v \in Terms /\ c \in Curves
    /\ Serves(s, e.token, v, c)
    /\ TermsStep(e, now, v, w) /\ CurveStep(e, c, d)

\* s2 is a store that differs from s in the token, or the lock, of one launch.
TokenNew(s, s2, t, k) ==
    /\ StoreOK(s2) /\ \A u \in Tokens : u # t => Untouched(s, s2, u)
    /\ Has(s2.tokens, t) /\ s2.tokens[t] = k
    /\ s2.graduations = s.graduations /\ s2.locks = s.locks

LockNew(s, s2, t, k) ==
    /\ StoreOK(s2) /\ \A u \in Tokens : u # t => Untouched(s, s2, u)
    /\ Has(s2.locks, t) /\ s2.locks[t] = k
    /\ s2.graduations = s.graduations /\ s2.tokens = s.tokens

LEMMA TokenOnly ==
    ASSUME NEW s, NEW s2, NEW t \in Tokens, NEW k, StoreOK(s), TokenSaved(s, s2, t, k), TokenOK(k)
    PROVE  TokenNew(s, s2, t, k)
<1>1. Has(s2.tokens, t) /\ s2.tokens[t] = k /\ s2.graduations = s.graduations /\ s2.locks = s.locks
  BY DEF TokenSaved, Has
<1>2. ASSUME NEW u \in Tokens, u # t PROVE Untouched(s, s2, u)
  BY <1>2 DEF TokenSaved, Untouched, Has
<1>3. DOMAIN s2.tokens \subseteq Tokens /\ \A u \in DOMAIN s2.tokens : TokenOK(s2.tokens[u])
  BY DEF TokenSaved, StoreOK
<1>4. DOMAIN s.tokens \subseteq DOMAIN s2.tokens
  BY DEF TokenSaved
<1>5. \A id \in DOMAIN s2.positions :
         id \in (DOMAIN s2.tokens) \X Accounts /\ PositionOK(s2.positions[id])
  <2>1. \A id \in DOMAIN s.positions :
           id \in (DOMAIN s.tokens) \X Accounts /\ PositionOK(s.positions[id])
    BY DEF StoreOK
  <2>2. s2.positions = s.positions
    BY DEF TokenSaved
  <2>3. (DOMAIN s.tokens) \X Accounts \subseteq (DOMAIN s2.tokens) \X Accounts
    BY <1>4
  <2> QED BY <2>1, <2>2, <2>3
<1>6. StoreOK(s2)
  BY <1>3, <1>5 DEF TokenSaved, StoreOK
<1> QED BY <1>1, <1>2, <1>6 DEF TokenNew

LEMMA LockOnly ==
    ASSUME NEW s, NEW s2, NEW t \in Tokens, NEW k, StoreOK(s), LockSaved(s, s2, t, k), LockOK(k)
    PROVE  LockNew(s, s2, t, k)
<1>1. Has(s2.locks, t) /\ s2.locks[t] = k /\ s2.graduations = s.graduations /\ s2.tokens = s.tokens
  BY DEF LockSaved, Has
<1>2. ASSUME NEW u \in Tokens, u # t PROVE Untouched(s, s2, u)
  BY <1>2 DEF LockSaved, Untouched, Has
<1>3. \A u \in DOMAIN s2.locks : LockOK(s2.locks[u])
  BY DEF LockSaved, StoreOK
<1>4. StoreOK(s2)
  BY <1>3 DEF LockSaved, StoreOK
<1> QED BY <1>1, <1>2, <1>4 DEF LockNew

\* What the rollup and the positions are counted from is the same.
SameCounts(k, old) ==
    /\ k.buyCount = old.buyCount /\ k.sellCount = old.sellCount
    /\ k.volumeEth = old.volumeEth /\ k.tokensSold = old.tokensSold
    /\ k.curvePositionCount = old.curvePositionCount

\* A launch is new, and counted.
LaunchCounted(s, s2, t) ==
    /\ t \notin DOMAIN s.tokens /\ DOMAIN s2.tokens = DOMAIN s.tokens \cup {t}
    /\ s2.factory = [s.factory EXCEPT !.launchCount = @ + 1]
    /\ s2.trades = s.trades /\ s2.positions = s.positions /\ s2.graduations = s.graduations
    /\ \A u \in DOMAIN s.tokens : s2.tokens[u] = s.tokens[u]
    /\ s2.tokens[t].buyCount = 0 /\ s2.tokens[t].sellCount = 0 /\ s2.tokens[t].volumeEth = 0
    /\ s2.tokens[t].tokensSold = 0 /\ s2.tokens[t].curvePositionCount = 0

\* A graduation is new, and counted.
GraduationCounted(s, s2, t, raised) ==
    /\ t \notin DOMAIN s.graduations /\ DOMAIN s2.graduations = DOMAIN s.graduations \cup {t}
    /\ s2.factory = [s.factory EXCEPT !.graduationCount = @ + 1, !.totalRaisedEth = @ + raised]
    /\ s2.trades = s.trades /\ s2.positions = s.positions
    /\ DOMAIN s2.tokens = DOMAIN s.tokens
    /\ \A u \in DOMAIN s.tokens : SameCounts(s2.tokens[u], s.tokens[u])

CountsSame(s, s2) ==
    /\ s2.factory = s.factory /\ s2.trades = s.trades /\ s2.positions = s.positions
    /\ DOMAIN s2.graduations = DOMAIN s.graduations /\ DOMAIN s2.tokens = DOMAIN s.tokens
    /\ \A t \in DOMAIN s.tokens : SameCounts(s2.tokens[t], s.tokens[t])

\* Terms that are the same but for the carve, the duration and what was claimed.
SameMarket(w, v) ==
    /\ w.launched = v.launched /\ w.graduatedAt = v.graduatedAt /\ w.raised = v.raised
    /\ w.until = v.until /\ w.extends = v.extends /\ w.collected = v.collected
    /\ w.reclaimed = v.reclaimed

LEMMA TokenHandled ==
    ASSUME NEW s, NEW e, NEW v, NEW c, NEW w, NEW d, Due(s, e, v, c, w, d), v.launched,
           NEW s2, NEW k, TokenSaved(s, s2, e.token, k), SameMarket(w, v),
           TokenOK(k), TokenShows(k, w), CurveShows(k, d), SameCounts(k, s.tokens[e.token])
    PROVE  Handled(s, s2, e.token, w, d) /\ CountsSame(s, s2)
<1>1. PICK t \in Tokens : t = e.token
  BY DEF Due, Events
<1>2. TokenSaved(s, s2, t, k) /\ StoreOK(s)
  BY <1>1 DEF Due
<1>3. /\ StoreOK(s2) /\ \A u \in Tokens : u # t => Untouched(s, s2, u)
      /\ Has(s2.tokens, t) /\ s2.tokens[t] = k
      /\ s2.graduations = s.graduations /\ s2.locks = s.locks
  BY <1>2, TokenOnly DEF TokenNew
<1>4. Shows(s, t, v)
  BY <1>1 DEF Due, Serves
<1>5. Shows(s2, t, w)
  BY <1>3, <1>4 DEF Shows, SameMarket, LockShows
<1>6. Serves(s2, t, w, d)
  BY <1>3, <1>5 DEF Serves, SameMarket
<1>7. CountsSame(s, s2)
  <2>1. t \in DOMAIN s.tokens
    BY <1>4 DEF Shows, Has
  <2> QED BY <1>1, <1>2, <2>1 DEF CountsSame, TokenSaved, SameCounts
<1> QED BY <1>1, <1>3, <1>6, <1>7 DEF Handled

\* The token before, and the launch.
LEMMA TokenDue ==
    ASSUME NEW s, NEW e, NEW v, NEW c, NEW w, NEW d, Due(s, e, v, c, w, d), v.launched
    PROVE  /\ e.token \in Tokens /\ Has(s.tokens, e.token)
           /\ TokenOK(s.tokens[e.token]) /\ TokenShows(s.tokens[e.token], v)
           /\ CurveShows(s.tokens[e.token], c)
<1>1. e.token \in Tokens
  BY DEF Due, Events
<1>2. StoreOK(s) /\ Serves(s, e.token, v, c)
  BY DEF Due
<1> QED BY <1>1, <1>2 DEF Serves, Shows, StoreOK, Has

LEMMA LaunchConfigHandled ==
    ASSUME NEW s, NEW e, NEW v, NEW c, NEW w, NEW d, Due(s, e, v, c, w, d),
           e.kind = "LaunchConfig"
    PROVE  /\ Handled(s, handleLaunchConfig(s, e), e.token, w, d)
           /\ CountsSame(s, handleLaunchConfig(s, e))
<1>1. /\ v.launched /\ c = d /\ v \in Terms
      /\ w = [v EXCEPT !.duration = LOCK_DURATION, !.carve = e.carve, !.permanent = e.permanent]
  BY DEF Due, TermsStep, CurveStep, Trades
<1>2. /\ w.duration = LOCK_DURATION /\ w.carve = e.carve /\ w.permanent = e.permanent
      /\ w.claimed = v.claimed /\ SameMarket(w, v)
  BY <1>1 DEF Terms, SameMarket
<1>3. PICK old : old = s.tokens[e.token]
  OBVIOUS
<1>4. /\ Has(s.tokens, e.token) /\ TokenOK(old) /\ TokenShows(old, v) /\ CurveShows(old, c)
  BY <1>1, <1>3, TokenDue
<1>5. PICK k : k = [old EXCEPT !.devAllocation = e.carve, !.lockDuration = LOCK_DURATION,
                               !.permanentLock = e.permanent]
  OBVIOUS
<1>6. TokenOK(k) /\ TokenShows(k, w) /\ CurveShows(k, d) /\ SameCounts(k, s.tokens[e.token])
  BY <1>1, <1>3, <1>2, <1>4, <1>5
     DEF TokenOK, TokenFields, TokenShows, CurveShows, SameCounts, SameMarket
<1>7. PICK s2 : s2 = SaveToken(s, e.token, k)
  OBVIOUS
<1>8. s2 = handleLaunchConfig(s, e)
  BY <1>3, <1>4, <1>5, <1>7 DEF handleLaunchConfig
<1>9. TokenSaved(s, s2, e.token, k)
  BY <1>7, SaveTokenIs DEF Due, StoreOK
<1>10. Handled(s, s2, e.token, w, d) /\ CountsSame(s, s2)
  BY <1>1, <1>2, <1>6, <1>9, TokenHandled
<1> QED BY <1>8, <1>10

LEMMA ClaimedHandled ==
    ASSUME NEW s, NEW e, NEW v, NEW c, NEW w, NEW d, Due(s, e, v, c, w, d),
           e.kind = "Claimed"
    PROVE  /\ Handled(s, handleClaimed(s, e), e.token, w, d)
           /\ CountsSame(s, handleClaimed(s, e))
<1>1. v.launched /\ c = d /\ v \in Terms /\ w = [v EXCEPT !.claimed = @ + e.amount]
  BY DEF Due, TermsStep, CurveStep, Trades
<1>2. /\ w.duration = v.duration /\ w.carve = v.carve /\ w.permanent = v.permanent
      /\ w.claimed = v.claimed + e.amount /\ SameMarket(w, v)
  BY <1>1 DEF Terms, SameMarket
<1>3. PICK old : old = s.tokens[e.token]
  OBVIOUS
<1>4. /\ Has(s.tokens, e.token) /\ TokenOK(old) /\ TokenShows(old, v) /\ CurveShows(old, c)
  BY <1>1, <1>3, TokenDue
<1>5. PICK k : k = [old EXCEPT !.devClaimed = @ + e.amount]
  OBVIOUS
<1>6. TokenOK(k) /\ TokenShows(k, w) /\ CurveShows(k, d) /\ SameCounts(k, s.tokens[e.token])
  BY <1>1, <1>3, <1>2, <1>4, <1>5
     DEF TokenOK, TokenFields, TokenShows, CurveShows, SameCounts, SameMarket
<1>7. PICK s2 : s2 = SaveToken(s, e.token, k)
  OBVIOUS
<1>8. s2 = handleClaimed(s, e)
  BY <1>3, <1>4, <1>5, <1>7 DEF handleClaimed
<1>9. TokenSaved(s, s2, e.token, k)
  BY <1>7, SaveTokenIs DEF Due, StoreOK
<1>10. Handled(s, s2, e.token, w, d) /\ CountsSame(s, s2)
  BY <1>1, <1>2, <1>6, <1>9, TokenHandled
<1> QED BY <1>8, <1>10

LEMMA GraduationHandled ==
    ASSUME NEW s, NEW e, NEW v, NEW c, NEW w, NEW d, Due(s, e, v, c, w, d),
           e.kind = "Graduation"
    PROVE  /\ Handled(s, handleGraduation(s, e), e.token, w, d)
           /\ CountsSame(s, handleGraduation(s, e))
<1>1. v.launched /\ v.graduatedAt # 0 /\ c = d /\ v \in Terms /\ w = v
  BY DEF Due, TermsStep, CurveStep, Trades
<1>2. v.graduatedAt \in Nat /\ SameMarket(w, v)
  BY <1>1 DEF Terms, SameMarket
<1>3. PICK old : old = s.tokens[e.token]
  OBVIOUS
<1>4. /\ Has(s.tokens, e.token) /\ TokenOK(old) /\ TokenShows(old, v) /\ CurveShows(old, c)
  BY <1>1, <1>3, TokenDue
<1>5. PICK k : k = [old EXCEPT !.graduated = TRUE, !.graduatedAt = IF @ = NONE THEN now ELSE @]
  OBVIOUS
<1>6. old.graduatedAt # NONE
  BY <1>1, <1>2, <1>4, Sizes DEF TokenShows
<1>7. TokenOK(k) /\ TokenShows(k, w) /\ CurveShows(k, d) /\ SameCounts(k, s.tokens[e.token])
  BY <1>1, <1>3, <1>4, <1>5, <1>6 DEF TokenOK, TokenFields, TokenShows, CurveShows, SameCounts
<1>8. PICK s2 : s2 = SaveToken(s, e.token, k)
  OBVIOUS
<1>9. s2 = handleGraduation(s, e)
  BY <1>3, <1>4, <1>5, <1>8 DEF handleGraduation
<1>10. TokenSaved(s, s2, e.token, k)
  BY <1>8, SaveTokenIs DEF Due, StoreOK
<1>11. Handled(s, s2, e.token, w, d) /\ CountsSame(s, s2)
  BY <1>1, <1>2, <1>7, <1>10, TokenHandled
<1> QED BY <1>9, <1>11

LEMMA LockHandled ==
    ASSUME NEW s, NEW e, NEW v, NEW c, NEW w, NEW d, Due(s, e, v, c, w, d), v.launched, c = d,
           NEW s2, NEW k, LockSaved(s, s2, e.token, k), SameButLock(w, v), w.until # 0,
           LockOK(k), LockShows(k, w)
    PROVE  Handled(s, s2, e.token, w, d) /\ CountsSame(s, s2)
<1>1. PICK t \in Tokens : t = e.token
  BY DEF Due, Events
<1>2. LockSaved(s, s2, t, k) /\ StoreOK(s)
  BY <1>1 DEF Due
<1>3. /\ StoreOK(s2) /\ \A u \in Tokens : u # t => Untouched(s, s2, u)
      /\ Has(s2.locks, t) /\ s2.locks[t] = k
      /\ s2.graduations = s.graduations /\ s2.tokens = s.tokens
  BY <1>2, LockOnly DEF LockNew
<1>4. Serves(s, t, v, c)
  BY <1>1 DEF Due
<1>5. Shows(s2, t, w)
  BY <1>3, <1>4 DEF Serves, Shows, SameButLock, TokenShows
<1>6. Serves(s2, t, w, d)
  BY <1>3, <1>4, <1>5 DEF Serves, SameButLock
<1>7. CountsSame(s, s2)
  BY <1>2 DEF CountsSame, LockSaved, SameCounts
<1> QED BY <1>1, <1>3, <1>6, <1>7 DEF Handled

LEMMA LockDue ==
    ASSUME NEW s, NEW e, NEW v, NEW c, NEW w, NEW d, Due(s, e, v, c, w, d), v.until # 0
    PROVE  /\ Has(s.locks, e.token)
           /\ LockOK(s.locks[e.token]) /\ LockShows(s.locks[e.token], v)
<1>1. StoreOK(s) /\ Serves(s, e.token, v, c)
  BY DEF Due
<1> QED BY <1>1 DEF Serves, Shows, StoreOK, Has

LEMMA ReclaimedHandled ==
    ASSUME NEW s, NEW e, NEW v, NEW c, NEW w, NEW d, Due(s, e, v, c, w, d),
           e.kind = "Reclaimed"
    PROVE  /\ Handled(s, handleReclaimed(s, e), e.token, w, d)
           /\ CountsSame(s, handleReclaimed(s, e))
<1>1. v.launched /\ v.until # 0 /\ c = d /\ v \in Terms /\ w = [v EXCEPT !.reclaimed = TRUE]
  BY DEF Due, TermsStep, CurveStep, Trades
<1>2. /\ SameButLock(w, v) /\ w.until = v.until /\ w.extends = v.extends
      /\ w.collected = v.collected /\ w.reclaimed = TRUE
  BY <1>1 DEF Terms, SameButLock
<1>3. PICK old : old = s.locks[e.token]
  OBVIOUS
<1>4. Has(s.locks, e.token) /\ LockOK(old) /\ LockShows(old, v)
  BY <1>1, <1>3, LockDue
<1>5. PICK k : k = [old EXCEPT !.reclaimed = TRUE]
  OBVIOUS
<1>6. LockOK(k) /\ LockShows(k, w)
  BY <1>2, <1>4, <1>5 DEF LockOK, LockFields, LockShows
<1>7. PICK s2 : s2 = SaveLock(s, e.token, k)
  OBVIOUS
<1>8. s2 = handleReclaimed(s, e)
  BY <1>3, <1>4, <1>5, <1>7 DEF handleReclaimed
<1>9. LockSaved(s, s2, e.token, k)
  BY <1>7, SaveLockIs DEF Due, StoreOK
<1>10. Handled(s, s2, e.token, w, d) /\ CountsSame(s, s2)
  BY <1>1, <1>2, <1>6, <1>9, LockHandled
<1> QED BY <1>8, <1>10

LEMMA LockExtendedHandled ==
    ASSUME NEW s, NEW e, NEW v, NEW c, NEW w, NEW d, Due(s, e, v, c, w, d),
           e.kind = "LockExtended"
    PROVE  /\ Handled(s, handleLockExtended(s, e), e.token, w, d)
           /\ CountsSame(s, handleLockExtended(s, e))
<1>1. /\ v.launched /\ v.until # 0 /\ c = d /\ v \in Terms /\ e.until \in Nat \ {0}
      /\ w = [v EXCEPT !.until = e.until, !.extends = @ + 1]
  BY DEF Due, TermsStep, CurveStep, Trades, Events
<1>2. /\ SameButLock(w, v) /\ w.until = e.until /\ w.extends = v.extends + 1
      /\ w.collected = v.collected /\ w.reclaimed = v.reclaimed
  BY <1>1 DEF Terms, SameButLock
<1>3. PICK old : old = s.locks[e.token]
  OBVIOUS
<1>4. Has(s.locks, e.token) /\ LockOK(old) /\ LockShows(old, v)
  BY <1>1, <1>3, LockDue
<1>5. PICK k : k = [old EXCEPT !.until = e.until, !.permanent = (e.until = PERMANENT),
                               !.extendCount = @ + 1]
  OBVIOUS
<1>6. LockOK(k) /\ LockShows(k, w)
  BY <1>2, <1>4, <1>5 DEF LockOK, LockFields, LockShows
<1>7. PICK s2 : s2 = SaveLock(s, e.token, k)
  OBVIOUS
<1>8. s2 = handleLockExtended(s, e)
  BY <1>3, <1>4, <1>5, <1>7 DEF handleLockExtended
<1>9. LockSaved(s, s2, e.token, k)
  BY <1>7, SaveLockIs DEF Due, StoreOK
<1>10. Handled(s, s2, e.token, w, d) /\ CountsSame(s, s2)
  BY <1>1, <1>2, <1>6, <1>9, LockHandled
<1> QED BY <1>8, <1>10

LEMMA FeesCollectedHandled ==
    ASSUME NEW s, NEW e, NEW v, NEW c, NEW w, NEW d, Due(s, e, v, c, w, d),
           e.kind = "FeesCollected"
    PROVE  /\ Handled(s, handleFeesCollected(s, e), e.token, w, d)
           /\ CountsSame(s, handleFeesCollected(s, e))
<1>1. /\ v.launched /\ v.until # 0 /\ c = d /\ v \in Terms
      /\ e.creator \in Nat /\ e.treasury \in Nat
      /\ w = [v EXCEPT !.collected = @ + e.creator + e.treasury]
  BY DEF Due, TermsStep, CurveStep, Trades, Events
<1>2. /\ SameButLock(w, v) /\ w.until = v.until /\ w.extends = v.extends
      /\ w.collected = v.collected + e.creator + e.treasury /\ w.reclaimed = v.reclaimed
  BY <1>1 DEF Terms, SameButLock
<1>3. PICK old : old = s.locks[e.token]
  OBVIOUS
<1>4. Has(s.locks, e.token) /\ LockOK(old) /\ LockShows(old, v)
  BY <1>1, <1>3, LockDue
<1>5. PICK k : k = [old EXCEPT !.collectionCount = @ + 1, !.creatorFees = @ + e.creator,
                               !.treasuryFees = @ + e.treasury]
  OBVIOUS
<1>6. LockOK(k) /\ LockShows(k, w)
  <2>1. /\ DOMAIN k = LockFields /\ k.until = old.until /\ k.permanent = old.permanent
        /\ k.extendCount = old.extendCount /\ k.reclaimed = old.reclaimed
        /\ k.creatorFees = old.creatorFees + e.creator
        /\ k.treasuryFees = old.treasuryFees + e.treasury
    BY <1>4, <1>5 DEF LockOK, LockFields
  <2> QED BY <1>1, <1>2, <1>4, <2>1 DEF LockOK, LockShows, Terms
<1>7. PICK s1 : s1 = SaveLock(s, e.token, k)
  OBVIOUS
<1>8. PICK s2, x : /\ x = Save(s1.collections, <<now, logIndex>>,
                               [token |-> e.token, creator |-> e.creator, treasury |-> e.treasury])
                   /\ s2 = [s1 EXCEPT !.collections = x]
  OBVIOUS
<1>9. s2 = handleFeesCollected(s, e)
  BY <1>3, <1>4, <1>5, <1>7, <1>8 DEF handleFeesCollected
<1>10. LockSaved(s, s1, e.token, k)
  BY <1>7, SaveLockIs DEF Due, StoreOK
<1>11. LockSaved(s, s2, e.token, k)
  BY <1>8, <1>10 DEF LockSaved, StoreFields
<1>12. Handled(s, s2, e.token, w, d) /\ CountsSame(s, s2)
  BY <1>1, <1>2, <1>6, <1>11, LockHandled
<1> QED BY <1>9, <1>12

\* s2 is s but for what no launch is served from.
SameEntities(s, s2) ==
    /\ DOMAIN s2 = StoreFields /\ FactoryOK(s2.factory)
    /\ s2.tokens = s.tokens /\ s2.graduations = s.graduations /\ s2.locks = s.locks
    /\ s2.positions = s.positions /\ s2.trades = s.trades

LEMMA HandledStill ==
    ASSUME NEW s, NEW s1, NEW s2, NEW t, NEW w, NEW d, Handled(s, s1, t, w, d),
           SameEntities(s1, s2)
    PROVE  Handled(s, s2, t, w, d)
<1>1. StoreOK(s2)
  BY DEF Handled, StoreOK, SameEntities
<1>2. Serves(s2, t, w, d)
  BY DEF Handled, Serves, Shows, SameEntities
<1>3. ASSUME NEW u \in Tokens, u # t PROVE Untouched(s, s2, u)
  <2>1. Untouched(s, s1, u)
    BY <1>3 DEF Handled
  <2> QED BY <2>1 DEF SameEntities, Untouched
<1> QED BY <1>1, <1>2, <1>3 DEF Handled

LEMMA LaunchCreatedHandled ==
    ASSUME NEW s, NEW e, NEW v, NEW c, NEW w, NEW d, Due(s, e, v, c, w, d),
           e.kind = "LaunchCreated"
    PROVE  /\ Handled(s, handleLaunchCreated(s, e), e.token, w, d)
           /\ LaunchCounted(s, handleLaunchCreated(s, e), e.token)
<1>1. PICK t \in Tokens : t = e.token
  BY DEF Due, Events
<1>2. v = NoTerms /\ c = d /\ v \in Terms /\ w = [v EXCEPT !.launched = TRUE]
  BY DEF Due, TermsStep, CurveStep, Trades
<1>3. /\ w.launched /\ w.carve = 0 /\ w.permanent = FALSE /\ w.duration = 0 /\ w.graduatedAt = 0
      /\ w.claimed = 0 /\ w.until = 0 /\ ~v.launched /\ v.graduatedAt = 0 /\ v.until = 0
  BY <1>2 DEF NoTerms
<1>4. StoreOK(s) /\ Serves(s, t, v, c)
  BY <1>1 DEF Due
<1>5. d = NoCurve
  BY <1>2, <1>3, <1>4 DEF Serves
<1>6. PICK k : k = [tokensSold |-> 0, ethReserve |-> VIRTUAL_ETH, progress |-> 0,
                  lastTrade |-> 0, buyCount |-> 0, sellCount |-> 0, tradeCount |-> 0,
                  volumeEth |-> 0, curvePositionCount |-> 0,
                  devAllocation |-> 0, devClaimed |-> 0, lockDuration |-> 0,
                  permanentLock |-> FALSE, lock |-> NONE,
                  graduated |-> FALSE, graduatedAt |-> NONE, graduation |-> NONE]
  OBVIOUS
<1>7. TokenOK(k) /\ TokenShows(k, w)
  <2>1. DOMAIN k = TokenFields
    BY <1>6 DEF TokenFields
  <2>2. /\ k.tokensSold = 0 /\ k.buyCount = 0 /\ k.sellCount = 0 /\ k.volumeEth = 0
        /\ k.curvePositionCount = 0 /\ k.devAllocation = 0 /\ k.devClaimed = 0
        /\ k.lockDuration = 0 /\ k.permanentLock = FALSE /\ k.graduated = FALSE
    BY <1>6
  <2>3. k.permanentLock = w.permanent /\ k.graduated = (w.graduatedAt # 0)
    BY <1>3, <2>2, Zenon
  <2> QED BY <1>3, <2>1, <2>2, <2>3 DEF TokenOK, TokenShows
<1>8. CurveShows(k, d)
  BY <1>5, <1>6, Sizes DEF CurveShows, NoCurve
<1>9. PICK s1 : s1 = SaveToken(s, t, k)
  OBVIOUS
<1>10. TokenSaved(s, s1, t, k)
  BY <1>4, <1>9, SaveTokenIs DEF StoreOK
<1>11. /\ StoreOK(s1) /\ \A u \in Tokens : u # t => Untouched(s, s1, u)
       /\ Has(s1.tokens, t) /\ s1.tokens[t] = k
       /\ s1.graduations = s.graduations /\ s1.locks = s.locks
  <2>1. StoreOK(s) /\ TokenSaved(s, s1, t, k) /\ TokenOK(k)
    BY <1>4, <1>7, <1>10
  <2>2. TokenNew(s, s1, t, k)
    BY <2>1, TokenOnly
  <2> QED BY <2>2 DEF TokenNew
<1>12. Handled(s, s1, t, w, d)
  BY <1>3, <1>4, <1>7, <1>8, <1>11 DEF Handled, Serves, Shows
<1>13. PICK f, x : f = [s1.factory EXCEPT !.launchCount = @ + 1] /\ x = s1.templates \cup {t}
  OBVIOUS
<1>14. PICK s2 : s2 = [s1 EXCEPT !.templates = x, !.factory = f]
  OBVIOUS
<1>15. s2 = handleLaunchCreated(s, e)
  BY <1>1, <1>6, <1>9, <1>13, <1>14 DEF handleLaunchCreated
<1>16. DOMAIN s1 = StoreFields /\ FactoryOK(s1.factory)
  BY <1>11 DEF StoreOK
<1>17. FactoryOK(f)
  BY <1>13, <1>16 DEF FactoryOK, FactoryFields
<1>18. SameEntities(s1, s2)
  BY <1>14, <1>16, <1>17 DEF SameEntities, StoreFields
<1>19. LaunchCounted(s, s2, t)
  <2>1. t \notin DOMAIN s.tokens
    BY <1>3, <1>4 DEF Serves, Shows, Has
  <2>2. /\ s1.factory = s.factory /\ s1.trades = s.trades /\ s1.positions = s.positions
        /\ s1.graduations = s.graduations /\ DOMAIN s1.tokens = DOMAIN s.tokens \cup {t}
        /\ s1.tokens[t] = k /\ \A u \in DOMAIN s.tokens : u # t => s1.tokens[u] = s.tokens[u]
    BY <1>10 DEF TokenSaved
  <2>3. s2.factory = f
    BY <1>14, <1>16 DEF StoreFields
  <2>4. /\ k.buyCount = 0 /\ k.sellCount = 0 /\ k.volumeEth = 0 /\ k.tokensSold = 0
        /\ k.curvePositionCount = 0
    BY <1>6
  <2> QED BY <1>13, <1>18, <2>1, <2>2, <2>3, <2>4 DEF LaunchCounted, SameEntities
<1>20. Handled(s, s2, t, w, d)
  BY <1>12, <1>18, HandledStill
<1> QED BY <1>1, <1>15, <1>19, <1>20

LEMMA LockRegisteredHandled ==
    ASSUME NEW s, NEW e, NEW v, NEW c, NEW w, NEW d, Due(s, e, v, c, w, d),
           e.kind = "LockRegistered"
    PROVE  /\ Handled(s, handleLockRegistered(s, e), e.token, w, d)
           /\ CountsSame(s, handleLockRegistered(s, e))
<1>1. PICK t \in Tokens : t = e.token
  BY DEF Due, Events
<1>2. /\ v.launched /\ c = d /\ v \in Terms /\ e.until \in Nat \ {0}
      /\ v.until = 0 /\ v.extends = 0 /\ v.collected = 0 /\ ~v.reclaimed
      /\ w = [v EXCEPT !.until = e.until]
  BY DEF Due, TermsStep, CurveStep, Trades, Events
<1>3. /\ SameButLock(w, v) /\ w.until = e.until /\ w.extends = 0
      /\ w.collected = 0 /\ w.reclaimed = FALSE
  BY <1>2 DEF Terms, SameButLock
<1>4. StoreOK(s) /\ Serves(s, t, v, c)
  BY <1>1 DEF Due
<1>5. PICK lock : lock = [until |-> e.until, permanent |-> e.until = PERMANENT,
                          extendCount |-> 0, reclaimed |-> FALSE, collectionCount |-> 0,
                          creatorFees |-> 0, treasuryFees |-> 0]
  OBVIOUS
<1>6. LockOK(lock) /\ LockShows(lock, w)
  <2>1. DOMAIN lock = LockFields
    BY <1>5 DEF LockFields
  <2>2. /\ lock.until = e.until /\ lock.permanent = (e.until = PERMANENT)
        /\ lock.extendCount = 0 /\ lock.reclaimed = FALSE
        /\ lock.creatorFees = 0 /\ lock.treasuryFees = 0
    BY <1>5
  <2>3. lock.permanent = (w.until = PERMANENT) /\ lock.reclaimed = w.reclaimed
    BY <1>3, <2>2, Zenon
  <2> QED BY <1>3, <2>1, <2>2, <2>3 DEF LockOK, LockShows
<1>7. PICK old : old = s.tokens[t]
  OBVIOUS
<1>8. /\ Has(s.tokens, t) /\ TokenOK(old) /\ TokenShows(old, v) /\ CurveShows(old, c)
  BY <1>1, <1>2, <1>7, TokenDue
<1>9. PICK k : k = [old EXCEPT !.lock = t]
  OBVIOUS
<1>10. TokenOK(k) /\ TokenShows(k, w) /\ CurveShows(k, d) /\ SameCounts(k, old)
  BY <1>2, <1>3, <1>8, <1>9
     DEF TokenOK, TokenFields, TokenShows, CurveShows, SameCounts, SameButLock
<1>11. PICK s1, s2 : s1 = SaveLock(s, t, lock) /\ s2 = SaveToken(s1, t, k)
  OBVIOUS
<1>12. s2 = handleLockRegistered(s, e)
  BY <1>1, <1>5, <1>7, <1>8, <1>9, <1>11 DEF handleLockRegistered
<1>13. LockSaved(s, s1, t, lock)
  BY <1>4, <1>11, SaveLockIs DEF StoreOK
<1>14. /\ StoreOK(s1) /\ \A u \in Tokens : u # t => Untouched(s, s1, u)
       /\ Has(s1.locks, t) /\ s1.locks[t] = lock
       /\ s1.graduations = s.graduations /\ s1.tokens = s.tokens
  <2>1. StoreOK(s) /\ LockSaved(s, s1, t, lock) /\ LockOK(lock)
    BY <1>4, <1>6, <1>13
  <2>2. LockNew(s, s1, t, lock)
    BY <2>1, LockOnly
  <2> QED BY <2>2 DEF LockNew
<1>15. TokenSaved(s1, s2, t, k)
  BY <1>11, <1>14, SaveTokenIs DEF StoreOK
<1>16. /\ StoreOK(s2) /\ \A u \in Tokens : u # t => Untouched(s1, s2, u)
       /\ Has(s2.tokens, t) /\ s2.tokens[t] = k
       /\ s2.graduations = s1.graduations /\ s2.locks = s1.locks
  <2>1. StoreOK(s1) /\ TokenSaved(s1, s2, t, k) /\ TokenOK(k)
    BY <1>10, <1>14, <1>15
  <2>2. TokenNew(s1, s2, t, k)
    BY <2>1, TokenOnly
  <2> QED BY <2>2 DEF TokenNew
<1>17. Serves(s2, t, w, d)
  BY <1>2, <1>3, <1>4, <1>6, <1>10, <1>14, <1>16 DEF Serves, Shows, SameButLock
<1>18. ASSUME NEW u \in Tokens, u # t PROVE Untouched(s, s2, u)
  <2>1. Untouched(s, s1, u) /\ Untouched(s1, s2, u)
    BY <1>14, <1>16, <1>18
  <2> QED BY <2>1 DEF Untouched
<1>19. CountsSame(s, s2)
  <2>1. t \in DOMAIN s.tokens
    BY <1>8 DEF Has
  <2> QED BY <1>7, <1>10, <1>13, <1>15, <2>1 DEF CountsSame, TokenSaved, LockSaved, SameCounts
<1> QED BY <1>1, <1>12, <1>16, <1>17, <1>18, <1>19 DEF Handled

LEMMA GraduatedHandled ==
    ASSUME NEW s, NEW e, NEW v, NEW c, NEW w, NEW d, Due(s, e, v, c, w, d),
           e.kind = "Graduated", now \in Nat
    PROVE  /\ Handled(s, handleGraduated(s, e), e.token, w, d)
           /\ GraduationCounted(s, handleGraduated(s, e), e.token, e.weth)
<1>1. PICK t \in Tokens : t = e.token
  BY DEF Due, Events
<1>2. /\ v.launched /\ c = d /\ v \in Terms /\ e.weth \in Nat
      /\ v.until # 0 /\ v.graduatedAt = 0 /\ now # 0
      /\ w = [v EXCEPT !.graduatedAt = now, !.raised = e.weth]
  BY DEF Due, TermsStep, CurveStep, Trades, Events
<1>3. /\ w.launched = v.launched /\ w.carve = v.carve /\ w.permanent = v.permanent
      /\ w.duration = v.duration /\ w.graduatedAt = now /\ w.raised = e.weth
      /\ w.claimed = v.claimed /\ w.until = v.until /\ w.extends = v.extends
      /\ w.collected = v.collected /\ w.reclaimed = v.reclaimed
  BY <1>2 DEF Terms
<1>4. StoreOK(s) /\ Serves(s, t, v, c)
  BY <1>1 DEF Due
<1>5. PICK old : old = s.tokens[t]
  OBVIOUS
<1>6. /\ Has(s.tokens, t) /\ TokenOK(old) /\ TokenShows(old, v) /\ CurveShows(old, c)
  BY <1>1, <1>2, <1>5, TokenDue
<1>7. PICK k : k = [old EXCEPT !.graduated = TRUE, !.graduatedAt = now, !.graduation = t]
  OBVIOUS
<1>8. TokenOK(k) /\ TokenShows(k, w) /\ CurveShows(k, d) /\ SameCounts(k, old)
  BY <1>2, <1>3, <1>6, <1>7 DEF TokenOK, TokenFields, TokenShows, CurveShows, SameCounts
<1>9. PICK s1 : s1 = SaveToken(s, t, k)
  OBVIOUS
<1>10. TokenSaved(s, s1, t, k)
  BY <1>4, <1>9, SaveTokenIs DEF StoreOK
<1>11. /\ StoreOK(s1) /\ \A u \in Tokens : u # t => Untouched(s, s1, u)
       /\ Has(s1.tokens, t) /\ s1.tokens[t] = k
       /\ s1.graduations = s.graduations /\ s1.locks = s.locks
  <2>1. StoreOK(s) /\ TokenSaved(s, s1, t, k) /\ TokenOK(k)
    BY <1>4, <1>8, <1>10
  <2>2. TokenNew(s, s1, t, k)
    BY <2>1, TokenOnly
  <2> QED BY <2>2 DEF TokenNew
<1>12. PICK g, f : /\ g = Save(s1.graduations, t, [raisedEth |-> e.weth, time |-> now])
                   /\ f = [s1.factory EXCEPT !.graduationCount = @ + 1,
                                              !.totalRaisedEth = @ + e.weth]
  OBVIOUS
<1>13. PICK s2 : s2 = [s1 EXCEPT !.graduations = g, !.factory = f]
  OBVIOUS
<1>14. s2 = handleGraduated(s, e)
  BY <1>1, <1>5, <1>6, <1>7, <1>9, <1>12, <1>13 DEF handleGraduated
<1>15. /\ DOMAIN g = DOMAIN s.graduations \cup {t} /\ g[t].raisedEth = e.weth
       /\ \A u \in DOMAIN s.graduations : u # t => g[u] = s.graduations[u]
  BY <1>11, <1>12 DEF Save
<1>16. DOMAIN s1 = StoreFields /\ FactoryOK(s1.factory)
  BY <1>11 DEF StoreOK
<1>17. FactoryOK(f)
  BY <1>12, <1>16 DEF FactoryOK, FactoryFields
<1>18. /\ DOMAIN s2 = StoreFields /\ s2.factory = f /\ s2.graduations = g
       /\ s2.tokens = s1.tokens /\ s2.locks = s1.locks
       /\ s2.positions = s1.positions /\ s2.trades = s1.trades
  BY <1>13, <1>16 DEF StoreFields
<1>19. StoreOK(s2)
  BY <1>4, <1>11, <1>15, <1>17, <1>18 DEF StoreOK
<1>20. Serves(s2, t, w, d)
  BY <1>2, <1>3, <1>4, <1>8, <1>11, <1>15, <1>18 DEF Serves, Shows, LockShows, Has
<1>21. ASSUME NEW u \in Tokens, u # t PROVE Untouched(s, s2, u)
  <2>1. Untouched(s, s1, u)
    BY <1>11, <1>21
  <2> QED BY <1>11, <1>15, <1>18, <1>21, <2>1 DEF Untouched, Has
<1>22. GraduationCounted(s, s2, t, e.weth)
  <2>1. t \notin DOMAIN s.graduations /\ t \in DOMAIN s.tokens
    BY <1>2, <1>4, <1>6 DEF Serves, Shows, Has
  <2>2. /\ s1.factory = s.factory /\ s1.trades = s.trades /\ s1.positions = s.positions
        /\ DOMAIN s1.tokens = DOMAIN s.tokens \cup {t}
        /\ s1.tokens[t] = k /\ \A u \in DOMAIN s.tokens : u # t => s1.tokens[u] = s.tokens[u]
    BY <1>10 DEF TokenSaved
  <2>3. SameCounts(k, s.tokens[t])
    BY <1>5, <1>6, <1>7 DEF SameCounts, TokenOK, TokenFields
  <2>4. \A u \in DOMAIN s.tokens : SameCounts(s2.tokens[u], s.tokens[u])
    BY <1>18, <2>2, <2>3 DEF SameCounts
  <2> QED BY <1>12, <1>15, <1>18, <2>1, <2>2, <2>4 DEF GraduationCounted
<1> QED BY <1>1, <1>14, <1>19, <1>20, <1>21, <1>22 DEF Handled

-----------------------------------------------------------------------------
(* Trades.                                                                  *)

\* s2 is s with a trade of e recorded: the token became k but for the count of
\* positions, the factory f.
TradeSaved(s, s2, e, k, f, isBuy) ==
    LET id == <<e.token, e.trader>>
        before == PositionOf(s, e)
        after == PositionAfter(before, e, isBuy)
    IN /\ DOMAIN s2 = StoreFields /\ s2.factory = f
       /\ DOMAIN s2.trades = DOMAIN s.trades \cup {<<now, logIndex>>}
       /\ s2.graduations = s.graduations /\ s2.locks = s.locks
       /\ DOMAIN s2.tokens = DOMAIN s.tokens \cup {e.token}
       /\ s2.tokens[e.token]
            = [k EXCEPT !.curvePositionCount = CountAfter(@, before, after)]
       /\ \A x \in DOMAIN s.tokens : x # e.token => s2.tokens[x] = s.tokens[x]
       /\ DOMAIN s2.positions = DOMAIN s.positions \cup {id} /\ s2.positions[id] = after
       /\ \A x \in DOMAIN s.positions : x # id => s2.positions[x] = s.positions[x]

\* What a trade of e adds to the counts of its token and of the factory.
TradeCounted(s, e, k, f, isBuy) ==
    LET old == s.tokens[e.token]
        volume == IF isBuy THEN BuyVolume(e) ELSE SellVolume(e)
        buys == IF isBuy THEN 1 ELSE 0
    IN /\ volume \in Nat
       /\ k.buyCount = old.buyCount + buys /\ k.sellCount = old.sellCount + (1 - buys)
       /\ k.volumeEth = old.volumeEth + volume
       /\ k.curvePositionCount = old.curvePositionCount
       /\ k.tokensSold = IF isBuy THEN old.tokensSold + e.amount ELSE old.tokensSold - e.amount
       /\ f.buyCount = s.factory.buyCount + buys
       /\ f.sellCount = s.factory.sellCount + (1 - buys)
       /\ f.tradeCount = s.factory.tradeCount + 1
       /\ f.totalVolumeEth = s.factory.totalVolumeEth + volume
       /\ f.launchCount = s.factory.launchCount /\ f.graduationCount = s.factory.graduationCount

LEMMA TradeIsSaved ==
    ASSUME NEW s, DOMAIN s = StoreFields, NEW e, NEW type, NEW k, NEW f, NEW isBuy,
           NEW s1, s1 = SaveToken(recordTrade(s, e, type), e.token, k),
           NEW s2, s2 = [s1 EXCEPT !.factory = f]
    PROVE  TradeSaved(s, applyCurvePositionDelta(s2, e, isBuy), e, k, f, isBuy)
<1>1. PICK trades, s0 : /\ s0 = recordTrade(s, e, type) /\ s0 = [s EXCEPT !.trades = trades]
                        /\ DOMAIN trades = DOMAIN s.trades \cup {<<now, logIndex>>}
  <2>1. PICK row : row = [token |-> e.token, trader |-> e.trader, type |-> type,
                          amount |-> e.amount, sold |-> e.sold, time |-> now]
    OBVIOUS
  <2>2. PICK trades : trades = Save(s.trades, <<now, logIndex>>, row)
    OBVIOUS
  <2>3. [s EXCEPT !.trades = trades] = recordTrade(s, e, type)
    BY <2>1, <2>2 DEF recordTrade
  <2>4. DOMAIN trades = DOMAIN s.trades \cup {<<now, logIndex>>}
    BY <2>2 DEF Save
  <2> QED BY <2>3, <2>4
<1>2. /\ DOMAIN s0 = StoreFields /\ s0.factory = s.factory /\ s0.tokens = s.tokens
      /\ s0.trades = trades /\ s0.positions = s.positions
      /\ s0.graduations = s.graduations /\ s0.locks = s.locks
  BY <1>1 DEF StoreFields
<1>3. TokenSaved(s0, s1, e.token, k)
  BY <1>1, <1>2, SaveTokenIs
<1>4. /\ DOMAIN s2 = StoreFields /\ s2.factory = f /\ s2.tokens = s1.tokens
      /\ s2.trades = s1.trades /\ s2.positions = s1.positions
      /\ s2.graduations = s1.graduations /\ s2.locks = s1.locks
  BY <1>3 DEF TokenSaved, StoreFields
<1>5. PICK before, after, id : /\ before = PositionOf(s, e)
                               /\ after = PositionAfter(before, e, isBuy)
                               /\ id = <<e.token, e.trader>>
  OBVIOUS
<1>6. before = PositionOf(s2, e)
  BY <1>2, <1>3, <1>4, <1>5 DEF PositionOf, TokenSaved
<1>7. PICK token : token = [k EXCEPT !.curvePositionCount = CountAfter(@, before, after)]
  OBVIOUS
<1>8. s2.tokens[e.token] = k
  BY <1>3, <1>4 DEF TokenSaved
<1>9. PICK s3, positions : /\ s3 = SaveToken(s2, e.token, token)
                           /\ positions = Save(s3.positions, id, after)
  OBVIOUS
<1>10. PICK s4 : s4 = [s3 EXCEPT !.positions = positions]
  OBVIOUS
<1>11. s4 = applyCurvePositionDelta(s2, e, isBuy)
  BY <1>5, <1>6, <1>7, <1>8, <1>9, <1>10 DEF applyCurvePositionDelta
<1>12. TokenSaved(s2, s3, e.token, token)
  BY <1>4, <1>9, SaveTokenIs
<1>13. /\ DOMAIN positions = DOMAIN s.positions \cup {id} /\ positions[id] = after
       /\ \A x \in DOMAIN s.positions : x # id => positions[x] = s.positions[x]
  <2>1. s3.positions = s.positions
    BY <1>2, <1>3, <1>4, <1>12 DEF TokenSaved
  <2> QED BY <1>9, <2>1 DEF Save
<1>14. /\ DOMAIN s4 = StoreFields /\ s4.factory = f /\ s4.tokens = s3.tokens
       /\ s4.trades = trades /\ s4.positions = positions
       /\ s4.graduations = s.graduations /\ s4.locks = s.locks
  <2>1. /\ s3.trades = trades /\ s3.factory = f /\ DOMAIN s3 = StoreFields
        /\ s3.graduations = s.graduations /\ s3.locks = s.locks
    BY <1>2, <1>3, <1>4, <1>12 DEF TokenSaved
  <2> QED BY <1>10, <2>1 DEF StoreFields
<1>15. /\ DOMAIN s4.tokens = DOMAIN s.tokens \cup {e.token} /\ s4.tokens[e.token] = token
       /\ \A x \in DOMAIN s.tokens : x # e.token => s4.tokens[x] = s.tokens[x]
  BY <1>2, <1>3, <1>4, <1>12, <1>14 DEF TokenSaved
<1>16. TradeSaved(s, s4, e, k, f, isBuy)
  BY <1>1, <1>5, <1>7, <1>13, <1>14, <1>15 DEF TradeSaved
<1> QED BY <1>11, <1>16

LEMMA PositionChange ==
    ASSUME NEW s, StoreOK(s), NEW e, e.amount \in Nat, NEW isBuy \in BOOLEAN
    PROVE  LET before == PositionOf(s, e)
               after == PositionAfter(before, e, isBuy)
           IN /\ PositionOK(before) /\ PositionOK(after)
              /\ after.balance = IF isBuy THEN before.balance + e.amount
                                 ELSE LessOrZero(before.balance, e.amount)
              /\ before.balance = IF Has(s.positions, <<e.token, e.trader>>)
                                  THEN s.positions[<<e.token, e.trader>>].balance ELSE 0
<1>1. PICK id, before, after : /\ id = <<e.token, e.trader>> /\ before = PositionOf(s, e)
                               /\ after = PositionAfter(before, e, isBuy)
  OBVIOUS
<1>2. PositionOK(NewPosition) /\ NewPosition.balance = 0
  BY DEF PositionOK, NewPosition, PositionFields
<1>3. ASSUME Has(s.positions, id) PROVE PositionOK(s.positions[id])
  BY <1>3 DEF StoreOK, Has
<1>4. before = IF Has(s.positions, id) THEN s.positions[id] ELSE NewPosition
  BY <1>1 DEF PositionOf
<1>5. /\ PositionOK(before)
      /\ before.balance = IF Has(s.positions, id) THEN s.positions[id].balance ELSE 0
  BY <1>2, <1>3, <1>4
<1>6. ASSUME isBuy
      PROVE  PositionOK(after) /\ after.balance = before.balance + e.amount
  <2>1. after = [before EXCEPT !.balance = @ + e.amount, !.bought = @ + e.amount,
                               !.tradeCount = @ + 1]
    BY <1>1, <1>6 DEF PositionAfter
  <2>2. DOMAIN after = PositionFields /\ after.balance = before.balance + e.amount
    BY <1>5, <2>1 DEF PositionOK, PositionFields
  <2>3. after.balance \in Nat
    BY <1>5, <2>2 DEF PositionOK
  <2> QED BY <1>6, <2>2, <2>3 DEF PositionOK
<1>7. ASSUME ~isBuy
      PROVE  PositionOK(after) /\ after.balance = LessOrZero(before.balance, e.amount)
  <2>1. after = [before EXCEPT !.balance = LessOrZero(@, e.amount), !.sold = @ + e.amount,
                               !.tradeCount = @ + 1]
    BY <1>1, <1>7 DEF PositionAfter
  <2>2. DOMAIN after = PositionFields /\ after.balance = LessOrZero(before.balance, e.amount)
    BY <1>5, <2>1 DEF PositionOK, PositionFields
  <2>3. after.balance \in Nat
    BY <1>5, <2>2 DEF PositionOK, LessOrZero
  <2> QED BY <1>7, <2>2, <2>3 DEF PositionOK
<1>8. /\ PositionOK(after)
      /\ after.balance = IF isBuy THEN before.balance + e.amount
                         ELSE LessOrZero(before.balance, e.amount)
  BY <1>6, <1>7
<1> QED BY <1>1, <1>5, <1>8

LEMMA TradeHandled ==
    ASSUME NEW s, NEW e, NEW v, NEW c, NEW w, NEW d, Due(s, e, v, c, w, d), v.launched, w = v,
           NEW isBuy \in BOOLEAN, NEW s2, NEW k, NEW f, TradeSaved(s, s2, e, k, f, isBuy),
           e.trader \in Accounts, e.amount \in Nat,
           TokenOK(k), TokenShows(k, w), CurveShows(k, d), FactoryOK(f)
    PROVE  Handled(s, s2, e.token, w, d)
<1>1. PICK t \in Tokens : t = e.token
  BY DEF Due, Events
<1>2. StoreOK(s) /\ Serves(s, t, v, c)
  BY <1>1 DEF Due
<1>3. PICK before, after, id : /\ before = PositionOf(s, e)
                               /\ after = PositionAfter(before, e, isBuy)
                               /\ id = <<t, e.trader>>
  OBVIOUS
<1>4. PositionOK(before) /\ PositionOK(after)
  BY <1>2, <1>3, PositionChange
<1>5. PICK count : count = CountAfter(k.curvePositionCount, before, after)
  OBVIOUS
<1>6. count \in Int
  BY <1>5 DEF TokenOK, CountAfter
<1>7. PICK token : token = [k EXCEPT !.curvePositionCount = count]
  OBVIOUS
<1>8. TokenOK(token) /\ TokenShows(token, w) /\ CurveShows(token, d)
  BY <1>6, <1>7 DEF TokenOK, TokenFields, TokenShows, CurveShows
<1>9. /\ DOMAIN s2 = StoreFields /\ s2.factory = f
      /\ DOMAIN s2.trades = DOMAIN s.trades \cup {<<now, logIndex>>}
      /\ s2.graduations = s.graduations /\ s2.locks = s.locks
      /\ DOMAIN s2.tokens = DOMAIN s.tokens \cup {t} /\ s2.tokens[t] = token
      /\ \A x \in DOMAIN s.tokens : x # t => s2.tokens[x] = s.tokens[x]
      /\ DOMAIN s2.positions = DOMAIN s.positions \cup {id} /\ s2.positions[id] = after
      /\ \A x \in DOMAIN s.positions : x # id => s2.positions[x] = s.positions[x]
  BY <1>1, <1>3, <1>5, <1>7 DEF TradeSaved
<1>10. StoreOK(s2)
  <2>1. IsFiniteSet(DOMAIN s2.trades)
    <3>1. PICK S, x : S = DOMAIN s.trades /\ x = <<now, logIndex>>
      OBVIOUS
    <3>2. IsFiniteSet(S) /\ DOMAIN s2.trades = S \cup {x}
      BY <1>2, <1>9, <3>1 DEF StoreOK
    <3>3. IsFiniteSet(S \cup {x})
      BY <3>2, FS_AddElement
    <3> QED BY <3>2, <3>3
  <2>2. DOMAIN s2.tokens \subseteq Tokens /\ \A u \in DOMAIN s2.tokens : TokenOK(s2.tokens[u])
    BY <1>2, <1>8, <1>9 DEF StoreOK
  <2>3. ASSUME NEW x \in DOMAIN s2.positions
        PROVE  x \in (DOMAIN s2.tokens) \X Accounts /\ PositionOK(s2.positions[x])
    <3>1. CASE x = id
      BY <1>3, <1>4, <1>9, <3>1
    <3>2. CASE x # id
      <4>1. /\ x \in (DOMAIN s.tokens) \X Accounts /\ PositionOK(s.positions[x])
            /\ s2.positions[x] = s.positions[x]
        BY <1>2, <1>9, <3>2 DEF StoreOK
      <4> QED BY <1>9, <4>1
    <3> QED BY <3>1, <3>2
  <2>4. /\ \A u \in DOMAIN s2.locks : LockOK(s2.locks[u])
        /\ DOMAIN s2.graduations \subseteq Tokens
    BY <1>2, <1>9 DEF StoreOK
  <2> QED BY <1>9, <2>1, <2>2, <2>3, <2>4 DEF StoreOK
<1>11. Serves(s2, t, w, d)
  BY <1>2, <1>8, <1>9 DEF Serves, Shows, Has
<1>12. ASSUME NEW u \in Tokens, u # t PROVE Untouched(s, s2, u)
  BY <1>9, <1>12 DEF Untouched, Has
<1> QED BY <1>1, <1>10, <1>11, <1>12 DEF Handled

LEMMA BoughtHandled ==
    ASSUME NEW s, NEW e, NEW v, NEW c, NEW w, NEW d, Due(s, e, v, c, w, d),
           e.kind = "Bought"
    PROVE  /\ Handled(s, handleBought(s, e), e.token, w, d)
           /\ TradeSaved(s, handleBought(s, e), e, TokenAfterBuy(s.tokens[e.token], e),
                         CountBuy(s.factory, e), TRUE)
           /\ TradeCounted(s, e, TokenAfterBuy(s.tokens[e.token], e), CountBuy(s.factory, e), TRUE)
           /\ TokenOK(TokenAfterBuy(s.tokens[e.token], e))
           /\ Has(s.tokens, e.token) /\ e.trader \in Accounts /\ e.amount \in Nat
<1>1. /\ v.launched /\ w = v /\ e.sold = c.sold + e.amount
      /\ d = [sold |-> e.sold, traded |-> c.traded + BuyVolume(e), trades |-> c.trades + 1]
      /\ e.trader \in Accounts /\ e.amount \in Nat /\ BuyVolume(e) \in Nat /\ e.sold \in Int
  BY DEF Due, TermsStep, CurveStep, Trades, Events, BuyVolume
<1>2. PICK old, k, f : /\ old = s.tokens[e.token] /\ k = TokenAfterBuy(old, e)
                       /\ f = CountBuy(s.factory, e)
  OBVIOUS
<1>3. /\ Has(s.tokens, e.token) /\ TokenOK(old) /\ TokenShows(old, v) /\ CurveShows(old, c)
  BY <1>1, <1>2, TokenDue
<1>4. StoreOK(s)
  BY DEF Due
<1>5. /\ DOMAIN k = TokenFields /\ k.tokensSold = e.sold /\ k.ethReserve = VIRTUAL_ETH + e.sold
      /\ k.buyCount = old.buyCount + 1 /\ k.sellCount = old.sellCount
      /\ k.tradeCount = old.tradeCount + 1 /\ k.volumeEth = old.volumeEth + BuyVolume(e)
      /\ k.curvePositionCount = old.curvePositionCount
  BY <1>2, <1>3 DEF TokenAfterBuy, refreshCurveState, TokenOK, TokenFields
<1>6. /\ k.devAllocation = old.devAllocation /\ k.devClaimed = old.devClaimed
      /\ k.lockDuration = old.lockDuration /\ k.permanentLock = old.permanentLock
      /\ k.graduated = old.graduated /\ k.graduatedAt = old.graduatedAt
  BY <1>2, <1>3 DEF TokenAfterBuy, refreshCurveState, TokenOK, TokenFields
<1>7. TokenOK(k)
  BY <1>1, <1>3, <1>5 DEF TokenOK
<1>8. TokenShows(k, w)
  BY <1>1, <1>3, <1>6 DEF TokenShows
<1>9. CurveShows(k, d)
  BY <1>1, <1>3, <1>5 DEF CurveShows
<1>10. FactoryOK(f)
  <2>1. FactoryOK(s.factory)
    BY <1>4 DEF StoreOK
  <2> QED BY <1>1, <1>2, <2>1 DEF CountBuy, FactoryOK, FactoryFields
<1>11. PICK s1, s2, s3 : /\ s1 = SaveToken(recordTrade(s, e, "BUY"), e.token, k)
                         /\ s2 = [s1 EXCEPT !.factory = f]
                         /\ s3 = applyCurvePositionDelta(s2, e, TRUE)
  OBVIOUS
<1>12. s1.factory = s.factory
  <2>1. PICK s0 : s0 = recordTrade(s, e, "BUY")
    OBVIOUS
  <2>2. DOMAIN s0 = StoreFields /\ s0.factory = s.factory
    BY <1>4, <2>1 DEF recordTrade, StoreOK, StoreFields
  <2>3. TokenSaved(s0, s1, e.token, k)
    BY <1>11, <2>1, <2>2, SaveTokenIs
  <2> QED BY <2>2, <2>3 DEF TokenSaved
<1>13. s3 = handleBought(s, e)
  BY <1>2, <1>3, <1>11, <1>12 DEF handleBought
<1>14. TradeSaved(s, s3, e, k, f, TRUE)
  BY <1>4, <1>11, TradeIsSaved DEF StoreOK
<1>15. Handled(s, s3, e.token, w, d)
  BY <1>1, <1>7, <1>8, <1>9, <1>10, <1>14, TradeHandled
<1>16. TradeCounted(s, e, k, f, TRUE)
  <2>1. /\ f.launchCount = s.factory.launchCount
        /\ f.graduationCount = s.factory.graduationCount
        /\ f.buyCount = s.factory.buyCount + 1 /\ f.sellCount = s.factory.sellCount
        /\ f.tradeCount = s.factory.tradeCount + 1
        /\ f.totalVolumeEth = s.factory.totalVolumeEth + BuyVolume(e)
        /\ s.factory.buyCount \in Nat /\ s.factory.sellCount \in Nat
    BY <1>2, <1>4 DEF CountBuy, StoreOK, FactoryOK, FactoryFields
  <2>2. old.buyCount \in Nat /\ old.sellCount \in Nat /\ old.tokensSold = c.sold
    BY <1>3 DEF TokenOK, CurveShows
  <2> QED BY <1>1, <1>2, <1>5, <2>1, <2>2 DEF TradeCounted
<1> QED BY <1>1, <1>2, <1>3, <1>7, <1>13, <1>14, <1>15, <1>16

LEMMA SoldHandled ==
    ASSUME NEW s, NEW e, NEW v, NEW c, NEW w, NEW d, Due(s, e, v, c, w, d),
           e.kind = "Sold"
    PROVE  /\ Handled(s, handleSold(s, e), e.token, w, d)
           /\ TradeSaved(s, handleSold(s, e), e, TokenAfterSell(s.tokens[e.token], e),
                         CountSell(s.factory, e), FALSE)
           /\ TradeCounted(s, e, TokenAfterSell(s.tokens[e.token], e), CountSell(s.factory, e),
                           FALSE)
           /\ TokenOK(TokenAfterSell(s.tokens[e.token], e))
           /\ Has(s.tokens, e.token) /\ e.trader \in Accounts /\ e.amount \in Nat
<1>1. /\ v.launched /\ w = v /\ e.sold = c.sold - e.amount
      /\ d = [sold |-> e.sold, traded |-> c.traded + SellVolume(e), trades |-> c.trades + 1]
      /\ e.trader \in Accounts /\ e.amount \in Nat /\ SellVolume(e) \in Nat /\ e.sold \in Int
  BY DEF Due, TermsStep, CurveStep, Trades, Events, SellVolume
<1>2. PICK old, k, f : /\ old = s.tokens[e.token] /\ k = TokenAfterSell(old, e)
                       /\ f = CountSell(s.factory, e)
  OBVIOUS
<1>3. /\ Has(s.tokens, e.token) /\ TokenOK(old) /\ TokenShows(old, v) /\ CurveShows(old, c)
  BY <1>1, <1>2, TokenDue
<1>4. StoreOK(s)
  BY DEF Due
<1>5. /\ DOMAIN k = TokenFields /\ k.tokensSold = e.sold /\ k.ethReserve = VIRTUAL_ETH + e.sold
      /\ k.buyCount = old.buyCount /\ k.sellCount = old.sellCount + 1
      /\ k.tradeCount = old.tradeCount + 1 /\ k.volumeEth = old.volumeEth + SellVolume(e)
      /\ k.curvePositionCount = old.curvePositionCount
  BY <1>2, <1>3 DEF TokenAfterSell, refreshCurveState, TokenOK, TokenFields
<1>6. /\ k.devAllocation = old.devAllocation /\ k.devClaimed = old.devClaimed
      /\ k.lockDuration = old.lockDuration /\ k.permanentLock = old.permanentLock
      /\ k.graduated = old.graduated /\ k.graduatedAt = old.graduatedAt
  BY <1>2, <1>3 DEF TokenAfterSell, refreshCurveState, TokenOK, TokenFields
<1>7. TokenOK(k)
  BY <1>1, <1>3, <1>5 DEF TokenOK
<1>8. TokenShows(k, w)
  BY <1>1, <1>3, <1>6 DEF TokenShows
<1>9. CurveShows(k, d)
  BY <1>1, <1>3, <1>5 DEF CurveShows
<1>10. FactoryOK(f)
  <2>1. FactoryOK(s.factory)
    BY <1>4 DEF StoreOK
  <2> QED BY <1>1, <1>2, <2>1 DEF CountSell, FactoryOK, FactoryFields
<1>11. PICK s1, s2, s3 : /\ s1 = SaveToken(recordTrade(s, e, "SELL"), e.token, k)
                         /\ s2 = [s1 EXCEPT !.factory = f]
                         /\ s3 = applyCurvePositionDelta(s2, e, FALSE)
  OBVIOUS
<1>12. s1.factory = s.factory
  <2>1. PICK s0 : s0 = recordTrade(s, e, "SELL")
    OBVIOUS
  <2>2. DOMAIN s0 = StoreFields /\ s0.factory = s.factory
    BY <1>4, <2>1 DEF recordTrade, StoreOK, StoreFields
  <2>3. TokenSaved(s0, s1, e.token, k)
    BY <1>11, <2>1, <2>2, SaveTokenIs
  <2> QED BY <2>2, <2>3 DEF TokenSaved
<1>13. s3 = handleSold(s, e)
  BY <1>2, <1>3, <1>11, <1>12 DEF handleSold
<1>14. TradeSaved(s, s3, e, k, f, FALSE)
  BY <1>4, <1>11, TradeIsSaved DEF StoreOK
<1>15. Handled(s, s3, e.token, w, d)
  BY <1>1, <1>7, <1>8, <1>9, <1>10, <1>14, TradeHandled
<1>16. TradeCounted(s, e, k, f, FALSE)
  <2>1. /\ f.launchCount = s.factory.launchCount
        /\ f.graduationCount = s.factory.graduationCount
        /\ f.buyCount = s.factory.buyCount /\ f.sellCount = s.factory.sellCount + 1
        /\ f.tradeCount = s.factory.tradeCount + 1
        /\ f.totalVolumeEth = s.factory.totalVolumeEth + SellVolume(e)
        /\ s.factory.buyCount \in Nat /\ s.factory.sellCount \in Nat
    BY <1>2, <1>4 DEF CountSell, StoreOK, FactoryOK, FactoryFields
  <2>2. old.buyCount \in Nat /\ old.sellCount \in Nat /\ old.tokensSold = c.sold
    BY <1>3 DEF TokenOK, CurveShows
  <2> QED BY <1>1, <1>2, <1>5, <2>1, <2>2 DEF TradeCounted
<1> QED BY <1>1, <1>2, <1>3, <1>7, <1>13, <1>14, <1>15, <1>16

-----------------------------------------------------------------------------
(* The sums.                                                                *)

AddsUp(s) ==
    /\ s.factory.launchCount = Cardinality(DOMAIN s.tokens)
    /\ s.factory.graduationCount = Cardinality(DOMAIN s.graduations)
    /\ s.factory.tradeCount = Cardinality(DOMAIN s.trades)
    /\ s.factory.buyCount = Total(s, Buys)
    /\ s.factory.sellCount = Total(s, Sells)
    /\ s.factory.totalVolumeEth = Total(s, Volume)

Covered(s, t) ==
    /\ s.tokens[t].curvePositionCount = Cardinality({a \in Accounts : BalanceOf(s, t)[a] > 0})
    /\ s.tokens[t].tokensSold <= SumFunctionOnSet(BalanceOf(s, t), Accounts)

Balanced(s) == AddsUp(s) /\ \A t \in DOMAIN s.tokens : Covered(s, t)

BuysOf(s) == [t \in Tokens |-> IF Has(s.tokens, t) THEN s.tokens[t].buyCount ELSE 0]
SellsOf(s) == [t \in Tokens |-> IF Has(s.tokens, t) THEN s.tokens[t].sellCount ELSE 0]
VolumesOf(s) == [t \in Tokens |-> IF Has(s.tokens, t) THEN s.tokens[t].volumeEth ELSE 0]

LEMMA TotalsAre ==
    ASSUME NEW s
    PROVE  /\ Total(s, Buys) = SumFunctionOnSet(BuysOf(s), Tokens)
           /\ Total(s, Sells) = SumFunctionOnSet(SellsOf(s), Tokens)
           /\ Total(s, Volume) = SumFunctionOnSet(VolumesOf(s), Tokens)
  BY DEF Total, Buys, Sells, Volume, BuysOf, SellsOf, VolumesOf

SameTotals(s, s2) ==
    BuysOf(s2) = BuysOf(s) /\ SellsOf(s2) = SellsOf(s) /\ VolumesOf(s2) = VolumesOf(s)

LEMMA CountsSameBalanced ==
    ASSUME NEW s, NEW s2, CountsSame(s, s2), Balanced(s)
    PROVE  Balanced(s2)
<1>1. SameTotals(s, s2)
  BY DEF CountsSame, SameCounts, SameTotals, BuysOf, SellsOf, VolumesOf, Has
<1>2. /\ Total(s2, Buys) = Total(s, Buys) /\ Total(s2, Sells) = Total(s, Sells)
      /\ Total(s2, Volume) = Total(s, Volume)
  BY <1>1, TotalsAre DEF SameTotals
<1>3. AddsUp(s2)
  BY <1>2 DEF Balanced, AddsUp, CountsSame
<1>4. ASSUME NEW t \in DOMAIN s2.tokens PROVE Covered(s2, t)
  <2>1. BalanceOf(s2, t) = BalanceOf(s, t)
    BY DEF BalanceOf, CountsSame
  <2>2. t \in DOMAIN s.tokens /\ SameCounts(s2.tokens[t], s.tokens[t])
    BY DEF CountsSame
  <2>3. Covered(s, t)
    BY <2>2 DEF Balanced
  <2> QED BY <2>1, <2>2, <2>3 DEF Covered, SameCounts
<1> QED BY <1>3, <1>4 DEF Balanced

LEMMA LaunchBalanced ==
    ASSUME NEW s, NEW s2, NEW t \in Tokens, StoreOK(s), LaunchCounted(s, s2, t), Balanced(s)
    PROVE  Balanced(s2)
<1>1. SameTotals(s, s2)
  <2>1. ASSUME NEW u \in Tokens
        PROVE  BuysOf(s2)[u] = BuysOf(s)[u] /\ SellsOf(s2)[u] = SellsOf(s)[u]
               /\ VolumesOf(s2)[u] = VolumesOf(s)[u]
    <3>1. CASE u = t
      BY <3>1 DEF LaunchCounted, BuysOf, SellsOf, VolumesOf, Has
    <3>2. CASE u # t
      BY <3>2 DEF LaunchCounted, BuysOf, SellsOf, VolumesOf, Has
    <3> QED BY <3>1, <3>2
  <2> QED BY <2>1 DEF SameTotals, BuysOf, SellsOf, VolumesOf
<1>2. /\ Total(s2, Buys) = Total(s, Buys) /\ Total(s2, Sells) = Total(s, Sells)
      /\ Total(s2, Volume) = Total(s, Volume)
  BY <1>1, TotalsAre DEF SameTotals
<1>3. Cardinality(DOMAIN s2.tokens) = Cardinality(DOMAIN s.tokens) + 1
  <2>1. PICK S : S = DOMAIN s.tokens
    OBVIOUS
  <2>2. IsFiniteSet(S)
    BY <2>1, FS_Subset, Sizes DEF StoreOK
  <2>3. Cardinality(S \cup {t}) = Cardinality(S) + 1
    BY <2>1, <2>2, FS_AddElement DEF LaunchCounted
  <2> QED BY <2>1, <2>3 DEF LaunchCounted
<1>4. AddsUp(s2)
  <2>1. DOMAIN s.factory = FactoryFields
    BY DEF StoreOK, FactoryOK
  <2>2. /\ s2.factory.launchCount = s.factory.launchCount + 1
        /\ s2.factory.graduationCount = s.factory.graduationCount
        /\ s2.factory.tradeCount = s.factory.tradeCount /\ s2.factory.buyCount = s.factory.buyCount
        /\ s2.factory.sellCount = s.factory.sellCount
        /\ s2.factory.totalVolumeEth = s.factory.totalVolumeEth
    BY <2>1 DEF LaunchCounted, FactoryFields
  <2> QED BY <1>2, <1>3, <2>2 DEF Balanced, AddsUp, LaunchCounted
<1>5. ASSUME NEW u \in DOMAIN s2.tokens, u # t PROVE Covered(s2, u)
  <2>1. BalanceOf(s2, u) = BalanceOf(s, u)
    BY DEF BalanceOf, LaunchCounted
  <2>2. u \in DOMAIN s.tokens /\ s2.tokens[u] = s.tokens[u]
    BY <1>5 DEF LaunchCounted
  <2>3. Covered(s, u)
    BY <2>2 DEF Balanced
  <2> QED BY <2>1, <2>2, <2>3 DEF Covered
<1>6. Covered(s2, t)
  <2>1. ASSUME NEW a \in Accounts PROVE BalanceOf(s2, t)[a] = 0
    <3>1. PICK id : id = <<t, a>>
      OBVIOUS
    <3>2. id \notin DOMAIN s.positions
      <4>1. \A x \in DOMAIN s.positions : x \in (DOMAIN s.tokens) \X Accounts
        BY DEF StoreOK
      <4>2. t \notin DOMAIN s.tokens
        BY DEF LaunchCounted
      <4> QED BY <3>1, <4>1, <4>2
    <3> QED BY <3>1, <3>2 DEF BalanceOf, LaunchCounted, Has
  <2>2. SumFunctionOnSet(BalanceOf(s2, t), Accounts) = 0
    BY <2>1, SumOfZeros, Sizes
  <2>3. {a \in Accounts : BalanceOf(s2, t)[a] > 0} = {}
    BY <2>1
  <2>4. Cardinality({a \in Accounts : BalanceOf(s2, t)[a] > 0}) = 0
    BY <2>3, FS_EmptySet
  <2> QED BY <2>2, <2>4 DEF Covered, LaunchCounted
<1> QED BY <1>4, <1>5, <1>6 DEF Balanced

LEMMA GraduationBalanced ==
    ASSUME NEW s, NEW s2, NEW t \in Tokens, NEW raised, StoreOK(s),
           GraduationCounted(s, s2, t, raised), Balanced(s)
    PROVE  Balanced(s2)
<1>1. SameTotals(s, s2)
  BY DEF GraduationCounted, SameCounts, SameTotals, BuysOf, SellsOf, VolumesOf, Has
<1>2. /\ Total(s2, Buys) = Total(s, Buys) /\ Total(s2, Sells) = Total(s, Sells)
      /\ Total(s2, Volume) = Total(s, Volume)
  BY <1>1, TotalsAre DEF SameTotals
<1>3. Cardinality(DOMAIN s2.graduations) = Cardinality(DOMAIN s.graduations) + 1
  <2>1. PICK S : S = DOMAIN s.graduations
    OBVIOUS
  <2>2. IsFiniteSet(S)
    BY <2>1, FS_Subset, Sizes DEF StoreOK
  <2>3. Cardinality(S \cup {t}) = Cardinality(S) + 1
    BY <2>1, <2>2, FS_AddElement DEF GraduationCounted
  <2> QED BY <2>1, <2>3 DEF GraduationCounted
<1>4. AddsUp(s2)
  <2>1. DOMAIN s.factory = FactoryFields
    BY DEF StoreOK, FactoryOK
  <2>2. /\ s2.factory.launchCount = s.factory.launchCount
        /\ s2.factory.graduationCount = s.factory.graduationCount + 1
        /\ s2.factory.tradeCount = s.factory.tradeCount /\ s2.factory.buyCount = s.factory.buyCount
        /\ s2.factory.sellCount = s.factory.sellCount
        /\ s2.factory.totalVolumeEth = s.factory.totalVolumeEth
    BY <2>1 DEF GraduationCounted, FactoryFields
  <2> QED BY <1>2, <1>3, <2>2 DEF Balanced, AddsUp, GraduationCounted
<1>5. ASSUME NEW u \in DOMAIN s2.tokens PROVE Covered(s2, u)
  <2>1. BalanceOf(s2, u) = BalanceOf(s, u)
    BY DEF BalanceOf, GraduationCounted
  <2>2. u \in DOMAIN s.tokens /\ SameCounts(s2.tokens[u], s.tokens[u])
    BY DEF GraduationCounted
  <2>3. Covered(s, u)
    BY <2>2 DEF Balanced
  <2> QED BY <2>1, <2>2, <2>3 DEF Covered, SameCounts
<1> QED BY <1>4, <1>5 DEF Balanced

\* One account's balance changes.
LEMMA HoldersAfter ==
    ASSUME NEW f \in [Accounts -> Nat], NEW g \in [Accounts -> Nat], NEW a \in Accounts,
           \A x \in Accounts : x # a => g[x] = f[x]
    PROVE  Cardinality({x \in Accounts : g[x] > 0})
             = Cardinality({x \in Accounts : f[x] > 0})
               + (IF f[a] = 0 /\ g[a] > 0 THEN 1 ELSE IF f[a] > 0 /\ g[a] = 0 THEN -1 ELSE 0)
<1>1. PICK S, T : S = {x \in Accounts : f[x] > 0} /\ T = {x \in Accounts : g[x] > 0}
  OBVIOUS
<1>2. IsFiniteSet(S) /\ IsFiniteSet(T)
  BY <1>1, FS_Subset, Sizes
<1>3. Cardinality(S) \in Nat /\ Cardinality(T) \in Nat
  BY <1>2, FS_CardinalityType
<1>4. CASE f[a] = 0 /\ g[a] > 0
  <2>1. a \notin S /\ T = S \cup {a}
    BY <1>1, <1>4
  <2>2. Cardinality(T) = Cardinality(S) + 1
    BY <1>2, <2>1, FS_AddElement
  <2> QED BY <1>1, <1>4, <2>2
<1>5. CASE f[a] > 0 /\ g[a] = 0
  <2>1. a \notin T /\ S = T \cup {a}
    BY <1>1, <1>5
  <2>2. Cardinality(S) = Cardinality(T) + 1
    BY <1>2, <2>1, FS_AddElement
  <2> QED BY <1>1, <1>3, <1>5, <2>2
<1>6. CASE f[a] = 0 <=> g[a] = 0
  <2>1. S = T
    BY <1>1, <1>6
  <2> QED BY <1>1, <1>3, <1>6, <2>1
<1> QED BY <1>4, <1>5, <1>6

LEMMA TradeBalanced ==
    ASSUME NEW s, NEW s2, NEW e, NEW k, NEW f, NEW isBuy \in BOOLEAN, StoreOK(s),
           TradeSaved(s, s2, e, k, f, isBuy), TradeCounted(s, e, k, f, isBuy),
           TokenOK(k), Has(s.tokens, e.token), e.trader \in Accounts, e.amount \in Nat,
           <<now, logIndex>> \notin DOMAIN s.trades, Balanced(s)
    PROVE  Balanced(s2)
<1>1. PICK t \in Tokens : t = e.token
  BY DEF StoreOK, Has
<1>2. PICK a \in Accounts : a = e.trader
  OBVIOUS
<1>3. PICK old, before, after, id, buys, volume :
        /\ old = s.tokens[t] /\ before = PositionOf(s, e)
        /\ after = PositionAfter(before, e, isBuy)
        /\ id = <<t, a>> /\ buys = (IF isBuy THEN 1 ELSE 0)
        /\ volume = (IF isBuy THEN BuyVolume(e) ELSE SellVolume(e))
  OBVIOUS
<1>4. /\ TokenOK(old) /\ PositionOK(before) /\ PositionOK(after) /\ t \in DOMAIN s.tokens
      /\ after.balance = (IF isBuy THEN before.balance + e.amount
                          ELSE LessOrZero(before.balance, e.amount))
      /\ before.balance = (IF Has(s.positions, id) THEN s.positions[id].balance ELSE 0)
  <2>1. TokenOK(old) /\ t \in DOMAIN s.tokens
    BY <1>1, <1>3 DEF StoreOK, Has
  <2> QED BY <1>1, <1>2, <1>3, <2>1, PositionChange
<1>5. /\ volume \in Nat /\ buys \in Nat /\ 1 - buys \in Nat
      /\ k.buyCount = old.buyCount + buys /\ k.sellCount = old.sellCount + (1 - buys)
      /\ k.volumeEth = old.volumeEth + volume
      /\ k.curvePositionCount = old.curvePositionCount
      /\ k.tokensSold = (IF isBuy THEN old.tokensSold + e.amount ELSE old.tokensSold - e.amount)
      /\ f.buyCount = s.factory.buyCount + buys
      /\ f.sellCount = s.factory.sellCount + (1 - buys)
      /\ f.tradeCount = s.factory.tradeCount + 1
      /\ f.totalVolumeEth = s.factory.totalVolumeEth + volume
      /\ f.launchCount = s.factory.launchCount /\ f.graduationCount = s.factory.graduationCount
  BY <1>1, <1>3 DEF TradeCounted
<1>6. PICK count, token : /\ count = CountAfter(k.curvePositionCount, before, after)
                          /\ token = [k EXCEPT !.curvePositionCount = count]
  OBVIOUS
<1>7. /\ DOMAIN s2 = StoreFields /\ s2.factory = f
      /\ DOMAIN s2.trades = DOMAIN s.trades \cup {<<now, logIndex>>}
      /\ s2.graduations = s.graduations
      /\ DOMAIN s2.tokens = DOMAIN s.tokens /\ s2.tokens[t] = token
      /\ \A x \in DOMAIN s.tokens : x # t => s2.tokens[x] = s.tokens[x]
      /\ DOMAIN s2.positions = DOMAIN s.positions \cup {id} /\ s2.positions[id] = after
      /\ \A x \in DOMAIN s.positions : x # id => s2.positions[x] = s.positions[x]
  BY <1>1, <1>2, <1>3, <1>4, <1>6 DEF TradeSaved
<1>8. /\ token.buyCount = k.buyCount /\ token.sellCount = k.sellCount
      /\ token.volumeEth = k.volumeEth /\ token.tokensSold = k.tokensSold
      /\ token.curvePositionCount = count
  BY <1>6 DEF TokenOK, TokenFields
<1>9. /\ old.buyCount \in Nat /\ old.sellCount \in Nat /\ old.volumeEth \in Nat
      /\ old.tokensSold \in Int
  BY <1>4 DEF TokenOK
<1>10. /\ BuysOf(s) \in [Tokens -> Nat] /\ SellsOf(s) \in [Tokens -> Nat]
       /\ VolumesOf(s) \in [Tokens -> Nat]
  BY DEF StoreOK, TokenOK, BuysOf, SellsOf, VolumesOf, Has
<1>11. Total(s2, Buys) = Total(s, Buys) + buys
  <2>1. PICK n : n = old.buyCount + buys
    OBVIOUS
  <2>2. SetTo(BuysOf(s2), BuysOf(s), Tokens, Tokens, t, n) /\ BuysOf(s)[t] = old.buyCount
    BY <1>3, <1>4, <1>5, <1>7, <1>8, <1>9, <1>10, <2>1 DEF SetTo, BuysOf, Has
  <2>3. /\ SumFunctionOnSet(BuysOf(s), Tokens) \in Nat
        /\ SumFunctionOnSet(BuysOf(s2), Tokens)
             = SumFunctionOnSet(BuysOf(s), Tokens) - BuysOf(s)[t] + n
    BY <2>2, SumAfterUpdate, Sizes
  <2> QED BY <1>5, <1>9, <2>1, <2>2, <2>3, TotalsAre
<1>12. Total(s2, Sells) = Total(s, Sells) + (1 - buys)
  <2>1. PICK n : n = old.sellCount + (1 - buys)
    OBVIOUS
  <2>2. SetTo(SellsOf(s2), SellsOf(s), Tokens, Tokens, t, n) /\ SellsOf(s)[t] = old.sellCount
    BY <1>3, <1>4, <1>5, <1>7, <1>8, <1>9, <1>10, <2>1 DEF SetTo, SellsOf, Has
  <2>3. /\ SumFunctionOnSet(SellsOf(s), Tokens) \in Nat
        /\ SumFunctionOnSet(SellsOf(s2), Tokens)
             = SumFunctionOnSet(SellsOf(s), Tokens) - SellsOf(s)[t] + n
    BY <2>2, SumAfterUpdate, Sizes
  <2> QED BY <1>5, <1>9, <2>1, <2>2, <2>3, TotalsAre
<1>13. Total(s2, Volume) = Total(s, Volume) + volume
  <2>1. PICK n : n = old.volumeEth + volume
    OBVIOUS
  <2>2. SetTo(VolumesOf(s2), VolumesOf(s), Tokens, Tokens, t, n) /\ VolumesOf(s)[t] = old.volumeEth
    BY <1>3, <1>4, <1>5, <1>7, <1>8, <1>9, <1>10, <2>1 DEF SetTo, VolumesOf, Has
  <2>3. /\ SumFunctionOnSet(VolumesOf(s), Tokens) \in Nat
        /\ SumFunctionOnSet(VolumesOf(s2), Tokens)
             = SumFunctionOnSet(VolumesOf(s), Tokens) - VolumesOf(s)[t] + n
    BY <2>2, SumAfterUpdate, Sizes
  <2> QED BY <1>5, <1>9, <2>1, <2>2, <2>3, TotalsAre
<1>14. Cardinality(DOMAIN s2.trades) = Cardinality(DOMAIN s.trades) + 1
  <2>1. PICK S, x : S = DOMAIN s.trades /\ x = <<now, logIndex>>
    OBVIOUS
  <2>2. IsFiniteSet(S) /\ x \notin S
    BY <2>1 DEF StoreOK
  <2>3. Cardinality(S \cup {x}) = Cardinality(S) + 1
    BY <2>2, FS_AddElement
  <2> QED BY <1>7, <2>1, <2>3
<1>15. AddsUp(s2)
  BY <1>5, <1>7, <1>11, <1>12, <1>13, <1>14 DEF Balanced, AddsUp
<1>16. ASSUME NEW u \in DOMAIN s2.tokens, u # t PROVE Covered(s2, u)
  <2>1. ASSUME NEW x \in Accounts PROVE BalanceOf(s2, u)[x] = BalanceOf(s, u)[x]
    <3>1. PICK other : other = <<u, x>>
      OBVIOUS
    <3>2. other # id
      BY <1>3, <1>16, <3>1
    <3> QED BY <1>7, <3>1, <3>2 DEF BalanceOf, Has
  <2>2. BalanceOf(s2, u) = BalanceOf(s, u)
    BY <2>1 DEF BalanceOf
  <2>3. u \in DOMAIN s.tokens /\ s2.tokens[u] = s.tokens[u]
    BY <1>7, <1>16
  <2>4. Covered(s, u)
    BY <2>3 DEF Balanced
  <2> QED BY <2>2, <2>3, <2>4 DEF Covered
<1>17. Covered(s2, t)
  <2>1. PICK g, h : g = BalanceOf(s, t) /\ h = BalanceOf(s2, t)
    OBVIOUS
  <2>2. before.balance \in Nat /\ after.balance \in Nat
    BY <1>4 DEF PositionOK
  <2>3. g \in [Accounts -> Nat]
    <3>1. \A x \in DOMAIN s.positions : s.positions[x].balance \in Nat
      BY DEF StoreOK, PositionOK
    <3> QED BY <2>1, <3>1 DEF BalanceOf, Has
  <2>4. g[a] = before.balance /\ h[a] = after.balance
    BY <1>3, <1>4, <1>7, <2>1 DEF BalanceOf, Has
  <2>5. ASSUME NEW x \in Accounts, x # a PROVE h[x] = g[x]
    <3>1. PICK other : other = <<t, x>>
      OBVIOUS
    <3>2. other # id
      BY <1>3, <2>5, <3>1
    <3> QED BY <1>7, <2>1, <3>1, <3>2 DEF BalanceOf, Has
  <2>6. h \in [Accounts -> Nat]
    <3>1. \A x \in Accounts : h[x] \in Nat
      BY <2>2, <2>3, <2>4, <2>5
    <3> QED BY <2>1, <3>1 DEF BalanceOf
  <2>7. /\ SumFunctionOnSet(g, Accounts) \in Nat
        /\ SumFunctionOnSet(h, Accounts) = SumFunctionOnSet(g, Accounts) - g[a] + after.balance
    <3>1. SetTo(h, g, Accounts, Accounts, a, after.balance)
      BY <2>2, <2>3, <2>4, <2>5 DEF SetTo
    <3> QED BY <3>1, SumAfterUpdate, Sizes
  <2>8. /\ old.curvePositionCount = Cardinality({x \in Accounts : g[x] > 0})
        /\ old.tokensSold <= SumFunctionOnSet(g, Accounts)
    BY <1>3, <1>4, <2>1 DEF Balanced, Covered
  <2>9. k.tokensSold <= SumFunctionOnSet(h, Accounts)
    BY <1>4, <1>5, <1>9, <2>2, <2>4, <2>7, <2>8 DEF LessOrZero
  <2>10. Cardinality({x \in Accounts : h[x] > 0})
           = Cardinality({x \in Accounts : g[x] > 0})
             + (IF g[a] = 0 /\ h[a] > 0 THEN 1 ELSE IF g[a] > 0 /\ h[a] = 0 THEN -1 ELSE 0)
    BY <2>3, <2>5, <2>6, HoldersAfter
  <2>11. count = Cardinality({x \in Accounts : h[x] > 0})
    <3>1. PICK n : n = Cardinality({x \in Accounts : g[x] > 0})
      OBVIOUS
    <3>2. k.curvePositionCount = n /\ n \in Int
      BY <1>4, <1>5, <2>8, <3>1 DEF TokenOK
    <3> QED BY <1>6, <2>4, <2>10, <3>1, <3>2 DEF CountAfter
  <2> QED BY <1>7, <1>8, <2>1, <2>9, <2>11 DEF Covered
<1> QED BY <1>15, <1>16, <1>17 DEF Balanced

-----------------------------------------------------------------------------
(* What each handler makes of the sums.                                     *)

Accounted(s, s2) ==
    /\ Balanced(s) /\ <<now, logIndex>> \notin DOMAIN s.trades => Balanced(s2)
    /\ DOMAIN s2.trades \subseteq DOMAIN s.trades \cup {<<now, logIndex>>}

Done(s, s2, t, w, d) == Handled(s, s2, t, w, d) /\ Accounted(s, s2)

LEMMA AllHandled ==
    ASSUME NEW s, NEW e, NEW v, NEW c, NEW w, NEW d, Due(s, e, v, c, w, d), now \in Nat
    PROVE  /\ e.kind = "LaunchCreated" => Done(s, handleLaunchCreated(s, e), e.token, w, d)
           /\ e.kind = "LaunchConfig" => Done(s, handleLaunchConfig(s, e), e.token, w, d)
           /\ e.kind = "Bought" => Done(s, handleBought(s, e), e.token, w, d)
           /\ e.kind = "Sold" => Done(s, handleSold(s, e), e.token, w, d)
           /\ e.kind = "Graduation" => Done(s, handleGraduation(s, e), e.token, w, d)
           /\ e.kind = "Graduated" => Done(s, handleGraduated(s, e), e.token, w, d)
           /\ e.kind = "Claimed" => Done(s, handleClaimed(s, e), e.token, w, d)
           /\ e.kind = "LockRegistered" => Done(s, handleLockRegistered(s, e), e.token, w, d)
           /\ e.kind = "LockExtended" => Done(s, handleLockExtended(s, e), e.token, w, d)
           /\ e.kind = "FeesCollected" => Done(s, handleFeesCollected(s, e), e.token, w, d)
           /\ e.kind = "Reclaimed" => Done(s, handleReclaimed(s, e), e.token, w, d)
<1>1. StoreOK(s) /\ e.token \in Tokens
  BY DEF Due, Events
<1>2. ASSUME NEW s2, CountsSame(s, s2) PROVE Accounted(s, s2)
  <2>1. Balanced(s) => Balanced(s2)
    BY <1>2, CountsSameBalanced
  <2> QED BY <1>2, <2>1 DEF Accounted, CountsSame
<1>3. ASSUME NEW s2, LaunchCounted(s, s2, e.token) PROVE Accounted(s, s2)
  <2>1. Balanced(s) => Balanced(s2)
    BY <1>1, <1>3, LaunchBalanced
  <2> QED BY <1>3, <2>1 DEF Accounted, LaunchCounted
<1>4. ASSUME NEW s2, GraduationCounted(s, s2, e.token, e.weth) PROVE Accounted(s, s2)
  <2>1. Balanced(s) => Balanced(s2)
    BY <1>1, <1>4, GraduationBalanced
  <2> QED BY <1>4, <2>1 DEF Accounted, GraduationCounted
<1>5. ASSUME NEW s2, NEW k, NEW f, NEW isBuy \in BOOLEAN, TokenOK(k),
             TradeSaved(s, s2, e, k, f, isBuy), TradeCounted(s, e, k, f, isBuy),
             Has(s.tokens, e.token), e.trader \in Accounts, e.amount \in Nat
      PROVE  Accounted(s, s2)
  <2>1. ASSUME Balanced(s), <<now, logIndex>> \notin DOMAIN s.trades PROVE Balanced(s2)
    BY <1>1, <1>5, <2>1, TradeBalanced
  <2> QED BY <1>5, <2>1 DEF Accounted, TradeSaved
<1>6. e.kind = "LaunchCreated" => Done(s, handleLaunchCreated(s, e), e.token, w, d)
  BY <1>3, LaunchCreatedHandled DEF Done
<1>7. e.kind = "LaunchConfig" => Done(s, handleLaunchConfig(s, e), e.token, w, d)
  BY <1>2, LaunchConfigHandled DEF Done
<1>8. e.kind = "Bought" => Done(s, handleBought(s, e), e.token, w, d)
  BY <1>5, BoughtHandled DEF Done
<1>9. e.kind = "Sold" => Done(s, handleSold(s, e), e.token, w, d)
  BY <1>5, SoldHandled DEF Done
<1>10. e.kind = "Graduation" => Done(s, handleGraduation(s, e), e.token, w, d)
  BY <1>2, GraduationHandled DEF Done
<1>11. e.kind = "Graduated" => Done(s, handleGraduated(s, e), e.token, w, d)
  BY <1>4, GraduatedHandled DEF Done
<1>12. e.kind = "Claimed" => Done(s, handleClaimed(s, e), e.token, w, d)
  BY <1>2, ClaimedHandled DEF Done
<1>13. e.kind = "LockRegistered" => Done(s, handleLockRegistered(s, e), e.token, w, d)
  BY <1>2, LockRegisteredHandled DEF Done
<1>14. e.kind = "LockExtended" => Done(s, handleLockExtended(s, e), e.token, w, d)
  BY <1>2, LockExtendedHandled DEF Done
<1>15. e.kind = "FeesCollected" => Done(s, handleFeesCollected(s, e), e.token, w, d)
  BY <1>2, FeesCollectedHandled DEF Done
<1>16. e.kind = "Reclaimed" => Done(s, handleReclaimed(s, e), e.token, w, d)
  BY <1>2, ReclaimedHandled DEF Done
<1> QED BY <1>6, <1>7, <1>8, <1>9, <1>10, <1>11, <1>12, <1>13, <1>14, <1>15, <1>16

-----------------------------------------------------------------------------
(* The order of delivery.                                                   *)

LEMMA LeastOf ==
    ASSUME NEW S, S \subseteq Nat, S # {}
    PROVE  \E x \in S : \A y \in S : x <= y
<1> DEFINE T == {n \in Nat : \A x \in S : n <= x}
<1>1. SUFFICES ASSUME \A x \in S : \E y \in S : ~(x <= y) PROVE FALSE
  OBVIOUS
<1>2. 0 \in T
  OBVIOUS
<1>3. ASSUME NEW n \in Nat, n \in T PROVE n + 1 \in T
  <2>1. ASSUME n \in S PROVE FALSE
    BY <1>1, <1>3, <2>1
  <2> QED BY <1>3, <2>1
<1>4. \A n \in Nat : n \in T
  BY <1>2, <1>3, NatSetInduction
<1>5. PICK x \in S : x \in Nat
  OBVIOUS
<1>6. x + 1 \in T
  BY <1>4
<1> QED BY <1>5, <1>6

\* What holds at k, and from each step to the next, holds at j.
LEMMA Stretch ==
    ASSUME NEW P, NEW k \in Nat, NEW j \in Nat, k <= j, k \in P,
           \A x \in (k + 1)..j : x - 1 \in P => x \in P
    PROVE  j \in P
<1> DEFINE T == {n \in Nat : k + n <= j => k + n \in P}
<1>1. 0 \in T
  OBVIOUS
<1>2. ASSUME NEW n \in Nat, n \in T PROVE n + 1 \in T
  <2>1. ASSUME k + (n + 1) <= j PROVE k + (n + 1) \in P
    <3>1. k + n \in P
      BY <1>2, <2>1
    <3>2. PICK x : x = k + (n + 1)
      OBVIOUS
    <3>3. x \in (k + 1)..j /\ x - 1 = k + n
      BY <2>1, <3>2
    <3> QED BY <3>1, <3>2, <3>3
  <2> QED BY <2>1
<1>3. \A n \in Nat : n \in T
  BY <1>1, <1>2, NatSetInduction
<1>4. j - k \in Nat /\ k + (j - k) = j
  OBVIOUS
<1> QED BY <1>3, <1>4

\* The events of a launch that change its terms, and those that change its curve.
TermsEvents(events, t) ==
    {i \in 1..Len(events) : events[i].token = t /\ events[i].kind \notin CurveEvents}
TradeEvents(events, t) ==
    {i \in 1..Len(events) : events[i].token = t /\ events[i].kind \in Trades}

\* Of these events, the ones up to k are handled.
Reached(own, left, k) == k \in Nat /\ \A i \in own : i \in left <=> k < i

\* i is the first of these events that is left.
FirstLeft(own, left, i) ==
    i \in left /\ i \in Nat /\ own \subseteq Nat /\ \A j \in left \cap own : j # i => i < j

LEMMA ReachedNext ==
    ASSUME NEW own, NEW left, NEW k, Reached(own, left, k), NEW i, FirstLeft(own, left, i)
    PROVE  /\ i \in own => k < i /\ Reached(own, left \ {i}, i)
           /\ i \notin own => Reached(own, left \ {i}, k)
           /\ \A j \in own : j < i => j <= k
  BY DEF Reached, FirstLeft

NoneBetween(own, k, j) == \A x \in own : ~(k < x /\ x <= j)

LEMMA TermsHold ==
    ASSUME NEW t, NEW b \in Nat, NEW events \in Seq(Events), NEW p, NEW q,
           Traced(p, q, t, b, events),
           NEW k \in 0..Len(events), NEW j \in 0..Len(events), k <= j,
           NoneBetween(TermsEvents(events, t), k, j)
    PROVE  p[j] = p[k]
<1> DEFINE P == {x \in Nat : p[x] = p[k]}
<1>1. ASSUME NEW x \in (k + 1)..j PROVE p[x] = p[x - 1]
  <2>1. x \in 1..Len(events) /\ k < x /\ x <= j
    OBVIOUS
  <2>2. StepOf(t, b, events[x], p[x - 1], q[x - 1], p[x], q[x])
    BY <2>1 DEF Traced
  <2>3. CASE events[x].token = t
    <3>1. events[x].kind \in CurveEvents
      BY <2>1, <2>3 DEF TermsEvents, NoneBetween
    <3>2. TermsStep(events[x], b, p[x - 1], p[x])
      BY <2>2, <2>3 DEF StepOf
    <3> QED BY <3>1, <3>2 DEF TermsStep, CurveEvents, Trades
  <2>4. CASE events[x].token # t
    BY <2>2, <2>4 DEF StepOf
  <2> QED BY <2>3, <2>4
<1>2. j \in P
  <2>1. k \in P /\ \A x \in (k + 1)..j : x - 1 \in P => x \in P
    BY <1>1
  <2> HIDE DEF P
  <2> QED BY <2>1, Stretch
<1> QED BY <1>2

LEMMA CurveHolds ==
    ASSUME NEW t, NEW b \in Nat, NEW events \in Seq(Events), NEW p, NEW q,
           Traced(p, q, t, b, events),
           NEW k \in 0..Len(events), NEW j \in 0..Len(events), k <= j,
           NoneBetween(TradeEvents(events, t), k, j)
    PROVE  q[j] = q[k]
<1> DEFINE P == {x \in Nat : q[x] = q[k]}
<1>1. ASSUME NEW x \in (k + 1)..j PROVE q[x] = q[x - 1]
  <2>1. x \in 1..Len(events) /\ k < x /\ x <= j
    OBVIOUS
  <2>2. StepOf(t, b, events[x], p[x - 1], q[x - 1], p[x], q[x])
    BY <2>1 DEF Traced
  <2>3. CASE events[x].token = t
    <3>1. events[x].kind \notin Trades
      BY <2>1, <2>3 DEF TradeEvents, NoneBetween
    <3>2. CurveStep(events[x], q[x - 1], q[x])
      BY <2>2, <2>3 DEF StepOf
    <3> QED BY <3>1, <3>2 DEF CurveStep, Trades
  <2>4. CASE events[x].token # t
    BY <2>2, <2>4 DEF StepOf
  <2> QED BY <2>3, <2>4
<1>2. j \in P
  <2>1. k \in P /\ \A x \in (k + 1)..j : x - 1 \in P => x \in P
    BY <1>1
  <2> HIDE DEF P
  <2> QED BY <2>1, Stretch
<1> QED BY <1>2

\* A launch stays launched and graduated.
Further(v, w) ==
    /\ v.launched => w.launched
    /\ v.graduatedAt # 0 => w.graduatedAt # 0

LEMMA TermsFurther ==
    ASSUME NEW t, NEW b \in Nat, NEW events \in Seq(Events), NEW p, NEW q,
           Traced(p, q, t, b, events),
           NEW k \in 0..Len(events), NEW j \in 0..Len(events), k <= j
    PROVE  Further(p[k], p[j])
<1> DEFINE P == {x \in Nat : Further(p[k], p[x])}
<1>1. ASSUME NEW x \in (k + 1)..j, Further(p[k], p[x - 1]) PROVE Further(p[k], p[x])
  <2>1. x \in 1..Len(events) /\ (x - 1 = 0 \/ x - 1 \in 1..Len(events))
    OBVIOUS
  <2>2. /\ StepOf(t, b, events[x], p[x - 1], q[x - 1], p[x], q[x]) /\ events[x] \in Events
        /\ p[x - 1] \in Terms
    BY <2>1 DEF Traced
  <2>3. CASE events[x].token = t
    <3>1. TermsStep(events[x], b, p[x - 1], p[x])
      BY <2>2, <2>3 DEF StepOf
    <3>2. Further(p[x - 1], p[x])
      BY <2>2, <3>1, TermsStepTyped DEF Further
    <3> QED BY <1>1, <3>2 DEF Further
  <2>4. CASE events[x].token # t
    BY <1>1, <2>2, <2>4 DEF StepOf
  <2> QED BY <2>3, <2>4
<1>2. k \in P
  BY DEF Further
<1>3. j \in P
  <2>1. \A x \in (k + 1)..j : x - 1 \in P => x \in P
    BY <1>1
  <2> HIDE DEF P
  <2> QED BY <1>2, <2>1, Stretch
<1> QED BY <1>3

-----------------------------------------------------------------------------
(* The block being handled.                                                 *)

\* Of each launch, the work holds what p and q are after the events handled.
WorkServes(t, p, q) ==
    /\ Traced(p, q, t, now, work.events)
    /\ \E k, m \in 0..Len(work.events) :
         /\ Reached(TermsEvents(work.events, t), work.left, k)
         /\ Reached(TradeEvents(work.events, t), work.left, m)
         /\ Serves(work.store, t, p[k], q[m])

\* No transaction of the block being built is in this one.
Past(id) == id \in Nat /\ id <= txs /\ (open.size > 0 => id < txs)

WorkFields == {"busy", "id", "store", "events", "left"}
WorkTyped ==
    /\ DOMAIN work = WorkFields
    /\ work.events \in Seq(Events) /\ work.left \subseteq 1..Len(work.events)
    /\ StoreOK(work.store)

WorkLeads ==
    /\ Past(work.id)
    /\ \A i \in 1..Len(chain) : chain[i].id = work.id => i = now + 1
    /\ \A t \in Tokens : \E p, q :
         /\ WorkServes(t, p, q)
         /\ \A i \in 1..Len(chain) : chain[i].id = work.id =>
               /\ p[Len(work.events)] = TermsOf(chain[i].ledger[t])
               /\ q[Len(work.events)] = CurveOf(chain[i].ledger[t])

\* A store's trades are of earlier blocks, or of this one's events that are not left.
TradesOf(s, left) ==
    \A id \in DOMAIN s.trades :
        id \in Nat \X Nat /\ id[1] <= now /\ (id[1] = now => id[2] \notin left)

WorkBalances == Balanced(work.store) /\ TradesOf(work.store, work.left)

WorkInv == work.busy => WorkTyped /\ WorkLeads /\ WorkBalances

LEMMA FirstIs ==
    ASSUME WorkTyped, work.left # {}
    PROVE  logIndex \in work.left /\ \A j \in work.left : j # logIndex => Before(logIndex, j)
<1>1. work.left \subseteq Nat
  BY DEF WorkTyped
<1> DEFINE early == {i \in work.left : ~Late(work.events[i])}
<1>2. \E i \in work.left : \A j \in work.left \ {i} : Before(i, j)
  <2>1. CASE early # {}
    <3>1. PICK i \in early : \A j \in early : i <= j
      BY <1>1, <2>1, LeastOf
    <3>2. ASSUME NEW j \in work.left, j # i PROVE Before(i, j)
      <4>1. i \in Nat /\ j \in Nat /\ ~Late(work.events[i])
        BY <1>1
      <4>2. CASE Late(work.events[j])
        BY <4>1, <4>2 DEF Before
      <4>3. CASE ~Late(work.events[j])
        <5>1. i <= j
          BY <3>1, <4>3
        <5> QED BY <3>2, <4>1, <4>3, <5>1 DEF Before, Late
      <4> QED BY <4>2, <4>3
    <3> QED BY <3>1, <3>2
  <2>2. CASE early = {}
    <3>1. PICK i \in work.left : \A j \in work.left : i <= j
      BY <1>1, LeastOf
    <3>2. ASSUME NEW j \in work.left, j # i PROVE Before(i, j)
      BY <1>1, <2>2, <3>1, <3>2 DEF Before
    <3> QED BY <3>1, <3>2
  <2> QED BY <2>1, <2>2
<1> QED BY <1>2 DEF logIndex

\* An event of t is due, and leads to what p and q are once it is handled.
DueNext(t, p, q) ==
    \E v, c, w, d :
      /\ Due(work.store, work.events[logIndex], v, c, w, d)
      /\ \E k, m \in 0..Len(work.events) :
           /\ Reached(TermsEvents(work.events, t), work.left \ {logIndex}, k)
           /\ Reached(TradeEvents(work.events, t), work.left \ {logIndex}, m)
           /\ w = p[k] /\ d = q[m]

LEMMA DueNow ==
    ASSUME WorkTyped, work.left # {}, now \in Nat,
           NEW t \in Tokens, NEW p, NEW q, WorkServes(t, p, q),
           work.events[logIndex].token = t
    PROVE  DueNext(t, p, q)
<1> DEFINE N == Len(work.events)
           terms == TermsEvents(work.events, t)
           trades == TradeEvents(work.events, t)
           i == logIndex
           e == work.events[i]
<1>1. /\ N \in Nat /\ i \in work.left /\ i \in 1..N /\ e \in Events
      /\ \A j \in work.left : j # i => Before(i, j)
  <2>1. work.events[i] \in Events
    BY FirstIs DEF WorkTyped
  <2> QED BY <2>1, FirstIs DEF WorkTyped
<1>2. PICK k, m \in 0..N : /\ Reached(terms, work.left, k) /\ Reached(trades, work.left, m)
                           /\ Serves(work.store, t, p[k], q[m])
  BY DEF WorkServes
<1>3. terms \subseteq 1..N /\ trades \subseteq 1..N
  BY DEF TermsEvents, TradeEvents
<1> HIDE DEF terms, trades, i, e, N
<1>4. /\ p[k] \in Terms /\ q[m] \in Curves
      /\ StepOf(t, now, e, p[i - 1], q[i - 1], p[i], q[i])
  <2>1. \A j \in 0..N : j = 0 \/ j \in 1..N
    BY <1>1
  <2> QED BY <1>1, <1>2, <2>1 DEF WorkServes, Traced, N, e
<1>5. TermsStep(e, now, p[i - 1], p[i]) /\ CurveStep(e, q[i - 1], q[i])
  BY <1>4 DEF StepOf, e, i
<1>6. FirstLeft(terms, work.left, i)
  <2>1. ASSUME NEW j \in work.left \cap terms, j # i PROVE i < j
    <3>1. Before(i, j) /\ ~Late(work.events[j])
      BY <1>1, <2>1 DEF terms, TermsEvents, Late
    <3> QED BY <3>1 DEF Before
  <2>2. terms \subseteq Nat
    BY <1>1, <1>3
  <2> QED BY <1>1, <2>1, <2>2 DEF FirstLeft
<1>7. /\ \A j \in terms : j < i => j <= k
      /\ i \in terms => k < i /\ Reached(terms, work.left \ {i}, i)
      /\ i \notin terms => Reached(terms, work.left \ {i}, k)
  BY <1>2, <1>6, ReachedNext
<1>8. Traced(p, q, t, now, work.events) /\ work.events \in Seq(Events)
  BY DEF WorkServes, WorkTyped
<1>9. k >= i \/ p[i - 1] = p[k]
  <2>1. ASSUME k < i PROVE p[i - 1] = p[k]
    <3>1. PICK j : j = i - 1
      OBVIOUS
    <3>2. j \in 0..N /\ k \in 0..N /\ k <= j
      BY <1>1, <1>2, <2>1, <3>1
    <3>3. NoneBetween(TermsEvents(work.events, t), k, j)
      BY <1>1, <1>3, <1>7, <3>1 DEF NoneBetween, terms
    <3>4. p[j] = p[k]
      BY <1>8, <3>2, <3>3, TermsHold DEF N
    <3> QED BY <3>1, <3>4
  <2> QED BY <1>1, <1>2, <2>1
<1>10. Further(p[i - 1], p[k])
  <2>1. CASE p[i - 1] = p[k]
    BY <2>1 DEF Further
  <2>2. CASE k >= i
    <3>1. PICK j : j = i - 1
      OBVIOUS
    <3>2. j \in 0..N /\ k \in 0..N /\ j <= k
      BY <1>1, <1>2, <2>2, <3>1
    <3>3. Further(p[j], p[k])
      BY <1>8, <3>2, TermsFurther DEF N
    <3> QED BY <3>1, <3>3
  <2> QED BY <1>9, <2>1, <2>2
<1>11. CASE e.kind \notin CurveEvents
  <2>1. i \in terms /\ i \notin trades
    BY <1>1, <1>11 DEF terms, trades, TermsEvents, TradeEvents, CurveEvents, Trades, N, e, i
  <2>2. p[k] = p[i - 1]
    BY <1>1, <1>2, <1>7, <1>9, <2>1
  <2>3. CurveStep(e, q[m], q[m])
    BY <1>11 DEF CurveStep, CurveEvents, Trades
  <2>4. Due(work.store, e, p[k], q[m], p[i], q[m])
    BY <1>1, <1>2, <1>4, <1>5, <2>2, <2>3 DEF Due, WorkTyped, e, i
  <2>5. Reached(terms, work.left \ {i}, i)
    BY <1>7, <2>1
  <2>6. Reached(trades, work.left \ {i}, m)
    BY <1>2, <2>1 DEF Reached
  <2>7. i \in 0..N
    BY <1>1
  <2> QED BY <1>2, <2>4, <2>5, <2>6, <2>7 DEF terms, trades, N, e, i, DueNext
<1>12. CASE e.kind \in Trades
  <2>1. i \in trades /\ i \notin terms
    BY <1>1, <1>12 DEF terms, trades, TermsEvents, TradeEvents, CurveEvents, Trades, N, e, i
  <2>2. FirstLeft(trades, work.left, i)
    <3>1. ASSUME NEW j \in work.left \cap trades, j # i PROVE i < j
      <4>1. Before(i, j) /\ (Late(work.events[i]) <=> Late(work.events[j]))
        BY <1>1, <1>12, <3>1 DEF trades, TradeEvents, Late, Trades, CurveEvents, e, i
      <4> QED BY <4>1 DEF Before
    <3>2. trades \subseteq Nat
      BY <1>1, <1>3
    <3> QED BY <1>1, <3>1, <3>2 DEF FirstLeft
  <2>3. m < i /\ Reached(trades, work.left \ {i}, i) /\ \A j \in trades : j < i => j <= m
    BY <1>2, <2>1, <2>2, ReachedNext
  <2>4. q[i - 1] = q[m]
    <3>1. PICK j : j = i - 1
      OBVIOUS
    <3>2. j \in 0..N /\ m \in 0..N /\ m <= j
      BY <1>1, <1>2, <2>3, <3>1
    <3>3. NoneBetween(TradeEvents(work.events, t), m, j)
      BY <1>1, <1>3, <2>3, <3>1 DEF NoneBetween, trades
    <3>4. q[j] = q[m]
      BY <1>8, <3>2, <3>3, CurveHolds DEF N
    <3> QED BY <3>1, <3>4
  <2>5. p[k].launched
    <3>1. p[i - 1].launched
      BY <1>5, <1>12 DEF TermsStep, Trades
    <3> QED BY <1>10, <3>1 DEF Further
  <2>6. TermsStep(e, now, p[k], p[k])
    BY <1>12, <2>5 DEF TermsStep
  <2>7. Due(work.store, e, p[k], q[m], p[k], q[i])
    BY <1>1, <1>2, <1>4, <1>5, <2>4, <2>6 DEF Due, WorkTyped, e, i
  <2>8. Reached(terms, work.left \ {i}, k)
    BY <1>7, <2>1
  <2>9. i \in 0..N
    BY <1>1
  <2> QED BY <1>2, <2>3, <2>7, <2>8, <2>9 DEF terms, trades, N, e, i, DueNext
<1>13. CASE e.kind = "Graduation"
  <2>1. i \notin trades /\ i \notin terms
    BY <1>1, <1>13 DEF terms, trades, TermsEvents, TradeEvents, CurveEvents, Trades, N, e, i
  <2>2. p[k].launched /\ p[k].graduatedAt # 0
    <3>1. p[i - 1].launched /\ p[i - 1].graduatedAt # 0
      BY <1>5, <1>13 DEF TermsStep, Trades
    <3> QED BY <1>10, <3>1 DEF Further
  <2>3. TermsStep(e, now, p[k], p[k]) /\ CurveStep(e, q[m], q[m])
    BY <1>13, <2>2 DEF TermsStep, CurveStep, Trades
  <2>4. Due(work.store, e, p[k], q[m], p[k], q[m])
    BY <1>1, <1>2, <1>4, <2>3 DEF Due, WorkTyped, e, i
  <2>5. Reached(terms, work.left \ {i}, k) /\ Reached(trades, work.left \ {i}, m)
    BY <1>2, <2>1 DEF Reached
  <2> QED BY <1>2, <2>4, <2>5 DEF terms, trades, N, e, i, DueNext
<1> QED BY <1>11, <1>12, <1>13 DEF CurveEvents, Trades

\* What graph-node does leaves the chain as it is.
ChainStands == UNCHANGED <<chain, open, txs>>

LEMMA DeliveredKeeps ==
    ASSUME now \in Nat, WorkInv, work.busy, work.left # {}, ChainStands, indexed' = indexed,
           NEW s2, work' = [work EXCEPT !.store = s2, !.left = work.left \ {logIndex}],
           \A v, c, w, d : Due(work.store, work.events[logIndex], v, c, w, d) =>
               Done(work.store, s2, work.events[logIndex].token, w, d)
    PROVE  WorkInv'
<1>1. WorkTyped /\ WorkLeads /\ WorkBalances
  BY DEF WorkInv
<1>2. /\ work'.busy = work.busy /\ work'.id = work.id /\ work'.events = work.events
      /\ work'.store = s2 /\ work'.left = work.left \ {logIndex} /\ DOMAIN work' = WorkFields
  BY <1>1 DEF WorkTyped, WorkFields
<1>3. /\ logIndex \in work.left /\ logIndex \in 1..Len(work.events)
      /\ work.events[logIndex] \in Events
  <2>1. logIndex \in work.left
    BY <1>1, FirstIs
  <2> QED BY <1>1, <2>1 DEF WorkTyped
<1>4. PICK t \in Tokens : t = work.events[logIndex].token
  BY <1>3 DEF Events
<1>5. ASSUME NEW p, NEW q, WorkServes(t, p, q)
      PROVE  /\ StoreOK(s2) /\ WorkServes(t, p, q)' /\ Accounted(work.store, s2)
             /\ \A u \in Tokens : u # t => Untouched(work.store, s2, u)
  <2>1. PICK v, c, w, d :
             /\ Due(work.store, work.events[logIndex], v, c, w, d)
             /\ \E k, m \in 0..Len(work.events) :
                  /\ Reached(TermsEvents(work.events, t), work.left \ {logIndex}, k)
                  /\ Reached(TradeEvents(work.events, t), work.left \ {logIndex}, m)
                  /\ w = p[k] /\ d = q[m]
    <3>1. DueNext(t, p, q)
      BY <1>1, <1>4, <1>5, DueNow
    <3> QED BY <3>1 DEF DueNext
  <2>2. Handled(work.store, s2, t, w, d) /\ Accounted(work.store, s2)
    BY <1>4, <2>1 DEF Done
  <2>3. Traced(p, q, t, now, work.events)
    BY <1>5 DEF WorkServes
  <2>4. now' = now
    BY DEF now
  <2>5. WorkServes(t, p, q)'
    BY <1>2, <2>1, <2>2, <2>3, <2>4 DEF WorkServes, Handled
  <2> QED BY <2>2, <2>5 DEF Handled
<1>6. PICK p, q : WorkServes(t, p, q)
  BY <1>1 DEF WorkLeads
<1>7. /\ StoreOK(s2) /\ Accounted(work.store, s2)
      /\ \A u \in Tokens : u # t => Untouched(work.store, s2, u)
  BY <1>5, <1>6
<1>8. WorkTyped'
  BY <1>1, <1>2, <1>7 DEF WorkTyped
<1>9. ASSUME NEW u \in Tokens, u # t, NEW f, NEW g, WorkServes(u, f, g)
      PROVE  WorkServes(u, f, g)'
  <2>1. PICK k, m \in 0..Len(work.events) :
          /\ Reached(TermsEvents(work.events, u), work.left, k)
          /\ Reached(TradeEvents(work.events, u), work.left, m)
          /\ Serves(work.store, u, f[k], g[m])
    BY <1>9 DEF WorkServes
  <2>2. logIndex \notin TermsEvents(work.events, u) /\ logIndex \notin TradeEvents(work.events, u)
    BY <1>4, <1>9 DEF TermsEvents, TradeEvents
  <2>3. /\ Reached(TermsEvents(work.events, u), work.left \ {logIndex}, k)
        /\ Reached(TradeEvents(work.events, u), work.left \ {logIndex}, m)
    BY <2>1, <2>2 DEF Reached
  <2>4. Untouched(work.store, s2, u)
    BY <1>7, <1>9
  <2>5. Serves(s2, u, f[k], g[m])
    BY <2>1, <2>4, UntouchedServes
  <2>6. now' = now /\ Traced(f, g, u, now, work.events)
    BY <1>9 DEF now, WorkServes
  <2> QED BY <1>2, <2>3, <2>5, <2>6 DEF WorkServes
<1>10. WorkLeads'
  <2>1. Past(work.id)'
    BY <1>1, <1>2 DEF WorkLeads, Past, ChainStands
  <2>2. \A i \in 1..Len(chain') : chain'[i].id = work'.id => i = now' + 1
    BY <1>1, <1>2 DEF WorkLeads, ChainStands, now
  <2>3. ASSUME NEW u \in Tokens
        PROVE  \E f, g :
                 /\ WorkServes(u, f, g)'
                 /\ \A i \in 1..Len(chain') : chain'[i].id = work'.id =>
                       /\ f[Len(work'.events)] = TermsOf(chain'[i].ledger[u])
                       /\ g[Len(work'.events)] = CurveOf(chain'[i].ledger[u])
    <3>1. PICK f, g :
            /\ WorkServes(u, f, g)
            /\ \A i \in 1..Len(chain) : chain[i].id = work.id =>
                  /\ f[Len(work.events)] = TermsOf(chain[i].ledger[u])
                  /\ g[Len(work.events)] = CurveOf(chain[i].ledger[u])
      BY <1>1 DEF WorkLeads
    <3>2. WorkServes(u, f, g)'
      <4>1. CASE u = t
        BY <1>5, <3>1, <4>1
      <4>2. CASE u # t
        BY <1>9, <3>1, <4>2
      <4> QED BY <4>1, <4>2
    <3>3. chain' = chain
      BY DEF ChainStands
    <3> QED BY <1>2, <3>1, <3>2, <3>3
  <2> QED BY <2>1, <2>2, <2>3 DEF WorkLeads
<1>11. WorkBalances'
  <2>1. PICK new : new = <<now, logIndex>>
    OBVIOUS
  <2>2. new \in Nat \X Nat /\ new[1] = now /\ new[2] = logIndex
    BY <1>3, <2>1
  <2>3. new \notin DOMAIN work.store.trades
    BY <1>1, <1>3, <2>2 DEF WorkBalances, TradesOf
  <2>4. Balanced(s2) /\ DOMAIN s2.trades \subseteq DOMAIN work.store.trades \cup {new}
    BY <1>1, <1>7, <2>1, <2>3 DEF Accounted, WorkBalances
  <2>5. ASSUME NEW id \in DOMAIN s2.trades
        PROVE  /\ id \in Nat \X Nat /\ id[1] <= now
               /\ id[1] = now => id[2] \notin work.left \ {logIndex}
    <3>1. CASE id = new
      BY <2>2, <3>1
    <3>2. CASE id # new
      BY <1>1, <2>4, <3>2 DEF WorkBalances, TradesOf
    <3> QED BY <3>1, <3>2
  <2>6. now' = now
    BY DEF now
  <2> QED BY <1>2, <2>4, <2>5, <2>6 DEF WorkBalances, TradesOf
<1> QED BY <1>8, <1>10, <1>11 DEF WorkInv

-----------------------------------------------------------------------------
(* What graph-node has committed.                                           *)

CurrentView(store, ledger) ==
    \A t \in Tokens : Serves(store, t, TermsOf(ledger[t]), CurveOf(ledger[t]))

\* A committed block is behind the chain, and adds up ...
Committed(j) ==
    /\ Past(indexed[j].id) /\ StoreOK(indexed[j].store) /\ Balanced(indexed[j].store)
    /\ \A id \in DOMAIN indexed[j].store.trades : id \in Nat \X Nat /\ id[1] < j

\* ... and if it is on the chain, it is at its own height and holds what the contracts held.
Agrees(j) ==
    \A i \in 1..Len(chain) : chain[i].id = indexed[j].id =>
        i = j /\ CurrentView(indexed[j].store, chain[i].ledger)

IndexedInv ==
    /\ \E S : indexed \in Seq(S)
    /\ Len(indexed) >= 1 /\ indexed[1].id = 0
    /\ \A j \in 1..Len(indexed) : Committed(j) /\ Agrees(j)

IndexerInv == ChainInv /\ IndexedInv /\ WorkInv

\* What the chain does leaves graph-node as it is; every block is one of before, or one
\* that graph-node has not seen.
ChainMoves ==
    /\ UNCHANGED <<indexed, work>>
    /\ \A n : Past(n) => Past(n)'
    /\ \A i \in 1..Len(chain') :
          \/ i \in 1..Len(chain) /\ chain'[i] = chain[i]
          \/ \A n : Past(n) => chain'[i].id # n

LEMMA TxMoves ==
    ASSUME ChainInv, NEW t, NEW entry, NEW events, Tx(t, entry, events)
    PROVE  ChainMoves
<1>1. chain' = chain /\ txs' = txs + 1 /\ UNCHANGED <<indexed, work>>
  BY DEF Tx
<1>2. txs \in Nat
  BY DEF ChainInv, ChainTyped
<1>3. \A n : Past(n) => Past(n)'
  BY <1>1, <1>2 DEF Past
<1> QED BY <1>1, <1>3 DEF ChainMoves

LEMMA SealMoves == ASSUME ChainInv, Seal PROVE ChainMoves
<1> DEFINE N == Len(chain)
           b == [id |-> txs, events |-> open.events, ledger |-> open.ledger]
<1>1. /\ open.size > 0 /\ chain' = Append(chain, b) /\ UNCHANGED <<indexed, work, txs>>
      /\ open' = [open EXCEPT !.events = <<>>, !.size = 0]
  BY DEF Seal
<1>2. /\ chain \in Seq(Blocks) /\ N \in Nat /\ txs \in Nat
      /\ open \in [events : Seq(Events), ledger : [Tokens -> Entries], size : Nat]
  BY DEF ChainInv, ChainTyped
<1>3. b \in Blocks /\ b.id = txs
  BY <1>2 DEF Blocks
<1>4. open'.size = 0
  BY <1>1, <1>2
<1> HIDE DEF b
<1>5. /\ Len(chain') = N + 1 /\ chain'[N + 1] = b
      /\ \A i \in 1..N : chain'[i] = chain[i]
  BY <1>1, <1>2, <1>3
<1>6. \A n : Past(n) => Past(n)' /\ n # txs
  BY <1>1, <1>2, <1>4 DEF Past
<1>7. \A i \in 1..(N + 1) : i \in 1..N \/ i = N + 1
  BY <1>2
<1> QED BY <1>1, <1>3, <1>5, <1>6, <1>7 DEF ChainMoves

LEMMA ReorgMoves == ASSUME ChainInv, Reorg PROVE ChainMoves
<1> DEFINE N == Len(chain)
<1>1. /\ N > 1 /\ chain' = Front(chain) /\ UNCHANGED <<indexed, work, txs>>
      /\ open' = [events |-> <<>>, ledger |-> Last(Front(chain)).ledger, size |-> 0]
  BY DEF Reorg
<1>2. chain \in Seq(Blocks) /\ N \in Nat
  BY DEF ChainInv, ChainTyped
<1>3. Len(chain') = N - 1 /\ \A i \in 1..(N - 1) : chain'[i] = chain[i]
  BY <1>1, <1>2, LastFront
<1>4. open'.size = 0
  BY <1>1
<1>5. \A n : Past(n) => Past(n)'
  BY <1>1, <1>4 DEF Past
<1>6. \A i \in 1..(N - 1) : i \in 1..N
  BY <1>2
<1> QED BY <1>1, <1>3, <1>5, <1>6 DEF ChainMoves

LEMMA ChainMovesOn == ASSUME ChainInv, Chain PROVE ChainMoves
<1>1. ASSUME NEW t, NEW terms, CreateLaunch(t, terms[1], terms[2]) PROVE ChainMoves
  BY <1>1, TxMoves DEF CreateLaunch
<1>2. ASSUME NEW t, NEW a, NEW n, Buy(t, a, n) PROVE ChainMoves
  BY <1>2, TxMoves DEF Buy
<1>3. ASSUME NEW t, NEW a, NEW n, Sell(t, a, n) PROVE ChainMoves
  BY <1>3, TxMoves DEF Sell
<1>4. ASSUME NEW t, NEW a, NEW b, Transfer(t, a, b) PROVE ChainMoves
  BY <1>4, TxMoves DEF Transfer
<1>5. ASSUME NEW t, Claim(t) \/ Reclaim(t) \/ Collect(t, 1, 2) PROVE ChainMoves
  BY <1>5, TxMoves DEF Claim, Reclaim, Collect
<1>6. ASSUME NEW t, NEW until, Extend(t, until) PROVE ChainMoves
  BY <1>6, TxMoves DEF Extend
<1> QED BY <1>1, <1>2, <1>3, <1>4, <1>5, <1>6, SealMoves, ReorgMoves DEF Chain

\* So what graph-node holds stays true of the chain.
LEMMA IndexedStands == ASSUME ChainMoves, IndexedInv PROVE IndexedInv'
<1>1. indexed' = indexed
  BY DEF ChainMoves
<1>2. ASSUME NEW j \in 1..Len(indexed) PROVE Committed(j)' /\ Agrees(j)'
  <2>1. Committed(j) /\ Agrees(j)
    BY DEF IndexedInv
  <2>2. Committed(j)'
    BY <1>1, <2>1 DEF Committed, ChainMoves
  <2>3. ASSUME NEW i \in 1..Len(chain'), chain'[i].id = indexed[j].id
        PROVE  i = j /\ CurrentView(indexed[j].store, chain'[i].ledger)
    <3>1. i \in 1..Len(chain) /\ chain'[i] = chain[i]
      BY <2>1, <2>3 DEF ChainMoves, Committed
    <3> QED BY <2>1, <2>3, <3>1 DEF Agrees
  <2> QED BY <1>1, <2>2, <2>3 DEF Agrees
<1> QED BY <1>1, <1>2 DEF IndexedInv

LEMMA WorkStands == ASSUME ChainMoves, WorkInv PROVE WorkInv'
<1> SUFFICES ASSUME work.busy PROVE WorkInv'
  BY DEF WorkInv, ChainMoves
<1>1. work' = work /\ now' = now /\ WorkTyped /\ WorkLeads /\ WorkBalances
  BY DEF ChainMoves, WorkInv, now
<1>2. WorkTyped' /\ WorkBalances'
  BY <1>1 DEF WorkTyped, WorkBalances, TradesOf
<1>3. Past(work.id)'
  BY <1>1 DEF ChainMoves, WorkLeads
<1>4. ASSUME NEW i \in 1..Len(chain'), chain'[i].id = work.id
      PROVE  i \in 1..Len(chain) /\ chain'[i] = chain[i]
  BY <1>1, <1>4 DEF ChainMoves, WorkLeads
<1>5. ASSUME NEW t \in Tokens, NEW p, NEW q, WorkServes(t, p, q) PROVE WorkServes(t, p, q)'
  BY <1>1, <1>5 DEF WorkServes
<1>6. WorkLeads'
  <2>1. \A i \in 1..Len(chain') : chain'[i].id = work'.id => i = now' + 1
    BY <1>1, <1>4 DEF WorkLeads
  <2>2. ASSUME NEW t \in Tokens
        PROVE  \E p, q :
                 /\ WorkServes(t, p, q)'
                 /\ \A i \in 1..Len(chain') : chain'[i].id = work'.id =>
                       /\ p[Len(work'.events)] = TermsOf(chain'[i].ledger[t])
                       /\ q[Len(work'.events)] = CurveOf(chain'[i].ledger[t])
    <3>1. PICK p, q :
            /\ WorkServes(t, p, q)
            /\ \A i \in 1..Len(chain) : chain[i].id = work.id =>
                  /\ p[Len(work.events)] = TermsOf(chain[i].ledger[t])
                  /\ q[Len(work.events)] = CurveOf(chain[i].ledger[t])
      BY <1>1 DEF WorkLeads
    <3>2. WorkServes(t, p, q)'
      BY <1>5, <3>1
    <3> QED BY <1>1, <1>4, <3>1, <3>2
  <2> QED BY <1>1, <1>3, <2>1, <2>2 DEF WorkLeads
<1> QED BY <1>2, <1>6 DEF WorkInv

-----------------------------------------------------------------------------
(* Graph-node's steps.                                                      *)

LEMMA TipIs ==
    ASSUME IndexedInv
    PROVE  now \in Nat /\ now >= 1 /\ now \in 1..now /\ Tip = indexed[now]
<1>1. PICK S : indexed \in Seq(S)
  BY DEF IndexedInv
<1>2. now \in Nat /\ now >= 1
  BY <1>1 DEF IndexedInv, now
<1>3. Tip = indexed[now]
  BY DEF Last, Tip, now
<1> QED BY <1>2, <1>3

LEMMA StartBlockKeeps == ASSUME IndexerInv, StartBlock PROVE WorkInv'
<1> DEFINE b == chain[now + 1]
           N == Len(b.events)
<1>1. /\ now \in Nat /\ now >= 1 /\ now \in 1..now /\ Tip = indexed[now]
      /\ Committed(now) /\ Agrees(now)
  BY TipIs DEF IndexerInv, IndexedInv, now
<1>2. /\ now < Len(chain) /\ chain \in Seq(Blocks) /\ Len(chain) \in Nat
      /\ now \in 1..Len(chain) /\ now + 1 \in 2..Len(chain) /\ now + 1 \in 1..Len(chain)
      /\ (now + 1) - 1 = now
  <2>1. now < Len(chain) /\ chain \in Seq(Blocks)
    BY DEF StartBlock, now, IndexerInv, ChainInv, ChainTyped
  <2> QED BY <1>1, <2>1
<1>3. CurrentView(Tip.store, chain[now].ledger)
  <2>1. PICK i \in 1..Len(chain) : chain[i].id = Tip.id
    BY <1>2 DEF StartBlock, OnChain
  <2> QED BY <1>1, <2>1 DEF Agrees
<1>4. BlockLeads(now, chain[now].ledger, b.events, b.ledger)
  <2>1. PICK i : i = now + 1
    OBVIOUS
  <2>2. BlockLeads(i - 1, chain[i - 1].ledger, chain[i].events, chain[i].ledger)
    BY <1>2, <2>1 DEF IndexerInv, ChainInv, ChainLeads
  <2> QED BY <1>2, <2>1, <2>2
<1>5. b.events \in Seq(Events) /\ N \in Nat /\ DOMAIN b.events = 1..N
  <2>1. b.events \in Seq(Events)
    BY <1>2, BlocksTyped DEF IndexerInv, ChainInv
  <2> QED BY <2>1
<1>6. /\ Past(b.id)
      /\ \A i \in 1..Len(chain) : chain[i].id = b.id => i = now + 1
  <2>1. PICK k : k = now + 1
    OBVIOUS
  <2>2. k \in 1..Len(chain)
    BY <1>2, <2>1
  <2>3. \A i \in 1..Len(chain) : chain[i].id \in Nat
    BY BlocksTyped DEF IndexerInv, ChainInv
  <2>4. Past(chain[k].id)
    BY <2>2, <2>3 DEF IndexerInv, ChainInv, IdsGoUp, Past
  <2>5. ASSUME NEW i \in 1..Len(chain), chain[i].id = chain[k].id PROVE i = k
    <3>1. ~(i < k) /\ ~(k < i)
      BY <2>2, <2>3, <2>5 DEF IndexerInv, ChainInv, IdsGoUp
    <3> QED BY <1>2, <2>2, <3>1
  <2> QED BY <2>1, <2>4, <2>5
<1>7. /\ work'.busy = TRUE /\ work'.id = b.id /\ work'.store = Tip.store
      /\ work'.events = b.events /\ work'.left = 1..N /\ DOMAIN work' = WorkFields
  BY <1>5 DEF StartBlock, now, WorkFields
<1>8. chain' = chain /\ open' = open /\ txs' = txs /\ now' = now
  BY DEF StartBlock, now
<1> HIDE DEF b, N
<1>9. WorkTyped'
  BY <1>1, <1>5, <1>7 DEF WorkTyped, Committed, N
<1>10. WorkBalances'
  <2>1. ASSUME NEW id \in DOMAIN Tip.store.trades
        PROVE  id \in Nat \X Nat /\ id[1] <= now /\ id[1] # now
    <3>1. id \in Nat \X Nat /\ id[1] < now
      BY <1>1 DEF Committed
    <3> QED BY <1>1, <3>1
  <2> QED BY <1>1, <1>7, <1>8, <2>1 DEF WorkBalances, TradesOf, Committed
<1>11. WorkLeads'
  <2>1. Past(work.id)'
    BY <1>6, <1>7, <1>8 DEF Past
  <2>2. ASSUME NEW t \in Tokens
        PROVE  \E p, q :
                 /\ WorkServes(t, p, q)'
                 /\ \A i \in 1..Len(chain') : chain'[i].id = work'.id =>
                       /\ p[Len(work'.events)] = TermsOf(chain'[i].ledger[t])
                       /\ q[Len(work'.events)] = CurveOf(chain'[i].ledger[t])
    <3>1. PICK p, q :
            /\ Traced(p, q, t, now, b.events)
            /\ p[0] = TermsOf(chain[now].ledger[t]) /\ q[0] = CurveOf(chain[now].ledger[t])
            /\ p[N] = TermsOf(b.ledger[t]) /\ q[N] = CurveOf(b.ledger[t])
      BY <1>4 DEF BlockLeads, Leads, N
    <3>2. Serves(Tip.store, t, p[0], q[0])
      BY <1>3, <3>1 DEF CurrentView
    <3>3. /\ 0 \in 0..N
          /\ Reached(TermsEvents(b.events, t), 1..N, 0)
          /\ Reached(TradeEvents(b.events, t), 1..N, 0)
      BY <1>5 DEF Reached, TermsEvents, TradeEvents, N
    <3>4. WorkServes(t, p, q)'
      BY <1>7, <1>8, <3>1, <3>2, <3>3 DEF WorkServes, N
    <3> QED BY <1>6, <1>7, <1>8, <3>1, <3>4 DEF b, N
  <2> QED BY <1>6, <1>7, <1>8, <2>1, <2>2 DEF WorkLeads
<1> QED BY <1>9, <1>10, <1>11 DEF WorkInv

LEMMA HandleKeeps == ASSUME IndexerInv, Handle PROVE WorkInv' /\ ChainStands /\ indexed' = indexed
<1> DEFINE e == work.events[logIndex]
           s == work.store
<1>1. /\ work.busy /\ work.left # {} /\ ChainStands /\ indexed' = indexed
  BY DEF Handle, LaunchCreated, LaunchConfig, Bought, Sold, Graduation, Graduated, Claimed,
         LockRegistered, LockExtended, FeesCollected, Reclaimed, Deliver, ChainStands
<1>2. now \in Nat
  BY TipIs DEF IndexerInv
<1>3. ASSUME NEW s2, work' = [work EXCEPT !.store = s2, !.left = work.left \ {logIndex}],
             \A v, c, w, d : Due(s, e, v, c, w, d) => Done(s, s2, e.token, w, d)
      PROVE  WorkInv'
  BY <1>1, <1>2, <1>3, DeliveredKeeps DEF IndexerInv
<1>4. ASSUME NEW v, NEW c, NEW w, NEW d, Due(s, e, v, c, w, d)
      PROVE  /\ e.kind = "LaunchCreated" => Done(s, handleLaunchCreated(s, e), e.token, w, d)
             /\ e.kind = "LaunchConfig" => Done(s, handleLaunchConfig(s, e), e.token, w, d)
             /\ e.kind = "Bought" => Done(s, handleBought(s, e), e.token, w, d)
             /\ e.kind = "Sold" => Done(s, handleSold(s, e), e.token, w, d)
             /\ e.kind = "Graduation" => Done(s, handleGraduation(s, e), e.token, w, d)
             /\ e.kind = "Graduated" => Done(s, handleGraduated(s, e), e.token, w, d)
             /\ e.kind = "Claimed" => Done(s, handleClaimed(s, e), e.token, w, d)
             /\ e.kind = "LockRegistered" => Done(s, handleLockRegistered(s, e), e.token, w, d)
             /\ e.kind = "LockExtended" => Done(s, handleLockExtended(s, e), e.token, w, d)
             /\ e.kind = "FeesCollected" => Done(s, handleFeesCollected(s, e), e.token, w, d)
             /\ e.kind = "Reclaimed" => Done(s, handleReclaimed(s, e), e.token, w, d)
  BY <1>2, <1>4, AllHandled
<1>5. ASSUME LaunchCreated PROVE WorkInv'
  BY <1>3, <1>4, <1>5 DEF LaunchCreated, Deliver
<1>6. ASSUME LaunchConfig PROVE WorkInv'
  BY <1>3, <1>4, <1>6 DEF LaunchConfig, Deliver
<1>7. ASSUME Bought PROVE WorkInv'
  BY <1>3, <1>4, <1>7 DEF Bought, Deliver
<1>8. ASSUME Sold PROVE WorkInv'
  BY <1>3, <1>4, <1>8 DEF Sold, Deliver
<1>9. ASSUME Graduation PROVE WorkInv'
  BY <1>3, <1>4, <1>9 DEF Graduation, Deliver
<1>10. ASSUME Graduated PROVE WorkInv'
  BY <1>3, <1>4, <1>10 DEF Graduated, Deliver
<1>11. ASSUME Claimed PROVE WorkInv'
  BY <1>3, <1>4, <1>11 DEF Claimed, Deliver
<1>12. ASSUME LockRegistered PROVE WorkInv'
  BY <1>3, <1>4, <1>12 DEF LockRegistered, Deliver
<1>13. ASSUME LockExtended PROVE WorkInv'
  BY <1>3, <1>4, <1>13 DEF LockExtended, Deliver
<1>14. ASSUME FeesCollected PROVE WorkInv'
  BY <1>3, <1>4, <1>14 DEF FeesCollected, Deliver
<1>15. ASSUME Reclaimed PROVE WorkInv'
  BY <1>3, <1>4, <1>15 DEF Reclaimed, Deliver
<1> QED BY <1>1, <1>5, <1>6, <1>7, <1>8, <1>9, <1>10, <1>11, <1>12, <1>13, <1>14, <1>15 DEF Handle

\* Once no event is left, the work holds what the last one led to.
LEMMA WorkDone ==
    ASSUME now \in Nat, WorkTyped, WorkLeads, work.left = {},
           NEW i \in 1..Len(chain), chain[i].id = work.id
    PROVE  CurrentView(work.store, chain[i].ledger)
<1> DEFINE N == Len(work.events)
<1>1. ASSUME NEW t \in Tokens
      PROVE  Serves(work.store, t, TermsOf(chain[i].ledger[t]), CurveOf(chain[i].ledger[t]))
  <2>1. PICK p, q :
          /\ WorkServes(t, p, q)
          /\ p[N] = TermsOf(chain[i].ledger[t]) /\ q[N] = CurveOf(chain[i].ledger[t])
    BY DEF WorkLeads
  <2>2. PICK k, m \in 0..N :
          /\ Reached(TermsEvents(work.events, t), work.left, k)
          /\ Reached(TradeEvents(work.events, t), work.left, m)
          /\ Serves(work.store, t, p[k], q[m])
    BY <2>1 DEF WorkServes
  <2>3. /\ NoneBetween(TermsEvents(work.events, t), k, N)
        /\ NoneBetween(TradeEvents(work.events, t), m, N)
    BY <2>2 DEF Reached, NoneBetween
  <2>4. work.events \in Seq(Events) /\ Traced(p, q, t, now, work.events)
    BY <2>1 DEF WorkTyped, WorkServes
  <2>5. N \in 0..N /\ k <= N /\ m <= N
    BY <2>2, <2>4
  <2>6. p[N] = p[k]
    BY <2>2, <2>3, <2>4, <2>5, TermsHold
  <2>7. q[N] = q[m]
    BY <2>2, <2>3, <2>4, <2>5, CurveHolds
  <2> QED BY <2>1, <2>2, <2>6, <2>7
<1> QED BY <1>1 DEF CurrentView

LEMMA CommitBlockKeeps == ASSUME IndexerInv, CommitBlock PROVE IndexedInv' /\ WorkInv'
<1> DEFINE b == [id |-> work.id, store |-> work.store]
<1>1. /\ indexed' = Append(indexed, b) /\ work' = Idle
      /\ chain' = chain /\ open' = open /\ txs' = txs
      /\ work.left = {} /\ WorkTyped /\ WorkLeads /\ WorkBalances
  BY DEF CommitBlock, IndexerInv, WorkInv
<1>2. WorkInv'
  BY <1>1 DEF WorkInv, Idle
<1>3. PICK S : indexed \in Seq(S)
  BY DEF IndexerInv, IndexedInv
<1>4. b.id = work.id /\ b.store = work.store
  OBVIOUS
<1>5. now \in Nat /\ now >= 1 /\ now = Len(indexed)
  BY TipIs DEF IndexerInv, now
<1> HIDE DEF b
<1>6. /\ indexed' \in Seq(S \cup {b}) /\ Len(indexed') = now + 1 /\ indexed'[now + 1] = b
      /\ \A j \in 1..now : indexed'[j] = indexed[j]
  <2>1. indexed \in Seq(S \cup {b}) /\ b \in S \cup {b}
    BY <1>3
  <2> QED BY <1>1, <1>5, <2>1
<1>7. ASSUME NEW j \in 1..now PROVE Committed(j)' /\ Agrees(j)'
  <2>1. Committed(j) /\ Agrees(j)
    BY <1>5 DEF IndexerInv, IndexedInv
  <2> QED BY <1>1, <1>6, <2>1 DEF Committed, Agrees, Past
<1>8. PICK next : next = now + 1
  OBVIOUS
<1>9. Committed(next)'
  <2>1. \A id \in DOMAIN work.store.trades : id \in Nat \X Nat /\ id[1] < next
    BY <1>1, <1>5, <1>8 DEF WorkBalances, TradesOf
  <2>2. PICK n : n = work.id
    OBVIOUS
  <2>3. Past(n)'
    BY <1>1, <2>2 DEF WorkLeads, Past
  <2>4. StoreOK(work.store) /\ Balanced(work.store)
    BY <1>1 DEF WorkTyped, WorkBalances
  <2> QED BY <1>4, <1>6, <1>8, <2>1, <2>2, <2>3, <2>4 DEF Committed
<1>10. Agrees(next)'
  <2>1. ASSUME NEW i \in 1..Len(chain), chain[i].id = work.id
        PROVE  i = next /\ CurrentView(work.store, chain[i].ledger)
    BY <1>1, <1>5, <1>8, <2>1, WorkDone DEF WorkLeads
  <2> QED BY <1>1, <1>4, <1>6, <1>8, <2>1 DEF Agrees
<1>11. indexed'[1].id = 0
  BY <1>5, <1>6 DEF IndexerInv, IndexedInv
<1>12. \A j \in 1..(now + 1) : j \in 1..now \/ j = next
  BY <1>5, <1>8
<1> QED BY <1>2, <1>5, <1>6, <1>7, <1>8, <1>9, <1>10, <1>11, <1>12 DEF IndexedInv

LEMMA RevertBlockKeeps == ASSUME IndexerInv, RevertBlock PROVE IndexedInv' /\ WorkInv'
<1>1. /\ indexed' = Front(indexed) /\ ~work.busy /\ ~OnChain(Tip)
      /\ chain' = chain /\ open' = open /\ txs' = txs /\ work' = work
  BY DEF RevertBlock
<1>2. WorkInv'
  BY <1>1 DEF WorkInv
<1>3. PICK S : indexed \in Seq(S)
  BY DEF IndexerInv, IndexedInv
<1>4. now \in Nat /\ now >= 1 /\ now = Len(indexed) /\ Tip = indexed[now]
  BY TipIs DEF IndexerInv, now
<1>5. now > 1
  <2>1. now # 1
    <3>1. chain \in Seq(Blocks) /\ Len(chain) >= 1 /\ chain[1].id = 0 /\ indexed[1].id = 0
      BY DEF IndexerInv, ChainInv, ChainTyped, IdsGoUp, IndexedInv
    <3>2. 1 \in DOMAIN chain
      BY <3>1
    <3> QED BY <1>1, <1>4, <3>1, <3>2 DEF OnChain
  <2> QED BY <1>4, <2>1
<1>6. /\ indexed' \in Seq(S) /\ Len(indexed') = now - 1
      /\ \A j \in 1..(now - 1) : indexed'[j] = indexed[j]
  BY <1>1, <1>3, <1>4, LastFront
<1>7. ASSUME NEW j \in 1..(now - 1) PROVE Committed(j)' /\ Agrees(j)'
  <2>1. Committed(j) /\ Agrees(j)
    BY <1>4 DEF IndexerInv, IndexedInv
  <2> QED BY <1>1, <1>6, <2>1 DEF Committed, Agrees, Past
<1>8. Len(indexed') >= 1 /\ indexed'[1].id = 0
  BY <1>4, <1>5, <1>6 DEF IndexerInv, IndexedInv
<1> QED BY <1>2, <1>6, <1>7, <1>8 DEF IndexedInv

LEMMA NothingServed ==
    /\ StoreOK(EmptyStore) /\ Balanced(EmptyStore)
    /\ DOMAIN EmptyStore.trades = {}
    /\ \A t \in Tokens : Serves(EmptyStore, t, NoTerms, NoCurve)
<1> DEFINE s == EmptyStore
<1>1. /\ DOMAIN s = StoreFields /\ s.factory = EmptyFactory
      /\ s.tokens = NoEntities /\ s.trades = NoEntities /\ s.positions = NoEntities
      /\ s.graduations = NoEntities /\ s.locks = NoEntities
  BY DEF EmptyStore, StoreFields
<1>2. DOMAIN NoEntities = {}
  BY DEF NoEntities
<1> HIDE DEF s
<1>3. FactoryOK(EmptyFactory)
  BY DEF FactoryOK, EmptyFactory, FactoryFields
<1>4. StoreOK(s)
  BY <1>1, <1>2, <1>3, FS_EmptySet DEF StoreOK
<1>5. AddsUp(s)
  <2>1. ASSUME NEW t \in Tokens PROVE BuysOf(s)[t] = 0 /\ SellsOf(s)[t] = 0 /\ VolumesOf(s)[t] = 0
    BY <1>1, <1>2 DEF BuysOf, SellsOf, VolumesOf, Has
  <2>2. /\ SumFunctionOnSet(BuysOf(s), Tokens) = 0 /\ SumFunctionOnSet(SellsOf(s), Tokens) = 0
        /\ SumFunctionOnSet(VolumesOf(s), Tokens) = 0
    BY <2>1, SumOfZeros, Sizes
  <2>3. Total(s, Buys) = 0 /\ Total(s, Sells) = 0 /\ Total(s, Volume) = 0
    BY <2>2, TotalsAre
  <2>4. Cardinality({}) = 0
    BY FS_EmptySet
  <2> QED BY <1>1, <1>2, <2>3, <2>4 DEF AddsUp, EmptyFactory
<1>6. Balanced(s)
  BY <1>1, <1>2, <1>5 DEF Balanced
<1>7. ASSUME NEW t \in Tokens PROVE Serves(s, t, NoTerms, NoCurve)
  BY <1>1, <1>2 DEF Serves, Shows, Has, NoTerms
<1> QED BY <1>1, <1>2, <1>4, <1>6, <1>7 DEF s

LEMMA IndexerStarts == ASSUME Init PROVE IndexerInv
<1> DEFINE b == [id |-> 0, store |-> EmptyStore]
<1>1. indexed = <<b>> /\ work = Idle
  BY DEF Init
<1>2. b.id = 0 /\ b.store = EmptyStore
  OBVIOUS
<1> HIDE DEF b
<1>3. indexed \in Seq({b}) /\ Len(indexed) = 1 /\ indexed[1] = b
  BY <1>1
<1>4. Committed(1)
  <2>1. Past(0)
    BY DEF Past, Init
  <2> QED BY <1>2, <1>3, <2>1, NothingServed DEF Committed
<1>5. Agrees(1)
  <2>1. Len(chain) = 1 /\ \A t \in Tokens : chain[1].ledger[t] = Unlaunched
    BY DEF Init
  <2>2. TermsOf(Unlaunched) = NoTerms /\ CurveOf(Unlaunched) = NoCurve
    BY DEF Unlaunched, NoLock, TermsOf, NoTerms, CurveOf, NoCurve
  <2> QED BY <1>2, <1>3, <2>1, <2>2, NothingServed DEF Agrees, CurrentView
<1>6. IndexedInv
  BY <1>2, <1>3, <1>4, <1>5 DEF IndexedInv
<1> QED BY <1>1, <1>6, ChainStarts DEF IndexerInv, WorkInv, Idle

LEMMA ChainStays ==
    ASSUME ChainInv, ChainStands, faults' \in Nat
    PROVE  ChainInv'
  BY DEF ChainInv, ChainStands, ChainTyped, IdsGoUp, ChainLeads, OpenLeads

LEMMA IndexedStays ==
    ASSUME IndexedInv, ChainStands, indexed' = indexed
    PROVE  IndexedInv'
  BY DEF IndexedInv, ChainStands, Committed, Agrees, Past

LEMMA IndexerKept == ASSUME IndexerInv, [Next]_vars PROVE IndexerInv'
<1>1. CASE Chain
  BY <1>1, ChainKept, ChainMovesOn, IndexedStands, WorkStands DEF IndexerInv
<1>2. faults \in Nat
  BY DEF IndexerInv, ChainInv, ChainTyped
<1>3. CASE StartBlock
  <2>1. ChainStands /\ indexed' = indexed /\ faults' = faults
    BY <1>3 DEF StartBlock, ChainStands
  <2> QED BY <1>2, <1>3, <2>1, StartBlockKeeps, ChainStays, IndexedStays DEF IndexerInv
<1>4. CASE Handle
  <2>1. faults' = faults
    BY <1>4 DEF Handle, LaunchCreated, LaunchConfig, Bought, Sold, Graduation, Graduated, Claimed,
                LockRegistered, LockExtended, FeesCollected, Reclaimed, Deliver
  <2> QED BY <1>2, <1>4, <2>1, HandleKeeps, ChainStays, IndexedStays DEF IndexerInv
<1>5. CASE CommitBlock \/ RevertBlock
  <2>1. ChainStands /\ faults' = faults
    BY <1>5 DEF CommitBlock, RevertBlock, ChainStands
  <2> QED BY <1>2, <1>5, <2>1, CommitBlockKeeps, RevertBlockKeeps, ChainStays DEF IndexerInv
<1>6. CASE Restart
  <2>1. ChainStands /\ indexed' = indexed /\ faults' = faults + 1 /\ work' = Idle
    BY <1>6 DEF Restart, ChainStands
  <2>2. WorkInv'
    BY <2>1 DEF WorkInv, Idle
  <2> QED BY <1>2, <2>1, <2>2, ChainStays, IndexedStays DEF IndexerInv
<1>7. CASE UNCHANGED vars
  <2>1. ChainStands /\ indexed' = indexed /\ faults' = faults /\ work' = work
    BY <1>7 DEF vars, ChainStands
  <2>2. ChainMoves
    BY <2>1 DEF ChainMoves, ChainStands, Past
  <2> QED BY <1>2, <2>1, <2>2, ChainStays, IndexedStays, WorkStands DEF IndexerInv
<1> QED BY <1>1, <1>3, <1>4, <1>5, <1>6, <1>7 DEF Next, Index

-----------------------------------------------------------------------------
(* The theorems.                                                            *)

LEMMA ServedMatches ==
    ASSUME NEW s, NEW t, NEW e, EntryOK(e), Serves(s, t, TermsOf(e), CurveOf(e))
    PROVE  /\ Has(s.tokens, t) <=> e.launched
           /\ e.launched => TokenMatches(s, t, e)
<1>1. /\ TermsOf(e).launched = e.launched /\ TermsOf(e).carve = e.carve
      /\ TermsOf(e).permanent = e.permanent /\ TermsOf(e).graduatedAt = e.graduatedAt
      /\ TermsOf(e).raised = e.raised /\ TermsOf(e).claimed = e.claimed
      /\ TermsOf(e).until = e.lock.until /\ TermsOf(e).extends = e.lock.extends
      /\ TermsOf(e).collected = e.lock.collected /\ TermsOf(e).reclaimed = e.lock.reclaimed
      /\ e.launched => TermsOf(e).duration = LOCK_DURATION
  BY DEF TermsOf
<1>2. CurveOf(e).sold = e.sold /\ CurveOf(e).traded = e.traded /\ CurveOf(e).trades = e.trades
  BY DEF CurveOf
<1>3. Has(s.tokens, t) <=> e.launched
  BY <1>1 DEF Serves, Shows
<1>4. ASSUME e.launched PROVE TokenMatches(s, t, e)
  <2>1. TokenShows(s.tokens[t], TermsOf(e)) /\ CurveShows(s.tokens[t], CurveOf(e))
    BY <1>1, <1>4 DEF Serves, Shows
  <2>2. ASSUME e.graduatedAt # 0
        PROVE  s.graduations[t].raisedEth = e.raised /\ LockMatches(s.locks[t], e)
    <3>1. e.lock.until # 0
      BY <2>2 DEF EntryOK
    <3>2. LockShows(s.locks[t], TermsOf(e)) /\ s.graduations[t].raisedEth = e.raised
      BY <1>1, <2>2, <3>1 DEF Serves, Shows
    <3> QED BY <1>1, <3>2 DEF LockShows, LockMatches
  <2> QED BY <1>1, <1>2, <1>4, <2>1, <2>2 DEF TokenShows, CurveShows, TokenMatches
<1> QED BY <1>3, <1>4

LEMMA InvServesTheChain == ASSUME IndexerInv PROVE IndexedIsTheChain
<1> SUFFICES ASSUME NEW i \in DOMAIN indexed, i \in DOMAIN chain, chain[i].id = indexed[i].id,
                    NEW t \in Tokens
             PROVE  /\ Has(indexed[i].store.tokens, t) <=> chain[i].ledger[t].launched
                    /\ chain[i].ledger[t].launched =>
                         TokenMatches(indexed[i].store, t, chain[i].ledger[t])
  BY DEF IndexedIsTheChain
<1>1. i \in 1..Len(chain) /\ i \in 1..Len(indexed)
  BY DEF IndexerInv, ChainInv, ChainTyped, IndexedInv
<1>2. Serves(indexed[i].store, t, TermsOf(chain[i].ledger[t]), CurveOf(chain[i].ledger[t]))
  BY <1>1 DEF IndexerInv, IndexedInv, Agrees, CurrentView
<1>3. EntryOK(chain[i].ledger[t])
  BY <1>1 DEF IndexerInv, ChainInv, ChainLeads, LedgerOK
<1> QED BY <1>2, <1>3, ServedMatches

LEMMA InvBalances == ASSUME IndexerInv PROVE RollupIsTheSum /\ PositionsCoverTheCurve
<1>1. \A i \in DOMAIN indexed : Balanced(indexed[i].store)
  BY DEF IndexerInv, IndexedInv, Committed
<1> QED BY <1>1 DEF RollupIsTheSum, PositionsCoverTheCurve, Balanced, AddsUp, Covered

\* Graph-node follows the chain: whatever it has committed or is handling is what the
\* chain's events, as far as handled, say.
THEOREM GraphNodeFollows == Spec => []IndexerInv
  BY IndexerStarts, IndexerKept, PTL DEF Spec

\* The subgraph serves, of every block on the chain, what the contracts held after it,
\* for any number of launches, accounts, blocks, restarts and reorganisations.
THEOREM SubgraphServesTheChain == Spec => []IndexedIsTheChain
  BY GraphNodeFollows, InvServesTheChain, PTL

\* The factory's counters add up to what the launches, the trades and the graduations
\* of the store come to, in every committed block.
THEOREM RollupAddsUp == Spec => []RollupIsTheSum
  BY GraphNodeFollows, InvBalances, PTL

\* A launch's position count is the number of its holders, and their positions are never
\* less than what its curve has sold.
THEOREM PositionsCover == Spec => []PositionsCoverTheCurve
  BY GraphNodeFollows, InvBalances, PTL
==============================================================================
