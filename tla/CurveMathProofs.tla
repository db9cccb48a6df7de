-------------------------- MODULE CurveMathProofs --------------------------
(***************************************************************************)
(* What the arithmetic of CurveMath returns, for every natural argument,   *)
(* and what a sum over a finite set of accounts is after an update of one. *)
(***************************************************************************)
EXTENDS CurveMath, Functions, FiniteSets, FiniteSetTheorems, WellFoundedInduction, TLAPS

\* Division with remainder, in the form the other lemmas use it.
LEMMA DivBounds ==
    ASSUME NEW a \in Nat, NEW b \in Nat, b > 0
    PROVE  /\ a \div b \in Nat
           /\ (a \div b) * b <= a
           /\ a < (a \div b) * b + b
  BY SMT

\* Multiplication by a positive number is strictly monotonic.
LEMMA MulStrict ==
    ASSUME NEW p \in Int, NEW q \in Int, NEW c \in Nat, c > 0, p < q
    PROVE  p * c < q * c
  BY SMT

\* Multiplication by a natural number is monotonic.
LEMMA MulMono ==
    ASSUME NEW p \in Int, NEW q \in Int, NEW c \in Nat, p <= q
    PROVE  p * c <= q * c
  BY SMT

\* Division by a positive number is monotonic.
LEMMA DivMono ==
    ASSUME NEW a \in Nat, NEW c \in Nat, NEW b \in Nat, b > 0, a <= c
    PROVE  a \div b <= c \div b
<1> DEFINE p == a \div b
           q == c \div b
<1>1. p \in Nat /\ p * b <= a /\ q \in Nat /\ c < q * b + b
  BY DivBounds
<1>2. SUFFICES ASSUME q + 1 <= p PROVE FALSE
  BY <1>1
<1>3. (q + 1) * b <= p * b
  BY <1>1, <1>2, MulMono
<1>4. (q + 1) * b = q * b + b
  BY <1>1, SMT
<1> QED
  BY <1>1, <1>3, <1>4, SMT

\* Math.ceilDiv(a, b) is the least q with q * b >= a.
LEMMA CeilDivBounds ==
    ASSUME NEW a \in Nat, NEW b \in Nat, b > 0
    PROVE  /\ CeilDiv(a, b) \in Nat
           /\ CeilDiv(a, b) * b >= a
           /\ (CeilDiv(a, b) - 1) * b < a
<1> DEFINE q == CeilDiv(a, b)
<1>1. a + b - 1 \in Nat
  OBVIOUS
<1>2. q \in Nat /\ q * b <= a + b - 1 /\ a + b - 1 < q * b + b
  BY <1>1, DivBounds DEF CeilDiv
<1>3. (q - 1) * b = q * b - b
  BY <1>2, SMT
<1> QED
  BY <1>2, <1>3, SMT

LEMMA CeilDivLeast ==
    ASSUME NEW a \in Nat, NEW b \in Nat, b > 0, NEW q \in Nat, q * b >= a
    PROVE  CeilDiv(a, b) <= q
<1> DEFINE c == CeilDiv(a, b)
<1>1. c \in Nat /\ (c - 1) * b < a
  BY CeilDivBounds
<1>2. SUFFICES ASSUME q <= c - 1 PROVE FALSE
  BY <1>1
<1>3. q * b <= (c - 1) * b
  BY <1>1, <1>2, MulMono
<1> QED
  BY <1>1, <1>3, SMT

LEMMA CeilDivUnique ==
    ASSUME NEW a \in Nat, NEW b \in Nat, b > 0, NEW q \in Nat,
           q * b >= a, (q - 1) * b < a
    PROVE  q = CeilDiv(a, b)
<1> DEFINE c == CeilDiv(a, b)
<1>1. c \in Nat /\ c * b >= a /\ c <= q
  BY CeilDivBounds, CeilDivLeast
<1>2. SUFFICES ASSUME c <= q - 1 PROVE FALSE
  BY <1>1
<1>3. c * b <= (q - 1) * b
  BY <1>1, <1>2, MulMono
<1> QED
  BY <1>1, <1>3, SMT

\* A fee below 100% of a positive amount never takes all of it.
LEMMA BpsOfBounds ==
    ASSUME NEW x \in Nat, NEW bps \in Nat, NEW B \in Nat, bps < B
    PROVE  /\ BpsOf(x, bps, B) \in Nat
           /\ BpsOf(x, bps, B) <= x
           /\ x > 0 => BpsOf(x, bps, B) < x
<1> DEFINE f == BpsOf(x, bps, B)
<1>1. x * bps \in Nat
  BY SMT
<1>2. f \in Nat /\ f * B <= x * bps
  BY <1>1, DivBounds DEF BpsOf
<1>3. CASE x = 0
  <2>1. f * B <= 0
    BY <1>2, <1>3, SMT
  <2>2. f = 0
    BY <1>2, <2>1, SMT
  <2> QED BY <1>2, <1>3, <2>2
<1>4. CASE x > 0
  <2>1. x * bps < x * B
    BY <1>4, SMT
  <2>2. f * B < x * B
    BY <1>2, <2>1, SMT
  <2>3. f < x
    BY <1>2, <2>2, MulMono, SMT
  <2> QED BY <1>2, <2>3, SMT
<1> QED
  BY <1>3, <1>4

----------------------------------------------------------------------------
(* Sums. *)

\* Induction, in the form that needs no operator: a set of naturals that holds 0
\* and is closed under successor is all of them.
LEMMA NatSetInduction ==
    ASSUME NEW T, 0 \in T, \A n \in Nat : n \in T => n + 1 \in T
    PROVE  \A n \in Nat : n \in T
<1>1. SUFFICES ASSUME Nat \ T # {} PROVE FALSE
  OBVIOUS
<1>2. \E x \in Nat \ T : \A y \in Nat \ T : ~ (<<y, x>> \in OpToRel(<, Nat))
  BY <1>1, NatLessThanWellFounded, WFMin, Zenon
<1>3. PICK x \in Nat \ T : \A y \in Nat \ T : ~ (y < x)
  BY <1>2 DEF OpToRel
<1>4. x # 0 /\ x - 1 \in Nat /\ x - 1 < x
  OBVIOUS
<1>5. x - 1 \in T
  BY <1>3, <1>4
<1>6. (x - 1) + 1 \in T
  BY <1>4, <1>5
<1> QED BY <1>3, <1>6

AnyOf(s) == CHOOSE x \in s : TRUE

\* g sums f over every subset of S.
Sums(g, f, S) ==
    g = [s \in SUBSET S |-> IF s = {} THEN 0 ELSE f[AnyOf(s)] + g[s \ {AnyOf(s)}]]

LEMMA SubsetFacts ==
    ASSUME NEW S, IsFiniteSet(S), NEW s \in SUBSET S
    PROVE  /\ IsFiniteSet(s) /\ Cardinality(s) \in Nat
           /\ Cardinality(s) = 0 <=> s = {}
           /\ s # {} => /\ AnyOf(s) \in s
                        /\ s \ {AnyOf(s)} \in SUBSET S
                        /\ Cardinality(s \ {AnyOf(s)}) = Cardinality(s) - 1
<1>1. IsFiniteSet(s) /\ Cardinality(s) \in Nat
  BY FS_Subset, FS_CardinalityType
<1>2. Cardinality(s) = 0 <=> s = {}
  BY <1>1, FS_EmptySet
<1>3. ASSUME s # {} PROVE AnyOf(s) \in s
  BY <1>3 DEF AnyOf
<1>4. ASSUME s # {} PROVE Cardinality(s \ {AnyOf(s)}) = Cardinality(s) - 1
  BY <1>1, <1>3, <1>4, FS_RemoveElement
<1> QED BY <1>1, <1>2, <1>3, <1>4

\* Such a g exists: by induction on the size of the subsets it is defined on.
LEMMA SumsExist ==
    ASSUME NEW f, NEW S, IsFiniteSet(S)
    PROVE  \E g : Sums(g, f, S)
<1> DEFINE Sub(n) == {s \in SUBSET S : Cardinality(s) <= n}
           Step(g, n) == [s \in Sub(n) |-> IF s = {} THEN 0
                                          ELSE f[AnyOf(s)] + g[s \ {AnyOf(s)}]]
           T == {n \in Nat : \E g : g = Step(g, n)}
<1>1. 0 \in T
  <2> DEFINE g == [s \in Sub(0) |-> 0]
  <2>1. ASSUME NEW s \in Sub(0) PROVE s = {}
    <3>1. s \in SUBSET S /\ Cardinality(s) <= 0
      OBVIOUS
    <3>2. /\ Cardinality(s) \in Nat
          /\ Cardinality(s) = 0 <=> s = {}
      BY <3>1, SubsetFacts
    <3> QED BY <3>1, <3>2
  <2>2. g = Step(g, 0)
    BY <2>1
  <2> QED BY <2>2
<1>2. ASSUME NEW n \in Nat, n \in T PROVE n + 1 \in T
  <2>1. PICK g : g = Step(g, n)
    BY <1>2
  <2>2. PICK h : h = Step(g, n + 1)
    OBVIOUS
  <2>3. ASSUME NEW s \in Sub(n + 1), s # {}
        PROVE  h[s \ {AnyOf(s)}] = g[s \ {AnyOf(s)}]
    <3>1. PICK t : t = s \ {AnyOf(s)}
      OBVIOUS
    <3>2. t \in Sub(n) /\ t \in Sub(n + 1)
      BY <2>3, <3>1, SubsetFacts
    <3>3. h[t] = (IF t = {} THEN 0 ELSE f[AnyOf(t)] + g[t \ {AnyOf(t)}])
      BY <2>2, <3>2
    <3>4. g[t] = (IF t = {} THEN 0 ELSE f[AnyOf(t)] + g[t \ {AnyOf(t)}])
      BY <2>1, <3>2
    <3>5. h[t] = g[t]
      BY <3>3, <3>4
    <3> QED BY <3>1, <3>5
  <2>4. h = Step(h, n + 1)
    BY <2>2, <2>3
  <2>5. \E u : u = Step(u, n + 1)
    BY <2>4
  <2> HIDE DEF Step
  <2> QED BY <2>5
<1>3. Cardinality(S) \in Nat
  BY SubsetFacts
<1>4. Cardinality(S) \in T
  BY <1>1, <1>2, <1>3, NatSetInduction
<1>5. PICK g : g = Step(g, Cardinality(S))
  BY <1>4
<1>6. Sub(Cardinality(S)) = SUBSET S
  BY FS_Subset
<1> QED BY <1>5, <1>6 DEF Sums

LEMMA SumIsSums ==
    ASSUME NEW f, NEW S, IsFiniteSet(S)
    PROVE  \E g : Sums(g, f, S) /\ SumFunctionOnSet(f, S) = g[S]
<1> DEFINE iter == CHOOSE g : Sums(g, f, S)
<1>1. SumFunctionOnSet(f, S) = iter[S]
  BY DEF SumFunctionOnSet, FoldFunctionOnSet, MapThenFoldSet, Sums, AnyOf
<1>2. Sums(iter, f, S)
  BY SumsExist
<1> QED BY <1>1, <1>2

LEMMA SumOfZeros ==
    ASSUME NEW f, NEW S, IsFiniteSet(S), \A x \in S : f[x] = 0
    PROVE  SumFunctionOnSet(f, S) = 0
<1>1. PICK g : Sums(g, f, S) /\ SumFunctionOnSet(f, S) = g[S]
  BY SumIsSums
<1> DEFINE T == {n \in Nat : \A s \in SUBSET S : Cardinality(s) = n => g[s] = 0}
<1>2. 0 \in T
  BY <1>1, SubsetFacts DEF Sums
<1>3. ASSUME NEW n \in Nat, n \in T PROVE n + 1 \in T
  <2>1. ASSUME NEW s \in SUBSET S, Cardinality(s) = n + 1 PROVE g[s] = 0
    <3>1. s # {} /\ AnyOf(s) \in S /\ g[s \ {AnyOf(s)}] = 0
      BY <1>3, <2>1, SubsetFacts
    <3>2. g[s] = f[AnyOf(s)] + g[s \ {AnyOf(s)}]
      BY <1>1, <3>1 DEF Sums
    <3> QED BY <3>1, <3>2
  <2> QED BY <2>1
<1>4. \A n \in Nat : n \in T
  BY <1>2, <1>3, NatSetInduction
<1> QED BY <1>1, <1>4, SubsetFacts

\* e is f with w's account set to n, as far as the accounts of S go.
SetTo(e, f, D, S, w, n) ==
    /\ f \in [D -> Nat] /\ S \subseteq D /\ w \in D /\ n \in Nat
    /\ e[w] = n /\ \A d \in S : d # w => e[d] = f[d]

\* Updating one account moves the sum by what that account gained or lost.
LEMMA SumAfterUpdate ==
    ASSUME NEW e, NEW f, NEW D, NEW S, IsFiniteSet(S), NEW w, NEW n, SetTo(e, f, D, S, w, n)
    PROVE  /\ SumFunctionOnSet(f, S) \in Nat
           /\ w \in S => SumFunctionOnSet(e, S) = SumFunctionOnSet(f, S) - f[w] + n
           /\ w \notin S => SumFunctionOnSet(e, S) = SumFunctionOnSet(f, S)
<1> USE DEF SetTo
<1>1. PICK g : Sums(g, f, S) /\ SumFunctionOnSet(f, S) = g[S]
  BY SumIsSums
<1>2. PICK h : Sums(h, e, S) /\ SumFunctionOnSet(e, S) = h[S]
  BY SumIsSums
<1> DEFINE P(s) == g[s] \in Nat /\ h[s] = IF w \in s THEN g[s] - f[w] + n ELSE g[s]
           T == {i \in Nat : \A s \in SUBSET S : Cardinality(s) = i => P(s)}
<1>3. 0 \in T
  <2>1. ASSUME NEW s \in SUBSET S, Cardinality(s) = 0 PROVE P(s)
    <3>1. s = {}
      BY <2>1, SubsetFacts
    <3>2. g[s] = 0 /\ h[s] = 0
      BY <1>1, <1>2, <3>1 DEF Sums
    <3> QED BY <3>1, <3>2
  <2> QED BY <2>1
<1>4. ASSUME NEW i \in Nat, i \in T PROVE i + 1 \in T
  <2>1. ASSUME NEW s \in SUBSET S, Cardinality(s) = i + 1 PROVE P(s)
    <3> DEFINE x == AnyOf(s)
               t == s \ {x}
    <3>1. /\ s # {} /\ x \in s /\ t \in SUBSET S
          /\ Cardinality(t) = i
      BY <1>4, <2>1, SubsetFacts
    <3>0. P(t)
      BY <1>4, <3>1
    <3>2. g[s] = f[x] + g[t] /\ h[s] = e[x] + h[t]
      BY <1>1, <1>2, <3>1 DEF Sums
    <3>3. x \in D /\ f[x] \in Nat /\ f[w] \in Nat
      BY <3>1
    <3>4. e[x] = IF x = w THEN n ELSE f[x]
      BY <3>1
    <3>5. w \in t <=> (w \in s /\ x # w)
      BY <3>1
    <3>6. g[t] \in Nat /\ h[t] = IF w \in t THEN g[t] - f[w] + n ELSE g[t]
      BY <3>0
    <3> HIDE DEF x, t
    <3> QED BY <3>1, <3>2, <3>3, <3>4, <3>5, <3>6
  <2> QED BY <2>1
<1>5. \A i \in Nat : i \in T
  BY <1>3, <1>4, NatSetInduction
<1>6. P(S)
  BY <1>5, SubsetFacts
<1> QED BY <1>1, <1>2, <1>6

\* e is f with x moved from a to b.
Moved(e, f, D, S, a, b, x) ==
    /\ f \in [D -> Nat] /\ S \subseteq D /\ a \in D /\ b \in D /\ a # b
    /\ x \in Nat /\ x <= f[a]
    /\ e = [f EXCEPT ![a] = @ - x, ![b] = @ + x]

\* A move from one account to another, of which either may be outside the sum.
LEMMA SumAfterMove ==
    ASSUME NEW e, NEW f, NEW D, NEW S, IsFiniteSet(S), NEW a, NEW b, NEW x,
           Moved(e, f, D, S, a, b, x)
    PROVE  /\ SumFunctionOnSet(f, S) \in Nat
           /\ SumFunctionOnSet(e, S) = SumFunctionOnSet(f, S) - (IF a \in S THEN x ELSE 0)
                                                             + (IF b \in S THEN x ELSE 0)
<1>1. PICK m, n : m = f[a] - x /\ n = f[b] + x
  OBVIOUS
<1>2. /\ f[a] \in Nat /\ f[b] \in Nat /\ m \in Nat /\ n \in Nat /\ x \in Nat
  BY <1>1 DEF Moved
<1>3. PICK h : h = [f EXCEPT ![a] = m]
  OBVIOUS
<1>4. SetTo(h, f, D, S, a, m) /\ SetTo(e, h, D, S, b, n) /\ h[b] = f[b]
  BY <1>1, <1>2, <1>3 DEF Moved, SetTo
<1>5. /\ SumFunctionOnSet(f, S) \in Nat
      /\ a \in S => SumFunctionOnSet(h, S) = SumFunctionOnSet(f, S) - f[a] + m
      /\ a \notin S => SumFunctionOnSet(h, S) = SumFunctionOnSet(f, S)
  BY <1>4, SumAfterUpdate
<1>6. /\ SumFunctionOnSet(h, S) \in Nat
      /\ b \in S => SumFunctionOnSet(e, S) = SumFunctionOnSet(h, S) - h[b] + n
      /\ b \notin S => SumFunctionOnSet(e, S) = SumFunctionOnSet(h, S)
  BY <1>4, SumAfterUpdate
<1> QED BY <1>1, <1>2, <1>4, <1>5, <1>6
============================================================================
