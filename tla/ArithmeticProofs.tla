--------------------------- MODULE ArithmeticProofs ---------------------------
(***************************************************************************)
(* The arithmetic the other proofs share.                                  *)
(*                                                                         *)
(* First, what the strategy and rcl agree on when they move a timer on,    *)
(* one in milliseconds and the other in ticks, for every resolution of the *)
(* clock, every period and however late they are: both add whole periods,  *)
(* none ends up in the past, and the strategy, which looks at the clock    *)
(* first, stays less than a period ahead of rcl; when both are late by no  *)
(* more than a period each of them adds one.                               *)
(*                                                                         *)
(* Second, the sums of the community modules, which fold the values of a   *)
(* function in an unspecified order: a sum of natural numbers is one,      *)
(* grows with its terms, and changes by as much as one of them changes.    *)
(***************************************************************************)
EXTENDS TimerArithmetic, Functions, FiniteSetTheorems, WellFoundedInduction,
        TLAPS

\* std::ceil of a quotient: the smallest number of periods that covers a.
LEMMA CeilDivFacts ==
  ASSUME NEW a \in Nat, NEW p \in Nat \ {0}
  PROVE  /\ CeilDiv(a, p) \in Nat
         /\ CeilDiv(a, p) * p >= a
         /\ CeilDiv(a, p) * p < a + p
<1> DEFINE q == (a + p - 1) \div p
<1>1. q \in Int /\ p * q <= a + p - 1 /\ a + p - 1 < p * q + p
  <2>1. a + p - 1 \in Int /\ p \in Int /\ p > 0
    OBVIOUS
  <2> QED BY <2>1
<1> HIDE DEF q
<1>2. p * q = q * p
  BY <1>1
<1>3. q >= 0
  <2>1. SUFFICES ASSUME q <= -1 PROVE FALSE
    BY <1>1
  <2>2. p * q <= -p
    BY <1>1, <2>1, SMT
  <2> QED BY <1>1, <2>2
<1>4. CeilDiv(a, p) = q
  BY DEF CeilDiv, q
<1> QED BY <1>1, <1>2, <1>3, <1>4

\* The strategy's step: at least one period on, to a release that is not in the
\* past, and not over one that is still to come.
LEMMA NextReleaseFacts ==
  ASSUME NEW p \in Nat \ {0}, NEW r \in Int, NEW t \in Int, r <= t
  PROVE  \E k \in Nat \ {0} :
           /\ NextRelease(r, t, p) = r + k * p
           /\ NextRelease(r, t, p) >= t
           /\ k = 1 \/ NextRelease(r, t, p) < t + p
<1>1. AbsDiff(t, r) = t - r /\ t - r \in Nat
  BY DEF AbsDiff
<1>2. CASE t - r < p
  <2>1. NextRelease(r, t, p) = r + p
    BY <1>1, <1>2 DEF NextRelease
  <2> QED BY <1>2, <2>1
<1>3. CASE t - r >= p
  <2> DEFINE k == CeilDiv(t - r, p)
  <2>1. k \in Nat /\ k * p >= t - r /\ k * p < t - r + p
    BY <1>1, CeilDivFacts
  <2>2. NextRelease(r, t, p) = r + k * p
    BY <1>1, <1>3 DEF NextRelease
  <2> HIDE DEF k
  <2>3. k # 0
    BY <1>3, <2>1
  <2> QED BY <2>1, <2>2, <2>3
<1> QED BY <1>1, <1>2, <1>3

\* rcl's step has the same bounds.
LEMMA NextCallFacts ==
  ASSUME NEW p \in Nat \ {0}, NEW n \in Nat, NEW t \in Nat
  PROVE  \E k \in Nat \ {0} :
           /\ NextCall(n, t, p) = n + k * p
           /\ NextCall(n, t, p) >= t
           /\ k = 1 \/ NextCall(n, t, p) < t + p
<1>1. CASE n + p >= t
  BY <1>1 DEF NextCall
<1>2. CASE n + p < t
  <2> DEFINE k == CeilDiv(t - (n + p), p)
  <2>1. t - (n + p) \in Nat
    BY <1>2
  <2>2. k \in Nat /\ k * p >= t - (n + p) /\ k * p < t - (n + p) + p
    BY <2>1, CeilDivFacts
  <2>3. NextCall(n, t, p) = n + p + k * p
    BY <1>2 DEF NextCall
  <2> HIDE DEF k
  <2>4. n + p + k * p = n + (k + 1) * p /\ k + 1 \in Nat \ {0}
    BY <2>2
  <2> QED BY <2>2, <2>3, <2>4
<1> QED BY <1>1, <1>2

\* A reading in milliseconds is the clock cut down.
LEMMA MillisFacts ==
  ASSUME NEW K \in Nat \ {0}, NEW t \in Int
  PROVE  /\ Millis(t, K) \in Int
         /\ Millis(t, K) * K <= t
         /\ t < Millis(t, K) * K + K
         /\ t >= 0 => Millis(t, K) >= 0
<1>1. t \div K \in Int /\ K * (t \div K) <= t /\ t < K * (t \div K) + K
  OBVIOUS
<1>2. t >= 0 => t \div K >= 0
  <2> DEFINE q == t \div K
  <2>1. q \in Int /\ t < K * q + K
    BY <1>1
  <2> HIDE DEF q
  <2>2. SUFFICES ASSUME t >= 0, q <= -1 PROVE FALSE
    BY <2>1 DEF q
  <2>3. K * q <= -K
    BY <2>1, <2>2
  <2> QED BY <2>1, <2>2, <2>3
<1> QED BY <1>1, <1>2 DEF Millis

\* Whole milliseconds before a time are before its reading.
LEMMA MillisOrder ==
  ASSUME NEW K \in Nat \ {0}, NEW r \in Int, NEW t \in Int, NEW k \in Int,
         r * K < t + k * K
  PROVE  r <= Millis(t, K) + k
<1> DEFINE q == Millis(t, K)
<1>1. q \in Int /\ t < q * K + K
  BY MillisFacts
<1> HIDE DEF q
<1>2. SUFFICES ASSUME r >= q + k + 1 PROVE FALSE
  BY <1>1 DEF q
<1>3. r * K >= (q + k + 1) * K
  BY <1>1, <1>2
<1>4. (q + k + 1) * K = q * K + k * K + K
  BY <1>1
<1>5. r * K \in Int /\ q * K \in Int /\ k * K \in Int
  BY <1>1
<1> QED BY <1>1, <1>3, <1>4, <1>5

\* Cutting a difference errs towards zero by less than a millisecond.
LEMMA TruncatedFacts ==
  ASSUME NEW K \in Nat \ {0}, NEW d \in Int
  PROVE  /\ Truncated(d, K) \in Int
         /\ d - Truncated(d, K) * K \in 1 - K .. K - 1
<1>1. CASE d >= 0
  <2>1. Truncated(d, K) = Millis(d, K)
    BY <1>1 DEF Truncated, Millis
  <2>2. Millis(d, K) \in Int /\ Millis(d, K) * K \in Int
    BY MillisFacts
  <2> QED BY <1>1, <2>1, <2>2, MillisFacts
<1>2. CASE d < 0
  <2>1. -d \in Int
    BY <1>2
  <2> DEFINE q == Millis(-d, K)
  <2>2. Truncated(d, K) = -q
    BY <1>2 DEF Truncated, Millis
  <2>3. q \in Int /\ q * K <= -d /\ -d < q * K + K
    BY <2>1, MillisFacts
  <2> HIDE DEF q
  <2>4. (-q) * K = -(q * K) /\ q * K \in Int
    BY <2>3
  <2> QED BY <1>2, <2>2, <2>3, <2>4
<1> QED BY <1>1, <1>2

\* The first release that is recorded is off by the time between the readings,
\* and by less than a millisecond for each of them.
LEMMA FirstReleaseFacts ==
  ASSUME NEW K \in Nat \ {0}, NEW n \in Int, NEW before \in Int, NEW after \in Int
  PROVE  /\ FirstRelease(n, before, after, K) \in Int
         /\ n - FirstRelease(n, before, after, K) * K
              \in (after - before) - (K - 1) .. (after - before) + 2 * (K - 1)
<1> DEFINE q == Millis(before, K)
           d == n - after
           k == Truncated(d, K)
<1>1. q \in Int /\ q * K <= before /\ before < q * K + K
  BY MillisFacts
<1>2. d \in Int /\ d = n - after
  OBVIOUS
<1>3. k \in Int /\ d - k * K \in 1 - K .. K - 1
  BY <1>2, TruncatedFacts, Zenon
<1>4. FirstRelease(n, before, after, K) = q + k
  BY DEF FirstRelease
<1> HIDE DEF q, d, k
<1>5. (q + k) * K = q * K + k * K /\ q * K \in Int /\ k * K \in Int
  BY <1>1, <1>3
<1> QED BY <1>1, <1>2, <1>3, <1>4, <1>5

-----------------------------------------------------------------------------
\* The strategy's step when the record is up to a period ahead, or behind by any
\* amount: whole periods on, not before the clock, and one period on if it goes
\* further than one past the clock.
LEMMA WholePeriods ==
  ASSUME NEW p \in Nat \ {0}, NEW r \in Int, NEW t \in Int, r <= t + p
  PROVE  \E k \in Nat \ {0} :
           /\ NextRelease(r, t, p) = r + k * p
           /\ NextRelease(r, t, p) >= t
           /\ k = 1 \/ NextRelease(r, t, p) < t + p
           /\ t <= r + p => k = 1
<1>one. CeilDiv(p, p) * p = p
  <2> DEFINE k == CeilDiv(p, p)
  <2>1. k \in Nat /\ k * p >= p /\ k * p < p + p
    BY CeilDivFacts
  <2> HIDE DEF k
  <2>2. SUFFICES k = 1
    BY DEF k
  <2>3. k # 0
    BY <2>1
  <2>4. SUFFICES ASSUME k >= 2 PROVE FALSE
    BY <2>1, <2>3
  <2>5. k * p >= 2 * p
    BY <2>1, <2>4
  <2> QED BY <2>1, <2>5
<1>1. CASE r <= t + p /\ t <= r + p
  <2>1. AbsDiff(t, r) \in Nat /\ AbsDiff(t, r) <= p
    BY <1>1 DEF AbsDiff
  <2>2. AbsDiff(t, r) = p => CeilDiv(AbsDiff(t, r), p) * p = p
    BY <1>one
  <2>3. NextRelease(r, t, p) = r + p
    BY <2>1, <2>2 DEF NextRelease
  <2> QED BY <1>1, <2>3
<1>2. CASE t > r + p
  <2>1. r <= t /\ ~(t <= r + p)
    BY <1>2
  <2>2. PICK k \in Nat \ {0} :
          /\ NextRelease(r, t, p) = r + k * p
          /\ NextRelease(r, t, p) >= t
          /\ k = 1 \/ NextRelease(r, t, p) < t + p
    BY <2>1, NextReleaseFacts, Zenon
  <2> QED BY <2>1, <2>2, Zenon
<1> QED BY <1>1, <1>2

\* A record less than a period ahead of the timer is, after the strategy's step,
\* less than a period ahead of what rcl's step will make of the timer.
LEMMA RecordAfterDispatch ==
  ASSUME NEW K \in Nat \ {0}, NEW p \in Nat \ {0}, NEW r \in Int,
         NEW n \in Nat, NEW now \in Nat, n <= now, r * K < n + p * K,
         NEW next, next = NextRelease(r, Millis(now, K), p)
  PROVE  /\ next \in Int /\ next >= Millis(now, K) /\ next >= r + p
         /\ next * K < n + 2 * (p * K) \/ next * K < now + p * K
         /\ Millis(now, K) <= r + p => next = r + p
<1> DEFINE t == Millis(now, K)
<1>1. t \in Nat /\ t * K <= now
  BY MillisFacts
<1>2. p * K \in Nat /\ r * K \in Int
  OBVIOUS
<1>3. r <= t + p
  <2>1. r * K < now + p * K
    BY <1>2
  <2>2. now \in Int /\ p \in Int
    OBVIOUS
  <2> QED BY <2>1, <2>2, MillisOrder, Zenon
<1> HIDE DEF t
<1>4. PICK k \in Nat \ {0} :
        /\ next = r + k * p
        /\ next >= t
        /\ k = 1 \/ next < t + p
        /\ t <= r + p => k = 1
  <2>1. \E k \in Nat \ {0} :
          /\ NextRelease(r, t, p) = r + k * p
          /\ NextRelease(r, t, p) >= t
          /\ k = 1 \/ NextRelease(r, t, p) < t + p
          /\ t <= r + p => k = 1
    <3>1. t \in Int
      BY <1>1
    <3> QED BY <1>3, <3>1, WholePeriods, Zenon
  <2> QED BY <2>1 DEF t
<1>5. next \in Int /\ next >= r + p
  <2>1. k * p >= p /\ k * p \in Nat
    BY <1>4
  <2> QED BY <1>4, <2>1
<1>6. CASE k = 1
  <2>1. next * K = r * K + p * K
    BY <1>4, <1>6
  <2> QED BY <1>2, <1>4, <1>5, <1>6, <2>1 DEF t
<1>7. CASE next < t + p
  <2>1. next * K < (t + p) * K
    BY <1>1, <1>5, <1>7
  <2>2. (t + p) * K = t * K + p * K /\ t * K \in Int /\ next * K \in Int
    BY <1>1, <1>5
  <2>3. next * K < now + p * K
    BY <1>1, <1>2, <2>1, <2>2
  <2>4. t <= r + p => next = r + p
    BY <1>4
  <2> QED BY <1>4, <1>5, <2>3, <2>4 DEF t
<1> QED BY <1>4, <1>6, <1>7

\* And rcl's step makes good for it.
LEMMA RecordAfterCall ==
  ASSUME NEW q \in Nat \ {0}, NEW n \in Nat, NEW now \in Nat, NEW x \in Int,
         x < n + 2 * q \/ x < now + q,
         NEW next, next = NextCall(n, now, q)
  PROVE  /\ next \in Nat /\ next >= n + q /\ next >= now
         /\ x < next + q
         /\ now <= n + q => next = n + q
<1>1. PICK k \in Nat \ {0} : next = n + k * q /\ next >= now
  BY NextCallFacts
<1>2. k * q >= q /\ k * q \in Nat
  BY <1>1
<1>3. now <= n + q => next = n + q
  BY DEF NextCall
<1> QED BY <1>1, <1>2, <1>3

-----------------------------------------------------------------------------
\* A set of numbers has a least one.
LEMMA LeastFacts ==
  ASSUME NEW K \in SUBSET Nat, K # {}
  PROVE  \E x \in K : \A y \in K : x <= y
<1> DEFINE R == OpToRel(<, Nat)
<1>1. IsWellFoundedOn(R, Nat)
  BY NatLessThanWellFounded
<1>2. R = {ss \in Nat \X Nat : ss[1] < ss[2]}
  BY DEF OpToRel
<1> HIDE DEF R
<1>3. PICK x \in K : \A y \in K : ~ (<<y, x>> \in R)
  BY <1>1, WFMin
<1>4. ASSUME NEW y \in K PROVE x <= y
  <2>1. <<y, x>> \in Nat \X Nat /\ ~(<<y, x>> \in R)
    BY <1>3
  <2>2. ~(y < x)
    BY <1>2, <2>1
  <2> QED BY <2>2
<1> QED BY <1>4

\* A set of subsets of a finite set has one that no element can be taken from.
LEMMA SmallestSubset ==
  ASSUME NEW S, IsFiniteSet(S), NEW B \in SUBSET SUBSET S, B # {}
  PROVE  \E s \in B : \A x \in s : s \ {x} \notin B
<1> DEFINE sizes == {Cardinality(s) : s \in B}
<1>1. \A s \in B : IsFiniteSet(s) /\ Cardinality(s) \in Nat
  BY FS_Subset, FS_CardinalityType
<1>2. sizes \in SUBSET Nat /\ sizes # {}
  BY <1>1
<1>3. PICK n \in sizes : \A m \in sizes : n <= m
  BY <1>2, LeastFacts
<1>4. PICK s \in B : Cardinality(s) = n
  BY <1>3
<1>5. ASSUME NEW x \in s, s \ {x} \in B PROVE FALSE
  <2>1. Cardinality(s \ {x}) = Cardinality(s) - 1
    BY <1>1, <1>5, FS_RemoveElement
  <2>2. n <= Cardinality(s \ {x})
    BY <1>3, <1>5
  <2> QED BY <1>1, <1>4, <2>1, <2>2
<1> QED BY <1>5

\* The element a sum starts with, and what the sums of the subsets of S are.
First(s) == CHOOSE x \in s : TRUE

Sums(g, f, S) ==
  g = [s \in SUBSET S |-> IF s = {} THEN 0 ELSE f[First(s)] + g[s \ {First(s)}]]

\* There are such sums: those of the subsets with up to n elements give those
\* of the subsets with one more.
LEMMA SumsExist ==
  ASSUME NEW S, IsFiniteSet(S), NEW f
  PROVE  \E g : Sums(g, f, S)
<1> DEFINE Upto(n) == {s \in SUBSET S : Cardinality(s) <= n}
           Step(g, n) ==
             [s \in Upto(n) |-> IF s = {} THEN 0
                                ELSE f[First(s)] + g[s \ {First(s)}]]
           Missing == {n \in Nat : ~ \E g : g = Step(g, n)}
<1>1. \A s \in SUBSET S : IsFiniteSet(s) /\ Cardinality(s) \in Nat
  BY FS_Subset, FS_CardinalityType
<1>2. ASSUME NEW s \in SUBSET S, s # {}
      PROVE  /\ First(s) \in s
             /\ s \ {First(s)} \in SUBSET S
             /\ Cardinality(s \ {First(s)}) = Cardinality(s) - 1
  <2>1. First(s) \in s
    BY <1>2 DEF First
  <2> QED BY <1>1, <2>1, FS_RemoveElement
<1>3. Missing = {}
  <2> SUFFICES ASSUME Missing # {} PROVE FALSE
    OBVIOUS
  <2> HIDE DEF Missing
  <2>1. Missing \in SUBSET Nat
    BY DEF Missing
  <2>2. PICK n \in Missing : n \in Nat /\ \A m \in Missing : n <= m
    BY <2>1, LeastFacts
  <2>3. ~ \E g : g = Step(g, n)
    BY <2>2 DEF Missing
  <2>4. CASE n = 0
    <3> DEFINE g == [s \in Upto(0) |-> 0]
    <3>1. \A s \in Upto(0) : s = {}
      BY <1>1, FS_EmptySet
    <3>2. g = Step(g, 0)
      BY <3>1
    <3> QED BY <2>3, <2>4, <3>2
  <2>5. CASE n # 0
    <3>1. n - 1 \in Nat /\ n - 1 \notin Missing
      BY <2>2, <2>5
    <3>2. PICK g : g = Step(g, n - 1)
      BY <3>1 DEF Missing
    <3> DEFINE h == Step(g, n)
    <3>3. ASSUME NEW s \in Upto(n - 1) PROVE s \in Upto(n) /\ h[s] = g[s]
      <4>1. s \in Upto(n)
        BY <1>1, <2>2
      <4>2. g[s] = IF s = {} THEN 0 ELSE f[First(s)] + g[s \ {First(s)}]
        BY <3>2
      <4> QED BY <4>1, <4>2
    <3>4. ASSUME NEW s \in Upto(n), s # {}
          PROVE  h[s \ {First(s)}] = g[s \ {First(s)}]
      <4>1. s \ {First(s)} \in Upto(n - 1)
        BY <1>1, <1>2, <2>2, <3>4
      <4> QED BY <3>3, <4>1
    <3>5. h = Step(h, n)
      BY <3>4
    <3> QED BY <2>3, <3>5
  <2> QED BY <2>4, <2>5
<1>4. Cardinality(S) \in Nat /\ Upto(Cardinality(S)) = SUBSET S
  BY FS_Subset, FS_CardinalityType
<1>5. PICK g : g = Step(g, Cardinality(S))
  BY <1>3, <1>4
<1> HIDE DEF Missing
<1>6. Sums(g, f, S)
  BY <1>4, <1>5 DEF Sums
<1> QED BY <1>6

\* They count up to the library's sum.
SumsUpTo(g, f, S) ==
  /\ g \in [SUBSET S -> Nat]
  /\ SumFunction(f) = g[S]
  /\ g[{}] = 0
  /\ \A s \in SUBSET S : s # {} =>
       /\ First(s) \in s /\ s \ {First(s)} \in SUBSET S
       /\ g[s] = f[First(s)] + g[s \ {First(s)}]

LEMMA SumFacts ==
  ASSUME NEW S, IsFiniteSet(S), NEW f \in [S -> Nat]
  PROVE  \E g : SumsUpTo(g, f, S)
<1> DEFINE g == CHOOSE h : Sums(h, f, S)
<1>1. Sums(g, f, S)
  BY SumsExist
<1>2. SumFunction(f) = g[S]
  <2>1. DOMAIN f = S
    OBVIOUS
  <2> QED BY <2>1 DEF SumFunction, SumFunctionOnSet, FoldFunctionOnSet,
                      MapThenFoldSet, Sums, First
<1> HIDE DEF g
<1>3. /\ g[{}] = 0
      /\ \A s \in SUBSET S : s # {} =>
           g[s] = f[First(s)] + g[s \ {First(s)}]
  BY <1>1 DEF Sums
<1>4. \A s \in SUBSET S : s # {} =>
        First(s) \in s /\ s \ {First(s)} \in SUBSET S
  BY DEF First
<1>5. \A s \in SUBSET S : g[s] \in Nat
  <2> DEFINE B == {s \in SUBSET S : g[s] \notin Nat}
  <2> SUFFICES ASSUME B # {} PROVE FALSE
    OBVIOUS
  <2>1. PICK s \in B : \A x \in s : s \ {x} \notin B
    BY SmallestSubset
  <2>2. s \in SUBSET S /\ g[s] \notin Nat
    BY <2>1
  <2>3. s # {}
    <3>1. g[{}] \in Nat
      BY <1>3
    <3> QED BY <2>2, <3>1
  <2>4. /\ First(s) \in s /\ s \ {First(s)} \in SUBSET S
        /\ s \ {First(s)} \notin B
    BY <1>4, <2>1, <2>2, <2>3
  <2>5. g[s \ {First(s)}] \in Nat /\ f[First(s)] \in Nat
    BY <2>2, <2>4
  <2>6. g[s] = f[First(s)] + g[s \ {First(s)}]
    BY <1>3, <2>2, <2>3
  <2> QED BY <2>2, <2>5, <2>6
<1>6. g \in [SUBSET S -> Nat]
  <2>1. g = [s \in SUBSET S |-> g[s]]
    BY <1>1 DEF Sums
  <2> QED BY <1>5, <2>1
<1> QED BY <1>2, <1>3, <1>4, <1>6 DEF SumsUpTo

\* A sum of natural numbers is one.
LEMMA SumType ==
  ASSUME NEW S, IsFiniteSet(S), NEW f \in [S -> Nat]
  PROVE  SumFunction(f) \in Nat
<1>1. PICK F : SumsUpTo(F, f, S)
  BY SumFacts
<1> QED BY <1>1 DEF SumsUpTo

\* A sum with larger terms is larger.
LEMMA SumGrows ==
  ASSUME NEW S, IsFiniteSet(S), NEW f \in [S -> Nat], NEW h \in [S -> Nat],
         \A x \in S : f[x] <= h[x]
  PROVE  SumFunction(f) <= SumFunction(h)
<1>1. PICK F : SumsUpTo(F, f, S)
  BY SumFacts
<1>2. PICK H : SumsUpTo(H, h, S)
  BY SumFacts
<1> DEFINE B == {s \in SUBSET S : ~(F[s] <= H[s])}
<1>3. SUFFICES ASSUME B # {} PROVE FALSE
  BY <1>1, <1>2 DEF SumsUpTo
<1>4. PICK s \in B : \A x \in s : s \ {x} \notin B
  BY <1>3, SmallestSubset
<1>5. s \in SUBSET S /\ ~(F[s] <= H[s]) /\ s # {}
  <2>1. F[{}] = 0 /\ H[{}] = 0
    BY <1>1, <1>2 DEF SumsUpTo
  <2>2. s \in SUBSET S /\ ~(F[s] <= H[s])
    BY <1>4
  <2>3. s # {}
    BY <2>1, <2>2
  <2> QED BY <2>2, <2>3
<1> DEFINE x == First(s)
           r == s \ {First(s)}
<1>6. /\ x \in S /\ r \in SUBSET S /\ r \notin B
      /\ F[s] = f[x] + F[r] /\ H[s] = h[x] + H[r]
  BY <1>1, <1>2, <1>4, <1>5 DEF SumsUpTo
<1> HIDE DEF x, r
<1>7. F[r] <= H[r] /\ f[x] <= h[x]
  BY <1>6
<1>8. F[r] \in Nat /\ H[r] \in Nat /\ f[x] \in Nat /\ h[x] \in Nat
  BY <1>1, <1>2, <1>6 DEF SumsUpTo
<1> QED BY <1>5, <1>6, <1>7, <1>8

\* A sum of zeros is zero.
LEMMA SumOfZeros ==
  ASSUME NEW S, IsFiniteSet(S), NEW f \in [S -> Nat], \A x \in S : f[x] = 0
  PROVE  SumFunction(f) = 0
<1>1. PICK F : SumsUpTo(F, f, S)
  BY SumFacts
<1> DEFINE B == {s \in SUBSET S : F[s] # 0}
<1>2. SUFFICES ASSUME B # {} PROVE FALSE
  BY <1>1 DEF SumsUpTo
<1>3. PICK s \in B : \A x \in s : s \ {x} \notin B
  BY <1>2, SmallestSubset
<1>4. s \in SUBSET S /\ F[s] # 0 /\ s # {}
  <2>1. F[{}] = 0
    BY <1>1 DEF SumsUpTo
  <2> QED BY <1>3, <2>1
<1>5. /\ First(s) \in S /\ F[s \ {First(s)}] = 0
      /\ F[s] = f[First(s)] + F[s \ {First(s)}]
  BY <1>1, <1>3, <1>4 DEF SumsUpTo
<1> QED BY <1>4, <1>5

\* When one term changes the sum changes as much.
LEMMA SumChange ==
  ASSUME NEW S, IsFiniteSet(S), NEW f \in [S -> Nat], NEW h \in [S -> Nat],
         NEW x \in S, \A y \in S \ {x} : h[y] = f[y]
  PROVE  SumFunction(h) = SumFunction(f) + h[x] - f[x]
<1>1. PICK F : SumsUpTo(F, f, S)
  BY SumFacts
<1>2. PICK H : SumsUpTo(H, h, S)
  BY SumFacts
<1> DEFINE d(s) == IF x \in s THEN h[x] - f[x] ELSE 0
           B == {s \in SUBSET S : H[s] # F[s] + d(s)}
<1>3. SUFFICES ASSUME B # {} PROVE FALSE
  <2>1. S \notin B => H[S] = F[S] + (h[x] - f[x])
    OBVIOUS
  <2>2. H[S] \in Nat /\ F[S] \in Nat /\ h[x] \in Nat /\ f[x] \in Nat
    BY <1>1, <1>2 DEF SumsUpTo
  <2> QED BY <1>1, <1>2, <2>1, <2>2 DEF SumsUpTo
<1>4. PICK s \in B : \A y \in s : s \ {y} \notin B
  BY <1>3, SmallestSubset
<1>5. s \in SUBSET S /\ H[s] # F[s] + d(s) /\ s # {}
  <2>1. F[{}] = 0 /\ H[{}] = 0 /\ d({}) = 0
    BY <1>1, <1>2 DEF SumsUpTo
  <2> HIDE DEF d
  <2>2. s \in SUBSET S /\ H[s] # F[s] + d(s)
    BY <1>4
  <2>3. s # {}
    BY <2>1, <2>2
  <2> QED BY <2>2, <2>3
<1> DEFINE y == First(s)
           r == s \ {First(s)}
<1>6. /\ y \in s /\ y \in S /\ r \in SUBSET S /\ r \notin B /\ r = s \ {y}
      /\ F[s] = f[y] + F[r] /\ H[s] = h[y] + H[r]
  BY <1>1, <1>2, <1>4, <1>5 DEF SumsUpTo
<1> HIDE DEF y, r
<1>7. H[r] = F[r] + d(r)
  BY <1>6
<1>8. /\ F[r] \in Nat /\ H[r] \in Nat /\ f[y] \in Nat /\ h[y] \in Nat
      /\ f[x] \in Nat /\ h[x] \in Nat
  BY <1>1, <1>2, <1>6 DEF SumsUpTo
<1>9. CASE y = x
  <2>1. d(r) = 0 /\ d(s) = h[x] - f[x]
    BY <1>6, <1>9
  <2> QED BY <1>5, <1>6, <1>7, <1>8, <1>9, <2>1
<1>10. CASE y # x
  <2>1. d(r) = d(s) /\ h[y] = f[y] /\ d(s) \in Int
    BY <1>6, <1>8, <1>10
  <2> HIDE DEF d
  <2> QED BY <1>5, <1>6, <1>7, <1>8, <2>1
<1> QED BY <1>9, <1>10

\* No term is larger than the sum.
LEMMA SumCovers ==
  ASSUME NEW S, IsFiniteSet(S), NEW f \in [S -> Nat], NEW x \in S
  PROVE  f[x] <= SumFunction(f)
<1> DEFINE h == [f EXCEPT ![x] = 0]
<1>1. h \in [S -> Nat] /\ h[x] = 0 /\ \A y \in S \ {x} : h[y] = f[y]
  OBVIOUS
<1> HIDE DEF h
<1>2. SumFunction(h) = SumFunction(f) + h[x] - f[x]
  BY <1>1, SumChange
<1>3. SumFunction(h) \in Nat /\ SumFunction(f) \in Nat /\ f[x] \in Nat
  BY <1>1, SumType
<1> QED BY <1>1, <1>2, <1>3
===============================================================================
