--------------------------- MODULE ResponseTimeProofs --------------------------
(***************************************************************************)
(* For every workload whose numbers are small beside the unsigned ones:    *)
(* no gap the search comes to is larger than LongestGap, so no sum wraps,  *)
(* and where the difference in theorem_1.cpp:55 does, it takes a whole run *)
(* of the chain.  So the demand computed is never less than the intended   *)
(* one, and no less than what the chain itself needs: a bound that is      *)
(* found is no shorter than the chain.                                     *)
(***************************************************************************)
EXTENDS ResponseTime, ArithmeticProofs

-----------------------------------------------------------------------------
(***************************************************************************)
(* Quotients, products and differences.                                    *)
(***************************************************************************)
LEMMA ProductFacts ==
  ASSUME NEW a \in Nat, NEW b \in Nat, NEW r \in Nat
  PROVE  /\ a * r \in Nat
         /\ a <= b => a * r <= b * r
         /\ a >= 1 => r <= a * r
<1>1. ASSUME NEW x \in Nat PROVE x * r \in Nat
  BY <1>1
<1>2. ASSUME a <= b PROVE a * r <= b * r
  <2> DEFINE d == b - a
  <2>1. d \in Nat /\ b = a + d
    BY <1>2
  <2> HIDE DEF d
  <2>2. b * r = a * r + d * r
    BY <2>1
  <2>3. d * r \in Nat /\ a * r \in Nat
    BY <1>1, <2>1
  <2> QED BY <2>2, <2>3
<1>3. ASSUME a >= 1 PROVE r <= a * r
  <2> DEFINE d == a - 1
  <2>1. d \in Nat /\ a = d + 1
    BY <1>3
  <2> HIDE DEF d
  <2>2. a * r = d * r + r /\ d * r \in Nat
    BY <1>1, <2>1
  <2> QED BY <2>2
<1> QED BY <1>1, <1>2, <1>3

\* A quotient, rounded down and up.
LEMMA QuotientFacts ==
  ASSUME NEW a \in Nat, NEW b \in Nat, NEW p \in Nat \ {0}
  PROVE  /\ a \div p \in Nat /\ a \div p <= CeilDiv(a, p)
         /\ a \div p <= a /\ (a \div p) * p <= a
         /\ a <= b => CeilDiv(a, p) <= CeilDiv(b, p)
         /\ a >= 1 => (a - 1) \div p + 1 = CeilDiv(a, p) /\ CeilDiv(a, p) >= 1
<1>1. ASSUME NEW x \in Nat
      PROVE  x \div p \in Nat /\ p * (x \div p) <= x /\ x < p * (x \div p) + p
  BY <1>1
<1>2. ASSUME NEW x \in Nat, NEW y \in Nat, x <= y
      PROVE  x \div p <= y \div p
  <2> DEFINE k == x \div p
             l == y \div p
  <2>1. k \in Nat /\ l \in Nat /\ p * k <= x /\ y < p * l + p
    BY <1>1
  <2> HIDE DEF k, l
  <2>2. SUFFICES ASSUME k >= l + 1 PROVE FALSE
    BY <2>1 DEF k, l
  <2>3. (l + 1) * p <= k * p
    BY <2>1, <2>2, ProductFacts
  <2>4. (l + 1) * p = p * l + p /\ k * p = p * k
    BY <2>1
  <2> QED BY <1>2, <2>1, <2>3, <2>4
<1>3. ASSUME NEW x \in Nat
      PROVE  CeilDiv(x, p) = (x + p - 1) \div p /\ x + p - 1 \in Nat
  BY DEF CeilDiv
<1>4. a \div p <= CeilDiv(a, p)
  <2>1. a <= a + p - 1
    OBVIOUS
  <2> QED BY <1>2, <1>3, <2>1
<1>5. a <= b => CeilDiv(a, p) <= CeilDiv(b, p)
  <2>1. a <= b => a + p - 1 <= b + p - 1
    OBVIOUS
  <2> QED BY <1>2, <1>3, <2>1
<1>6. ASSUME a >= 1 PROVE (a - 1) \div p + 1 = CeilDiv(a, p) /\ CeilDiv(a, p) >= 1
  <2> DEFINE k == (a - 1) \div p
  <2>1. a - 1 \in Nat
    BY <1>6
  <2>2. k \in Nat /\ p * k <= a - 1 /\ a - 1 < p * k + p
    BY <1>1, <2>1
  <2> DEFINE l == (a + p - 1) \div p
  <2>3. l \in Nat /\ p * l <= a + p - 1 /\ a + p - 1 < p * l + p
    BY <1>1, <1>3
  <2> HIDE DEF k, l
  <2>4. (k + 1) * p = p * k + p /\ (k + 2) * p = p * k + p + p
        /\ l * p = p * l /\ (l + 1) * p = p * l + p
    BY <2>2, <2>3
  <2>5. ~(l >= k + 2)
    <3>1. l >= k + 2 => (k + 2) * p <= l * p
      BY <2>2, <2>3, ProductFacts
    <3> QED BY <2>2, <2>3, <2>4, <3>1
  <2>6. ~(k + 1 >= l + 1)
    <3>1. k + 1 >= l + 1 => (l + 1) * p <= (k + 1) * p
      BY <2>2, <2>3, ProductFacts
    <3> QED BY <2>2, <2>3, <2>4, <3>1
  <2>7. k + 1 = l /\ l >= 1
    BY <2>2, <2>3, <2>5, <2>6
  <2> QED BY <1>3, <2>7 DEF k, l
<1>7. a \div p <= a /\ (a \div p) * p <= a
  <2> DEFINE k == a \div p
  <2>1. k \in Nat /\ p * k <= a
    BY <1>1
  <2> HIDE DEF k
  <2>2. k * p = p * k /\ k * 1 = k /\ p * k >= 1 * k
    BY <2>1, ProductFacts
  <2> QED BY <2>1, <2>2 DEF k
<1> QED BY <1>1, <1>4, <1>5, <1>6, <1>7

\* The unsigned difference, which wraps when it is negative.
LEMMA MinusFacts ==
  ASSUME NEW a \in Nat, NEW b \in Nat, a < Wrap
  PROVE  /\ b <= a => Minus(a, b) = a - b
         /\ a < b /\ b <= Wrap => Minus(a, b) = Wrap + a - b
         /\ Minus(a, b) \in Nat
<1>1. Wrap \in Nat \ {0}
  BY ResponseAssumption
<1>2. ASSUME a < b, b <= Wrap PROVE (a - b) % Wrap = Wrap + a - b
  BY <1>1, <1>2
<1> QED BY <1>1, <1>2 DEF Minus

LEMMA LeastIsLess ==
  ASSUME NEW a \in Nat, NEW b \in Nat
  PROVE  Least(a, b) \in Nat /\ Least(a, b) <= a /\ Least(a, b) <= b
         /\ (Least(a, b) = a \/ Least(a, b) = b)
BY DEF Least

-----------------------------------------------------------------------------
(***************************************************************************)
(* What the tables hold.                                                   *)
(***************************************************************************)
Tables == program \in Programs /\ workload \in Workloads[program]

LEMMA ChainFacts ==
  ASSUME Tables
  PROVE  /\ workload.threads \in Nat \ {0}
         /\ Len(workload.runtimes) \in Nat \ {0}
         /\ Chains = 1 .. Len(workload.runtimes)
         /\ IsFiniteSet(Chains)
         /\ \A i \in Chains :
              /\ Period(i) \in Nat \ {0} /\ Deadline(i) \in Nat \ {0}
              /\ Urgent(i) \subseteq Chains /\ IsFiniteSet(Urgent(i))
              /\ \A j \in Urgent(i) : Deadline(j) < Deadline(i)
<1>1. /\ workload.threads \in Nat \ {0}
      /\ workload.runtimes \in Seq(Seq(Nat \ {0})) /\ workload.runtimes # <<>>
      /\ workload.periods \in [DOMAIN workload.runtimes -> Nat \ {0}]
      /\ workload.deadlines \in [DOMAIN workload.runtimes -> Nat \ {0}]
  BY ResponseAssumption DEF Tables
<1>2. /\ Len(workload.runtimes) \in Nat \ {0}
      /\ DOMAIN workload.runtimes = 1 .. Len(workload.runtimes)
  BY <1>1
<1>3. IsFiniteSet(1 .. Len(workload.runtimes))
  BY <1>2, FS_Interval
<1>4. \A i \in Chains : Urgent(i) \subseteq Chains
  BY DEF Urgent, UrgentIn, Chains
<1>5. \A i \in Chains : \A j \in Urgent(i) : Deadline(j) < Deadline(i)
  BY DEF Urgent, UrgentIn, Deadline
<1>6. \A i \in Chains : IsFiniteSet(Urgent(i))
  BY <1>2, <1>3, <1>4, FS_Subset DEF Chains
<1> QED BY <1>1, <1>2, <1>3, <1>4, <1>5, <1>6 DEF Chains, Period, Deadline

LEMMA RuntimeFacts ==
  ASSUME Tables, NEW c \in Chains
  PROVE  /\ Runtime(c) \in Nat \ {0} /\ LastRuntime(c) \in Nat \ {0}
         /\ LastRuntime(c) <= Runtime(c)
<1> DEFINE s == workload.runtimes[c]
<1>1. s \in Seq(Nat \ {0}) /\ s # <<>>
  <2>1. /\ workload.runtimes \in Seq(Seq(Nat \ {0}))
        /\ \A d \in DOMAIN workload.runtimes : workload.runtimes[d] # <<>>
    BY ResponseAssumption DEF Tables
  <2> QED BY <2>1 DEF Chains
<1>2. Runtime(c) = SumFunction(s) /\ LastRuntime(c) = s[Len(s)]
  BY DEF Runtime, RuntimeIn, LastRuntime, LastRuntimeIn
<1> HIDE DEF s
<1>3. /\ Len(s) \in Nat \ {0} /\ s \in [1 .. Len(s) -> Nat]
      /\ Len(s) \in 1 .. Len(s) /\ s[Len(s)] \in Nat \ {0}
  BY <1>1
<1>4. IsFiniteSet(1 .. Len(s))
  BY <1>3, FS_Interval
<1>5. SumFunction(s) \in Nat /\ s[Len(s)] <= SumFunction(s)
  BY <1>3, <1>4, SumType, SumCovers
<1> QED BY <1>2, <1>3, <1>5

\* What the assumptions on the numbers say of the chain that is looked at.
MostUrgent(i, j) == (CeilDiv(Deadline(i), Period(j)) + 1) * Runtime(j)
MostOther(k) == CeilDiv(Deadline(k), Period(k)) * Runtime(k)

LEMMA MostFacts ==
  ASSUME Tables, NEW i \in Chains
  PROVE  /\ \A j \in Urgent(i) : MostUrgent(i, j) \in Nat
         /\ \A k \in Chains : MostOther(k) \in Nat
         /\ MostDemand(workload, i)
              = workload.threads * Runtime(i)
                + SumFunction([j \in Urgent(i) |-> MostUrgent(i, j)])
                + SumFunction([k \in Chains |-> MostOther(k)])
         /\ MostDemand(workload, i) \in Nat
<1>1. ASSUME NEW j \in Chains, NEW k \in Chains
      PROVE  /\ (CeilDiv(Deadline(k), Period(j)) + 1) * Runtime(j) \in Nat
             /\ CeilDiv(Deadline(k), Period(j)) * Runtime(j) \in Nat
  <2>1. CeilDiv(Deadline(k), Period(j)) \in Nat /\ Runtime(j) \in Nat
    BY ChainFacts, RuntimeFacts, CeilDivFacts
  <2>2. CeilDiv(Deadline(k), Period(j)) + 1 \in Nat
    BY <2>1
  <2> QED BY <2>1, <2>2, ProductFacts
<1>2. \A j \in Urgent(i) : MostUrgent(i, j) \in Nat
  BY <1>1, ChainFacts DEF MostUrgent
<1>3. \A k \in Chains : MostOther(k) \in Nat
  BY <1>1 DEF MostOther
<1> DEFINE f == [j \in Urgent(i) |-> MostUrgent(i, j)]
           h == [k \in Chains |-> MostOther(k)]
<1>4. MostDemand(workload, i)
        = workload.threads * Runtime(i) + SumFunction(f) + SumFunction(h)
  BY DEF MostDemand, MostUrgent, MostOther, Urgent, Runtime, Deadline, Period,
         Chains
<1>5. f \in [Urgent(i) -> Nat] /\ h \in [Chains -> Nat]
  BY <1>2, <1>3
<1> HIDE DEF f, h
<1>6. SumFunction(f) \in Nat /\ SumFunction(h) \in Nat
  BY <1>5, ChainFacts, SumType
<1>7. workload.threads * Runtime(i) \in Nat
  BY ChainFacts, RuntimeFacts, ProductFacts
<1> QED BY <1>2, <1>3, <1>4, <1>6, <1>7 DEF f, h

LEMMA LongestFacts ==
  ASSUME Tables, NEW i \in Chains
  PROVE  /\ Wrap \in Nat
         /\ LongestGap(workload, i) \in Nat \ {0}
         /\ \A g \in Nat : workload.threads * g <= MostDemand(workload, i)
              => g < LongestGap(workload, i)
         /\ MostDemand(workload, i) < Wrap /\ Deadline(i) < Wrap
         /\ LongestGap(workload, i) + Runtime(i) < Wrap
         /\ program = 1 => LongestGap(workload, i) + Runtime(i) < UintWrap
         /\ \A j \in Urgent(i) : Deadline(i) * Period(j) + Runtime(j) <= Wrap
         /\ program = 1 => \A j \in Urgent(i) :
              (Deadline(i) - Deadline(j)) * Period(j) > LongestGap(workload, i)
<1> DEFINE m == MostDemand(workload, i)
           t == workload.threads
           l == m \div t
<1>1. m \in Nat /\ t \in Nat \ {0}
  BY MostFacts, ChainFacts
<1>2. l \in Nat /\ t * l <= m /\ m < t * l + t
  <2> HIDE DEF m, t
  <2> QED BY <1>1
<1>3. LongestGap(workload, i) = l + 1
  BY DEF LongestGap
<1>4. ASSUME NEW g \in Nat, t * g <= m
      PROVE  g < l + 1
  <2> HIDE DEF m, t, l
  <2>1. SUFFICES ASSUME g >= l + 1 PROVE FALSE
    BY <1>1, <1>2
  <2>2. (l + 1) * t <= g * t
    BY <1>1, <1>2, <2>1, ProductFacts
  <2>3. (l + 1) * t = t * l + t /\ g * t = t * g
    BY <1>1, <1>2
  <2> QED BY <1>1, <1>2, <1>4, <2>2, <2>3
<1>5. /\ MostDemand(workload, i) < Wrap /\ Deadline(i) < Wrap
      /\ LongestGap(workload, i) + Runtime(i)
           < (IF program = 1 THEN UintWrap ELSE Wrap)
      /\ UintWrap \in 1 .. Wrap
      /\ \A j \in Urgent(i) : Deadline(i) * Period(j) + Runtime(j) <= Wrap
  BY WordAssumption, ResponseAssumption
     DEF Tables, Chains, Runtime, Urgent, Deadline, Period
<1>6. program = 1 => \A j \in Urgent(i) :
        (Deadline(i) - Deadline(j)) * Period(j) > LongestGap(workload, i)
  BY WindowAssumption DEF Tables, Chains, Urgent, Deadline, Period
<1>7. Runtime(i) \in Nat /\ Wrap \in Nat \ {0}
  BY RuntimeFacts, ResponseAssumption
<1> HIDE DEF m, t, l
<1>8. LongestGap(workload, i) \in Nat \ {0}
  BY <1>2, <1>3
<1>9. /\ LongestGap(workload, i) + Runtime(i) < Wrap
      /\ program = 1 => LongestGap(workload, i) + Runtime(i) < UintWrap
  BY <1>5, <1>7, <1>8
<1>10. \A g \in Nat : t * g <= m => g < LongestGap(workload, i)
  BY <1>3, <1>4
<1> QED BY <1>5, <1>6, <1>7, <1>8, <1>9, <1>10 DEF m, t

-----------------------------------------------------------------------------
(***************************************************************************)
(* The demand of one chain in a gap.                                       *)
(***************************************************************************)
LEMMA WindowFacts ==
  ASSUME Tables, NEW i \in Chains, NEW j \in Urgent(i), NEW g \in Nat
  PROVE  /\ Window(i, j, g) \in Nat /\ Window(i, j, g) <= g
         /\ Window(i, j, g) <= Deadline(i)
         /\ g >= 1 => Window(i, j, g) >= 1
         /\ Window(i, j, g) = g \/ Window(i, j, g) = Deadline(i) - Deadline(j)
<1>1. /\ Deadline(i) \in Nat /\ Deadline(j) \in Nat \ {0}
      /\ Deadline(j) < Deadline(i)
  BY ChainFacts
<1>2. Deadline(i) - Deadline(j) \in Nat \ {0}
      /\ Deadline(i) - Deadline(j) <= Deadline(i)
  BY <1>1
<1> DEFINE d == Deadline(i) - Deadline(j)
<1>3. Window(i, j, g) = Least(g, d)
  BY DEF Window
<1>4. d \in Nat \ {0} /\ d <= Deadline(i)
  BY <1>2
<1> HIDE DEF d
<1>5. Least(g, d) \in Nat /\ Least(g, d) <= g /\ Least(g, d) <= d
      /\ (Least(g, d) = g \/ Least(g, d) = d)
  BY <1>4, LeastIsLess
<1>6. g >= 1 => Least(g, d) >= 1
  BY <1>4, <1>5
<1>7. Least(g, d) <= Deadline(i)
  BY <1>1, <1>4, <1>5
<1> QED BY <1>3, <1>5, <1>6, <1>7 DEF d

\* theorem_1.cpp:55: when the window holds less than a whole period, or the
\* difference is negative, a whole run of the chain is taken.
LEMMA Urgent1Facts ==
  ASSUME Tables, program = 1, NEW i \in Chains, NEW j \in Urgent(i),
         NEW g \in 0 .. LongestGap(workload, i)
  PROVE  /\ UrgentDemand1(i, j, g) \in Nat /\ IntendedUrgent1(i, j, g) \in Nat
         /\ IntendedUrgent1(i, j, g) <= UrgentDemand1(i, j, g)
         /\ UrgentDemand1(i, j, g) <= MostUrgent(i, j)
<1> DEFINE w == Window(i, j, g)
           p == Period(j)
           r == Runtime(j)
           q == w \div p
           d == Minus(g, w * p)
           m == w % p
           n == CeilDiv(Deadline(i), p)
<1>1. /\ Wrap \in Nat /\ LongestGap(workload, i) \in Nat /\ g \in Nat /\ g < Wrap
      /\ Deadline(i) * p + r <= Wrap
      /\ (Deadline(i) - Deadline(j)) * p > LongestGap(workload, i)
  <2>1. Runtime(i) \in Nat
    BY RuntimeFacts
  <2> QED BY <2>1, LongestFacts
<1>2. /\ p \in Nat \ {0} /\ r \in Nat /\ Deadline(i) \in Nat /\ j \in Chains
  BY ChainFacts, RuntimeFacts
<1>3. /\ w \in Nat /\ w <= g /\ w <= Deadline(i)
      /\ w = g \/ w = Deadline(i) - Deadline(j)
  BY <1>1, WindowFacts
<1>4. q \in Nat /\ n \in Nat /\ q <= n
  <2>1. q \in Nat /\ q <= CeilDiv(w, p) /\ CeilDiv(w, p) <= CeilDiv(Deadline(i), p)
    BY <1>2, <1>3, QuotientFacts
  <2>2. CeilDiv(w, p) \in Nat /\ n \in Nat
    BY <1>2, <1>3, CeilDivFacts
  <2> QED BY <2>1, <2>2
<1>5. m \in Nat /\ (p = 1 => m = 0) /\ m <= w
  BY <1>2, <1>3
<1>6. w * p \in Nat /\ w * p <= Deadline(i) * p
  BY <1>2, <1>3, ProductFacts
<1>7. w * p >= g
  <2>1. CASE w = g
    <3>1. 1 * w <= p * w /\ p * w = w * p
      BY <1>2, <1>3, ProductFacts
    <3> QED BY <1>3, <2>1, <3>1
  <2>2. CASE w = Deadline(i) - Deadline(j)
    <3>1. w * p > LongestGap(workload, i)
      BY <1>1, <2>2, Zenon
    <3> QED BY <1>1, <1>6, <3>1
  <2> QED BY <1>3, <2>1, <2>2
<1>8. Deadline(i) * p \in Nat
  BY <1>2, ProductFacts
<1>9. /\ d \in Nat
      /\ g = w * p => d = 0
      /\ g < w * p => d >= r
  <2> DEFINE y == w * p
             z == Deadline(i) * p
  <2>1. y \in Nat /\ z \in Nat /\ y <= z /\ z + r <= Wrap
    BY <1>1, <1>6, <1>8
  <2>2. d = Minus(g, y)
    OBVIOUS
  <2> HIDE DEF y, z, d
  <2>3. /\ d \in Nat /\ (y <= g => d = g - y) /\ (g < y => d = Wrap + g - y)
    BY <1>1, <1>2, <2>1, <2>2, MinusFacts
  <2>4. (g = y => d = 0) /\ (g < y => d >= r)
    BY <1>1, <1>2, <2>1, <2>3
  <2> QED BY <2>3, <2>4 DEF y
<1>10. g = w * p => m = 0
  <2>1. SUFFICES ASSUME g = w * p PROVE m = 0
    OBVIOUS
  <2>2. CASE w = 0
    BY <1>2, <2>2
  <2>3. CASE w # 0 /\ p # 1
    <3>1. 2 * w <= p * w /\ p * w = w * p
      BY <1>2, <1>3, <2>3, ProductFacts
    <3>2. w = Deadline(i) - Deadline(j) => FALSE
      BY <1>1, <1>2, <2>1
    <3>3. w = g
      BY <1>3, <3>2
    <3> QED BY <1>3, <2>1, <2>3, <3>1, <3>3
  <2> QED BY <1>5, <2>2, <2>3
<1>11. UrgentDemand1(i, j, g) = q * r + Least(r, d)
  BY DEF UrgentDemand1
<1>12. IntendedUrgent1(i, j, g) = q * r + Least(r, m)
  BY DEF IntendedUrgent1
<1>13. MostUrgent(i, j) = (n + 1) * r
  BY DEF MostUrgent
<1> HIDE DEF w, p, r, q, d, m, n
<1>14. Least(r, m) <= Least(r, d) /\ Least(r, d) <= r
       /\ Least(r, m) \in Nat /\ Least(r, d) \in Nat
  <2>1. CASE g = w * p
    BY <1>2, <1>5, <1>9, <1>10, <2>1, LeastIsLess
  <2>2. CASE g < w * p
    BY <1>2, <1>5, <1>9, <2>2 DEF Least
  <2> QED BY <1>1, <1>6, <1>7, <2>1, <2>2
<1>15. q * r \in Nat /\ n * r \in Nat /\ q * r <= n * r /\ (n + 1) * r = n * r + r
  BY <1>2, <1>4, ProductFacts
<1> QED BY <1>2, <1>11, <1>12, <1>13, <1>14, <1>15

\* theorem_2.cpp:46: the number of releases is right once the gap is not 0.
LEMMA Urgent2Facts ==
  ASSUME Tables, NEW i \in Chains, NEW j \in Urgent(i),
         NEW g \in 1 .. LongestGap(workload, i)
  PROVE  /\ UrgentDemand2(i, j, g) \in Nat
         /\ IntendedUrgent2(i, j, g) = UrgentDemand2(i, j, g)
         /\ UrgentDemand2(i, j, g) <= MostUrgent(i, j)
<1> DEFINE w == Window(i, j, g)
           p == Period(j)
           r == Runtime(j)
           c == CeilDiv(w, p)
           n == CeilDiv(Deadline(i), p)
<1>1. LongestGap(workload, i) \in Nat /\ LongestGap(workload, i) < Wrap
      /\ Wrap \in Nat
  <2>1. Runtime(i) \in Nat
    BY RuntimeFacts
  <2> QED BY <2>1, LongestFacts
<1>2. /\ p \in Nat \ {0} /\ r \in Nat /\ Deadline(i) \in Nat
  BY ChainFacts, RuntimeFacts
<1>3. w \in Nat /\ w >= 1 /\ w <= g /\ w <= Deadline(i) /\ g \in Nat /\ w < Wrap
  BY <1>1, WindowFacts
<1>4. Minus(w, 1) = w - 1
  BY <1>3, MinusFacts
<1>5. Instances(j, w) = c
  BY <1>2, <1>3, <1>4, QuotientFacts DEF Instances
<1>6. c \in Nat /\ n \in Nat /\ c <= n
  <2>1. c <= n
    BY <1>2, <1>3, QuotientFacts
  <2> QED BY <1>2, <1>3, <2>1, CeilDivFacts
<1>7. UrgentDemand2(i, j, g) = c * r /\ IntendedUrgent2(i, j, g) = c * r
  BY <1>5 DEF UrgentDemand2, IntendedUrgent2
<1>8. MostUrgent(i, j) = (n + 1) * r
  BY DEF MostUrgent
<1> HIDE DEF c, n, r
<1>9. n + 1 \in Nat /\ c <= n + 1
  BY <1>6
<1>10. c * r \in Nat /\ c * r <= (n + 1) * r
  BY <1>2, <1>6, <1>9, ProductFacts
<1> QED BY <1>7, <1>8, <1>10

LEMMA Other1Facts ==
  ASSUME Tables, NEW i \in Chains, NEW k \in Chains, NEW g \in Nat
  PROVE  OtherDemand1(i, k, g) \in Nat /\ OtherDemand1(i, k, g) <= MostOther(k)
<1> DEFINE n == CeilDiv(Deadline(k), Period(k))
<1>1. /\ Deadline(k) \in Nat /\ Deadline(k) >= 1 /\ Period(k) \in Nat \ {0}
      /\ Runtime(k) \in Nat
  BY ChainFacts, RuntimeFacts
<1>2. n \in Nat /\ n >= 1
  BY <1>1, CeilDivFacts, QuotientFacts
<1>3. MostOther(k) = n * Runtime(k)
  BY DEF MostOther
<1> HIDE DEF n
<1>4. n * Runtime(k) \in Nat /\ Runtime(k) <= n * Runtime(k)
  BY <1>1, <1>2, ProductFacts
<1>5. Least(Runtime(k), g) \in Nat /\ Least(Runtime(k), g) <= Runtime(k)
  BY <1>1, LeastIsLess
<1>6. OtherDemand1(i, k, g) \in Nat /\ OtherDemand1(i, k, g) <= Runtime(k)
  BY <1>1, <1>5 DEF OtherDemand1
<1> QED BY <1>1, <1>3, <1>4, <1>6

LEMMA Other2Facts ==
  ASSUME Tables, NEW k \in Chains, NEW g \in Nat
  PROVE  /\ OtherDemand2(k, g) \in Nat
         /\ IntendedOther2(k, g) = OtherDemand2(k, g)
         /\ Least(Runtime(k), g) <= OtherDemand2(k, g)
         /\ OtherDemand2(k, g) <= MostOther(k)
<1> DEFINE n == CeilDiv(Deadline(k), Period(k))
           x == Least(Runtime(k), g)
<1>1. /\ Deadline(k) \in Nat /\ Deadline(k) >= 1 /\ Period(k) \in Nat \ {0}
      /\ Runtime(k) \in Nat
  BY ChainFacts, RuntimeFacts
<1>2. n \in Nat /\ n >= 1
  BY <1>1, CeilDivFacts, QuotientFacts
<1>3. Minus(Deadline(k), 1) = Deadline(k) - 1
  BY <1>1, LongestFacts, MinusFacts
<1>4. Instances(k, Deadline(k)) = n
  BY <1>1, <1>3, QuotientFacts DEF Instances
<1>5. /\ OtherDemand2(k, g) = n * x /\ IntendedOther2(k, g) = n * x
      /\ MostOther(k) = n * Runtime(k)
  BY <1>4 DEF OtherDemand2, IntendedOther2, MostOther
<1>6. x \in Nat /\ x <= Runtime(k)
  BY <1>1, LeastIsLess
<1> HIDE DEF n, x
<1>7. n * x \in Nat /\ x <= n * x
  BY <1>2, <1>6, ProductFacts
<1>8. n * x <= n * Runtime(k)
  <2>1. x * n <= Runtime(k) * n
    BY <1>1, <1>2, <1>6, ProductFacts
  <2> QED BY <1>1, <1>2, <1>6, <2>1
<1> QED BY <1>5, <1>7, <1>8 DEF x

-----------------------------------------------------------------------------
(***************************************************************************)
(* The demand of all chains: the sums stay below the unsigned numbers.     *)
(***************************************************************************)
LEMMA OwnFacts ==
  ASSUME Tables, NEW i \in Chains
  PROVE  /\ FirstGap(i) \in Nat /\ FirstGap(i) + LastRuntime(i) = Runtime(i)
         /\ OwnDemand(i) = workload.threads * FirstGap(i)
         /\ OwnDemand(i) \in Nat
         /\ OwnDemand(i) <= workload.threads * Runtime(i)
         /\ workload.threads * Runtime(i) \in Nat
<1> DEFINE t == workload.threads
           f == FirstGap(i)
<1>1. /\ t \in Nat \ {0} /\ Runtime(i) \in Nat
      /\ LastRuntime(i) \in Nat /\ LastRuntime(i) <= Runtime(i)
  BY ChainFacts, RuntimeFacts
<1>2. f = Runtime(i) - LastRuntime(i) /\ OwnDemand(i) = t * f
  BY DEF FirstGap, OwnDemand
<1> HIDE DEF f, t
<1>3. f \in Nat /\ f <= Runtime(i) /\ f + LastRuntime(i) = Runtime(i)
  BY <1>1, <1>2
<1>4. f * t <= Runtime(i) * t /\ f * t \in Nat /\ Runtime(i) * t \in Nat
  BY <1>1, <1>3, ProductFacts
<1>5. f * t = t * f /\ Runtime(i) * t = t * Runtime(i)
  BY <1>1, <1>3
<1> QED BY <1>1, <1>2, <1>3, <1>4, <1>5 DEF f, t

LEMMA Demand1Facts ==
  ASSUME Tables, program = 1, NEW i \in Chains,
         NEW g \in 0 .. LongestGap(workload, i)
  PROVE  /\ Demand1(i, g) \in Nat /\ Intended1(i, g) <= Demand1(i, g)
         /\ OwnDemand(i) <= Demand1(i, g)
         /\ Demand1(i, g) <= MostDemand(workload, i)
<1> DEFINE f == [j \in Urgent(i) |-> UrgentDemand1(i, j, g)]
           fi == [j \in Urgent(i) |-> IntendedUrgent1(i, j, g)]
           fm == [j \in Urgent(i) |-> MostUrgent(i, j)]
           h == [k \in Chains |-> OtherDemand1(i, k, g)]
           hm == [k \in Chains |-> MostOther(k)]
           own == OwnDemand(i)
           all == workload.threads * Runtime(i)
           S == SumFunction(f)
           Si == SumFunction(fi)
           Sm == SumFunction(fm)
           H == SumFunction(h)
           Hm == SumFunction(hm)
<1>1. IsFiniteSet(Urgent(i)) /\ IsFiniteSet(Chains)
  BY ChainFacts
<1>2. /\ f \in [Urgent(i) -> Nat] /\ fi \in [Urgent(i) -> Nat]
      /\ fm \in [Urgent(i) -> Nat]
      /\ \A j \in Urgent(i) : fi[j] <= f[j] /\ f[j] <= fm[j]
  <2>1. \A j \in Urgent(i) :
          /\ UrgentDemand1(i, j, g) \in Nat /\ IntendedUrgent1(i, j, g) \in Nat
          /\ IntendedUrgent1(i, j, g) <= UrgentDemand1(i, j, g)
          /\ UrgentDemand1(i, j, g) <= MostUrgent(i, j)
    BY Urgent1Facts
  <2>2. \A j \in Urgent(i) : MostUrgent(i, j) \in Nat
    BY MostFacts
  <2> QED BY <2>1, <2>2
<1>3. /\ h \in [Chains -> Nat] /\ hm \in [Chains -> Nat]
      /\ \A k \in Chains : h[k] <= hm[k]
  <2>1. g \in Nat
    BY LongestFacts
  <2>2. \A k \in Chains :
          OtherDemand1(i, k, g) \in Nat /\ OtherDemand1(i, k, g) <= MostOther(k)
    BY <2>1, Other1Facts
  <2>3. \A k \in Chains : MostOther(k) \in Nat
    BY MostFacts
  <2> QED BY <2>2, <2>3
<1>4. /\ Demand1(i, g) = (own + S + H) % Wrap
      /\ Intended1(i, g) = own + Si + H
  BY DEF Demand1, Intended1
<1>5. MostDemand(workload, i) = all + Sm + Hm /\ MostDemand(workload, i) < Wrap
      /\ Wrap \in Nat
  BY MostFacts, LongestFacts
<1>6. own \in Nat /\ all \in Nat /\ own <= all
  BY OwnFacts
<1> HIDE DEF f, fi, fm, h, hm, own, all
<1>7. S \in Nat /\ Si \in Nat /\ Sm \in Nat /\ Si <= S /\ S <= Sm
  BY <1>1, <1>2, SumType, SumGrows
<1>8. H \in Nat /\ Hm \in Nat /\ H <= Hm
  BY <1>1, <1>3, SumType, SumGrows
<1> HIDE DEF S, Si, Sm, H, Hm
<1>9. own + S + H \in Nat /\ own + S + H <= MostDemand(workload, i)
  BY <1>5, <1>6, <1>7, <1>8
<1>10. (own + S + H) % Wrap = own + S + H
  BY <1>5, <1>9, <1>6, <1>7, <1>8
<1>11. own + Si + H <= own + S + H /\ own <= own + S + H
  BY <1>6, <1>7, <1>8
<1> QED BY <1>4, <1>9, <1>10, <1>11 DEF own

LEMMA Demand2Facts ==
  ASSUME Tables, NEW i \in Chains, NEW g \in 1 .. LongestGap(workload, i)
  PROVE  /\ Demand2(i, g) \in Nat /\ Intended2(i, g) = Demand2(i, g)
         /\ OwnDemand(i) <= Demand2(i, g)
         /\ Demand2(i, g) <= MostDemand(workload, i)
<1> DEFINE f == [j \in Urgent(i) |-> UrgentDemand2(i, j, g)]
           fi == [j \in Urgent(i) |-> IntendedUrgent2(i, j, g)]
           fm == [j \in Urgent(i) |-> MostUrgent(i, j)]
           h == [k \in Chains |-> OtherDemand2(k, g)]
           hi == [k \in Chains |-> IntendedOther2(k, g)]
           hm == [k \in Chains |-> MostOther(k)]
           own == OwnDemand(i)
           all == workload.threads * Runtime(i)
           x == Least(Runtime(i), g)
           S == SumFunction(f)
           Sm == SumFunction(fm)
           H == SumFunction(h)
           Hm == SumFunction(hm)
<1>1. IsFiniteSet(Urgent(i)) /\ IsFiniteSet(Chains)
  BY ChainFacts
<1>2. /\ f \in [Urgent(i) -> Nat] /\ fm \in [Urgent(i) -> Nat] /\ fi = f
      /\ \A j \in Urgent(i) : f[j] <= fm[j]
  <2>1. \A j \in Urgent(i) :
          /\ UrgentDemand2(i, j, g) \in Nat
          /\ IntendedUrgent2(i, j, g) = UrgentDemand2(i, j, g)
          /\ UrgentDemand2(i, j, g) <= MostUrgent(i, j)
    BY Urgent2Facts
  <2>2. \A j \in Urgent(i) : MostUrgent(i, j) \in Nat
    BY MostFacts
  <2> QED BY <2>1, <2>2
<1>3. g \in Nat
  BY LongestFacts
<1>4. /\ h \in [Chains -> Nat] /\ hm \in [Chains -> Nat] /\ hi = h
      /\ \A k \in Chains : h[k] <= hm[k]
      /\ x <= h[i]
  <2>1. \A k \in Chains :
          /\ OtherDemand2(k, g) \in Nat
          /\ IntendedOther2(k, g) = OtherDemand2(k, g)
          /\ Least(Runtime(k), g) <= OtherDemand2(k, g)
          /\ OtherDemand2(k, g) <= MostOther(k)
    BY <1>3, Other2Facts
  <2>2. \A k \in Chains : MostOther(k) \in Nat
    BY MostFacts
  <2> QED BY <2>1, <2>2
<1>5. /\ Demand2(i, g) = (own + S + H - x) % Wrap
      /\ Intended2(i, g) = own + S + H - x
  BY <1>2, <1>4 DEF Demand2, Intended2
<1>6. MostDemand(workload, i) = all + Sm + Hm /\ MostDemand(workload, i) < Wrap
      /\ Wrap \in Nat
  BY MostFacts, LongestFacts
<1>7. own \in Nat /\ all \in Nat /\ own <= all
  BY OwnFacts
<1>8. x \in Nat
  BY <1>3, RuntimeFacts, LeastIsLess
<1> HIDE DEF f, fi, fm, h, hi, hm, own, all, x
<1>9. S \in Nat /\ Sm \in Nat /\ S <= Sm
  BY <1>1, <1>2, SumType, SumGrows
<1>10. H \in Nat /\ Hm \in Nat /\ H <= Hm
  BY <1>1, <1>4, SumType, SumGrows
<1>11. h[i] \in Nat /\ h[i] <= H
  BY <1>1, <1>4, SumCovers
<1> HIDE DEF S, Sm, H, Hm
<1>12. x <= H
  BY <1>4, <1>8, <1>10, <1>11
<1>13. /\ own + S + H - x \in Nat /\ own <= own + S + H - x
       /\ own + S + H - x <= MostDemand(workload, i)
  BY <1>6, <1>7, <1>8, <1>9, <1>10, <1>12
<1> DEFINE y == own + S + H - x
<1>14. y \in Nat /\ y < Wrap
  BY <1>6, <1>7, <1>8, <1>9, <1>10, <1>13
<1> HIDE DEF y
<1>15. y % Wrap = y
  BY <1>6, <1>14
<1> QED BY <1>5, <1>13, <1>15 DEF y, own

\* From the first gap of a chain on.
LEMMA DemandFacts ==
  ASSUME Tables, NEW i \in Chains,
         NEW g \in FirstGap(i) .. LongestGap(workload, i)
  PROVE  /\ Intended(i, g) <= Demand(i, g)
         /\ OwnDemand(i) <= Demand(i, g) /\ Demand(i, g) \in Nat
         /\ g >= 1 => Demand(i, g) <= MostDemand(workload, i)
<1>1. FirstGap(i) \in Nat /\ LongestGap(workload, i) \in Nat /\ g \in Nat
  BY OwnFacts, LongestFacts
<1>2. CASE program = 1
  BY <1>1, <1>2, Demand1Facts DEF Demand, Intended
<1>3. CASE program # 1 /\ g >= 1
  BY <1>1, <1>3, Demand2Facts DEF Demand, Intended
<1>4. CASE program # 1 /\ g = 0
  <2>1. FirstGap(i) = 0 /\ OwnDemand(i) = 0
    <3>1. FirstGap(i) = 0
      BY <1>1, <1>4
    <3> QED BY <3>1, OwnFacts, ChainFacts
  <2>2. \A r \in Nat : Least(r, 0) = 0
    BY DEF Least
  <2> DEFINE f == [j \in Urgent(i) |-> IntendedUrgent2(i, j, 0)]
             h == [k \in Chains |-> IntendedOther2(k, 0)]
  <2>3. ASSUME NEW j \in Urgent(i) PROVE f[j] = 0
    <3>1. Window(i, j, 0) = 0
      BY WindowFacts
    <3>2. Period(j) \in Nat \ {0} /\ Runtime(j) \in Nat
      BY ChainFacts, RuntimeFacts
    <3>3. CeilDiv(0, Period(j)) = 0
      <4> DEFINE c == CeilDiv(0, Period(j))
      <4>1. c \in Nat /\ c * Period(j) < 0 + Period(j)
        BY <3>2, CeilDivFacts
      <4> HIDE DEF c
      <4>2. c >= 1 => Period(j) <= c * Period(j)
        BY <3>2, <4>1, ProductFacts
      <4>3. c = 0
        BY <3>2, <4>1, <4>2
      <4> QED BY <4>3 DEF c
    <3> QED BY <3>1, <3>2, <3>3 DEF IntendedUrgent2
  <2>4. ASSUME NEW k \in Chains PROVE h[k] = 0
    <3>1. /\ CeilDiv(Deadline(k), Period(k)) \in Nat /\ Runtime(k) \in Nat
      BY ChainFacts, RuntimeFacts, CeilDivFacts
    <3> QED BY <2>2, <3>1 DEF IntendedOther2
  <2>5. f \in [Urgent(i) -> Nat] /\ h \in [Chains -> Nat]
    BY <2>3, <2>4
  <2>6. Intended2(i, 0) = 0 + SumFunction(f) + SumFunction(h) - 0
    BY <2>1, <2>2, RuntimeFacts DEF Intended2
  <2> HIDE DEF f, h
  <2>7. SumFunction(f) = 0 /\ SumFunction(h) = 0
    BY <2>3, <2>4, <2>5, ChainFacts, SumOfZeros
  <2>8. Intended(i, g) = 0
    BY <1>4, <2>6, <2>7 DEF Intended
  <2>9. Demand(i, g) \in Nat
    <3> DEFINE a == [j \in Urgent(i) |-> UrgentDemand2(i, j, 0)]
               b == [k \in Chains |-> OtherDemand2(k, 0)]
               y == 0 + SumFunction(a) + SumFunction(b) - 0
    <3>1. Demand(i, g) = y % Wrap
      BY <1>4, <2>1, <2>2, RuntimeFacts DEF Demand, Demand2
    <3>2. a \in [Urgent(i) -> Nat] /\ b \in [Chains -> Nat]
      <4>1. \A k \in Chains : OtherDemand2(k, 0) \in Nat
        BY Other2Facts
      <4>2. ASSUME NEW j \in Urgent(i) PROVE UrgentDemand2(i, j, 0) \in Nat
        <5>1. /\ Window(i, j, 0) \in Nat /\ Window(i, j, 0) <= 0
              /\ Period(j) \in Nat \ {0} /\ Runtime(j) \in Nat
          BY WindowFacts, ChainFacts, RuntimeFacts
        <5>2. Window(i, j, 0) < Wrap
          BY <5>1, ResponseAssumption
        <5>3. Minus(Window(i, j, 0), 1) \in Nat
          BY <5>1, <5>2, MinusFacts
        <5>4. Instances(j, Window(i, j, 0)) \in Nat
          <6> DEFINE z == Minus(Window(i, j, 0), 1)
          <6>1. z \in Nat
            BY <5>3
          <6>2. Instances(j, Window(i, j, 0)) = z \div Period(j) + 1
            BY DEF Instances
          <6> HIDE DEF z
          <6>3. z \div Period(j) \in Nat
            BY <5>1, <6>1
          <6> QED BY <6>2, <6>3
        <5> QED BY <5>1, <5>4, ProductFacts DEF UrgentDemand2
      <4> QED BY <4>1, <4>2
    <3> HIDE DEF a, b
    <3>3. SumFunction(a) \in Nat /\ SumFunction(b) \in Nat
      BY <3>2, ChainFacts, SumType
    <3>4. y \in Nat
      BY <3>3
    <3> HIDE DEF y
    <3>5. y % Wrap \in Nat
      BY <3>4, ResponseAssumption
    <3> QED BY <3>1, <3>5
  <2> QED BY <1>4, <2>1, <2>8, <2>9
<1> QED BY <1>1, <1>2, <1>3, <1>4

-----------------------------------------------------------------------------
(***************************************************************************)
(* The search.  A gap that is not idle is at most the demand divided by    *)
(* the threads; one that is idle is longer than the chain without its last *)
(* callback.                                                               *)
(***************************************************************************)
GapInv == Searching => gap \in FirstGap(Current) .. LongestGap(workload, Current)

IInv == TypeOK /\ GapInv /\ CoversOwnRuntime

LEMMA FirstGapFits ==
  ASSUME Tables, NEW i \in Chains
  PROVE  /\ FirstGap(i) \in 0 .. Wrap - 1
         /\ FirstGap(i) \in FirstGap(i) .. LongestGap(workload, i)
         /\ \A g \in FirstGap(i) .. LongestGap(workload, i) :
              /\ g \in Nat /\ g < Wrap
              /\ g + LastRuntime(i) - 1 \in 0 .. Wrap - 1
              /\ Bound(g + LastRuntime(i) - 1) = g + LastRuntime(i) - 1
<1>1. /\ FirstGap(i) \in Nat /\ FirstGap(i) + LastRuntime(i) = Runtime(i)
      /\ LastRuntime(i) \in Nat \ {0} /\ Runtime(i) \in Nat
      /\ LastRuntime(i) <= Runtime(i)
  BY OwnFacts, RuntimeFacts
<1>2. /\ workload.threads * FirstGap(i) <= workload.threads * Runtime(i)
      /\ workload.threads * FirstGap(i) \in Nat
  BY OwnFacts
<1>3. workload.threads * Runtime(i) <= MostDemand(workload, i)
  <2> DEFINE f == [j \in Urgent(i) |-> MostUrgent(i, j)]
             h == [k \in Chains |-> MostOther(k)]
             all == workload.threads * Runtime(i)
  <2>1. MostDemand(workload, i) = all + SumFunction(f) + SumFunction(h)
    BY MostFacts
  <2>2. f \in [Urgent(i) -> Nat] /\ h \in [Chains -> Nat]
    BY MostFacts
  <2>3. all \in Nat
    BY OwnFacts
  <2> HIDE DEF f, h, all
  <2>4. SumFunction(f) \in Nat /\ SumFunction(h) \in Nat
    BY <2>2, ChainFacts, SumType
  <2>5. all <= MostDemand(workload, i)
    BY <2>1, <2>3, <2>4
  <2> QED BY <2>5 DEF all
<1>4. workload.threads * FirstGap(i) <= MostDemand(workload, i)
  <2>1. workload.threads * Runtime(i) \in Nat /\ MostDemand(workload, i) \in Nat
    BY OwnFacts, MostFacts
  <2> QED BY <1>2, <1>3, <2>1
<1>5. FirstGap(i) < LongestGap(workload, i)
  BY <1>1, <1>4, LongestFacts
<1>6. /\ LongestGap(workload, i) \in Nat /\ Wrap \in Nat
      /\ LongestGap(workload, i) + Runtime(i) < Wrap
      /\ program = 1 => LongestGap(workload, i) + Runtime(i) < UintWrap
      /\ UintWrap \in Nat \ {0}
  BY LongestFacts, ResponseAssumption
<1>7. ASSUME NEW g \in FirstGap(i) .. LongestGap(workload, i)
      PROVE  /\ g \in Nat /\ g < Wrap
             /\ g + LastRuntime(i) - 1 \in 0 .. Wrap - 1
             /\ Bound(g + LastRuntime(i) - 1) = g + LastRuntime(i) - 1
  <2> DEFINE x == g + LastRuntime(i) - 1
  <2>1. g \in Nat /\ g < Wrap /\ x \in 0 .. Wrap - 1
    BY <1>1, <1>5, <1>6
  <2>2. program = 1 => x \in 0 .. UintWrap - 1
    BY <1>1, <1>5, <1>6
  <2> HIDE DEF x
  <2>3. Bound(x) = x
    BY <2>1, <2>2, <1>6 DEF Bound
  <2> QED BY <2>1, <2>3 DEF x
<1>8. FirstGap(i) \in 0 .. Wrap - 1
  BY <1>1, <1>5, <1>6
<1> QED BY <1>1, <1>5, <1>6, <1>7, <1>8

LEMMA InitInv == Init => IInv
<1> SUFFICES ASSUME Init PROVE IInv
  OBVIOUS
<1>1. Tables /\ WCRT = <<>> /\ gap = FirstGap(1)
  BY DEF Init, Tables
<1>2. Current = 1 /\ 1 \in Chains
  BY <1>1, ChainFacts DEF Current
<1>3. gap \in 0 .. Wrap - 1 /\ GapInv
  BY <1>1, <1>2, FirstGapFits DEF GapInv
<1>4. WCRT \in Seq(0 .. Wrap - 1) /\ Len(WCRT) <= Len(workload.runtimes)
  BY <1>1, ChainFacts
<1>5. CoversOwnRuntime
  BY <1>1 DEF CoversOwnRuntime
<1> QED BY <1>1, <1>3, <1>4, <1>5 DEF IInv, TypeOK, Tables

\* What is known of the chain that is looked at.
LEMMA SearchFacts ==
  ASSUME IInv, Searching
  PROVE  /\ Tables /\ Current \in Chains
         /\ gap \in FirstGap(Current) .. LongestGap(workload, Current)
         /\ gap \in Nat
         /\ OwnDemand(Current) <= Demand(Current, gap)
         /\ Demand(Current, gap) \in Nat
         /\ gap >= 1 => Demand(Current, gap) <= MostDemand(workload, Current)
         /\ Intended(Current, gap) <= Demand(Current, gap)
<1>1. Tables /\ Current \in Chains
  BY DEF IInv, TypeOK, Tables, Searching
<1>2. gap \in FirstGap(Current) .. LongestGap(workload, Current)
  BY DEF IInv, GapInv
<1>3. gap \in Nat
  BY <1>1, <1>2, FirstGapFits
<1> QED BY <1>1, <1>2, <1>3, DemandFacts

LEMMA FoundInv ==
  ASSUME IInv, Found
  PROVE  IInv'
<1> DEFINE i == Current
           x == gap + LastRuntime(i) - 1
<1>1. /\ Searching /\ IdleIn(i, gap) /\ WCRT' = Append(WCRT, Bound(x))
      /\ gap' = IF i + 1 \in Chains THEN FirstGap(i + 1) ELSE gap
      /\ program' = program /\ workload' = workload
  BY DEF Found
<1>2. /\ Tables /\ i \in Chains
      /\ gap \in FirstGap(i) .. LongestGap(workload, i) /\ gap \in Nat
      /\ OwnDemand(i) <= Demand(i, gap) /\ Demand(i, gap) \in Nat
  BY <1>1, SearchFacts
<1>3. /\ WCRT \in Seq(0 .. Wrap - 1) /\ Len(WCRT) <= Len(workload.runtimes)
      /\ gap \in 0 .. Wrap - 1 /\ i = Len(WCRT) + 1
      /\ \A c \in DOMAIN WCRT : WCRT[c] >= Runtime(c)
  BY DEF IInv, TypeOK, Current, CoversOwnRuntime
<1>4. /\ Len(workload.runtimes) \in Nat \ {0}
      /\ Chains = 1 .. Len(workload.runtimes)
  BY <1>2, ChainFacts
<1>5. x \in 0 .. Wrap - 1 /\ Bound(x) = x
  BY <1>2, FirstGapFits
<1>6. x >= Runtime(i)
  <2>1. OwnDemand(i) < workload.threads * gap
    <3>1. Demand(i, gap) < workload.threads * gap
      BY <1>1 DEF IdleIn
    <3>2. /\ workload.threads * gap \in Nat /\ OwnDemand(i) \in Nat
      BY <1>2, ChainFacts, OwnFacts
    <3> QED BY <1>2, <3>1, <3>2
  <2>2. /\ OwnDemand(i) = workload.threads * FirstGap(i)
        /\ FirstGap(i) \in Nat /\ FirstGap(i) + LastRuntime(i) = Runtime(i)
        /\ LastRuntime(i) \in Nat /\ Runtime(i) \in Nat
        /\ workload.threads \in Nat
    BY <1>2, OwnFacts, RuntimeFacts, ChainFacts
  <2>3. gap # FirstGap(i)
    <3>1. ASSUME gap = FirstGap(i) PROVE FALSE
      <4>1. OwnDemand(i) = workload.threads * gap /\ OwnDemand(i) \in Nat
        BY <1>2, <2>2, <3>1, OwnFacts
      <4> QED BY <2>1, <4>1
    <3> QED BY <3>1
  <2>4. gap >= FirstGap(i) + 1
    BY <1>2, <2>2, <2>3
  <2> QED BY <1>2, <2>2, <2>4
<1> HIDE DEF x
<1>7. /\ WCRT' \in Seq(0 .. Wrap - 1) /\ Len(WCRT') = i
      /\ DOMAIN WCRT' = DOMAIN WCRT \union {i}
      /\ WCRT'[i] = x /\ \A c \in DOMAIN WCRT : WCRT'[c] = WCRT[c]
  BY <1>1, <1>3, <1>5
<1>8. Chains' = Chains /\ Current' = i + 1
  BY <1>1, <1>7 DEF Chains, Current
<1>9. \A c \in Chains :
        /\ Runtime(c)' = Runtime(c) /\ FirstGap(c)' = FirstGap(c)
  BY <1>1 DEF Runtime, FirstGap, LastRuntime
<1>10. DOMAIN WCRT \subseteq Chains
  BY <1>2, <1>3, <1>4
<1>11. CoversOwnRuntime'
  <2>1. \A c \in DOMAIN WCRT' : WCRT'[c] >= Runtime(c)
    BY <1>3, <1>6, <1>7
  <2>2. \A c \in DOMAIN WCRT' : Runtime(c)' = Runtime(c)
    BY <1>2, <1>7, <1>9, <1>10
  <2> QED BY <2>1, <2>2 DEF CoversOwnRuntime
<1>12. gap' \in 0 .. Wrap - 1
  BY <1>1, <1>2, <1>3, FirstGapFits
<1>13. GapInv'
  <2>1. ASSUME i + 1 \in Chains
        PROVE  gap' \in FirstGap(i + 1) .. LongestGap(workload, i + 1)
    BY <1>1, <1>2, <2>1, FirstGapFits
  <2>2. Searching' <=> i + 1 \in Chains
    BY <1>8 DEF Searching
  <2>3. ASSUME i + 1 \in Chains
        PROVE  gap' \in FirstGap(Current)' .. LongestGap(workload, Current)'
    <3>1. FirstGap(Current)' = FirstGap(i + 1)
      BY <1>1, <1>8 DEF FirstGap, Runtime, LastRuntime
    <3>2. LongestGap(workload, Current)' = LongestGap(workload, i + 1)
      BY <1>1, <1>8
    <3> QED BY <2>1, <2>3, <3>1, <3>2
  <2> QED BY <2>2, <2>3 DEF GapInv
<1>14. TypeOK'
  BY <1>1, <1>2, <1>4, <1>7, <1>12 DEF TypeOK, Tables
<1> QED BY <1>11, <1>13, <1>14 DEF IInv

LEMMA LongerInv ==
  ASSUME IInv, Longer
  PROVE  IInv'
<1> DEFINE i == Current
           l == LongestGap(workload, i)
<1>1. /\ Searching /\ ~IdleIn(i, gap) /\ gap' = gap + 1
      /\ program' = program /\ workload' = workload /\ WCRT' = WCRT
  BY DEF Longer
<1>2. /\ Tables /\ i \in Chains
      /\ gap \in FirstGap(i) .. l /\ gap \in Nat
      /\ Demand(i, gap) \in Nat
      /\ gap >= 1 => Demand(i, gap) <= MostDemand(workload, i)
  BY <1>1, SearchFacts
<1>3. /\ l \in Nat \ {0} /\ FirstGap(i) \in Nat
      /\ workload.threads \in Nat \ {0} /\ MostDemand(workload, i) \in Nat
      /\ \A g \in Nat : workload.threads * g <= MostDemand(workload, i) => g < l
  BY <1>2, LongestFacts, OwnFacts, ChainFacts, MostFacts
<1>4. gap < l
  <2>1. CASE gap = 0
    BY <1>3, <2>1
  <2>2. CASE gap # 0
    <3>1. workload.threads * gap \in Nat
      BY <1>2, <1>3, ProductFacts
    <3>2. ~(Demand(i, gap) < workload.threads * gap)
      BY <1>1 DEF IdleIn
    <3>3. Demand(i, gap) <= MostDemand(workload, i)
      BY <1>2, <2>2
    <3>4. workload.threads * gap <= MostDemand(workload, i)
      BY <1>2, <1>3, <3>1, <3>2, <3>3
    <3> QED BY <1>2, <1>3, <3>4
  <2> QED BY <2>1, <2>2
<1> HIDE DEF l
<1>5. gap' \in FirstGap(i) .. l
  BY <1>1, <1>2, <1>3, <1>4
<1>6. gap' \in 0 .. Wrap - 1
  <2>1. gap' \in Nat /\ gap' < Wrap
    BY <1>2, <1>5, FirstGapFits DEF l
  <2> QED BY <2>1, ResponseAssumption
<1>7. /\ Current' = i /\ Chains' = Chains
      /\ FirstGap(Current)' = FirstGap(i)
      /\ LongestGap(workload, Current)' = l
  BY <1>1 DEF Current, Chains, FirstGap, Runtime, LastRuntime, l
<1>8. GapInv'
  BY <1>5, <1>7 DEF GapInv
<1>9. CoversOwnRuntime'
  BY <1>1 DEF IInv, CoversOwnRuntime, Runtime
<1>10. TypeOK'
  BY <1>1, <1>6 DEF IInv, TypeOK
<1> QED BY <1>8, <1>9, <1>10 DEF IInv

\* The search stays within LongestGap, and what it finds covers the chain.
THEOREM InductiveInvariant == Spec => []IInv
<1>1. IInv /\ [Next]_vars => IInv'
  <2> SUFFICES ASSUME IInv, [Next]_vars PROVE IInv'
    OBVIOUS
  <2>1. CASE Found
    BY <2>1, FoundInv
  <2>2. CASE Longer
    BY <2>2, LongerInv
  <2>3. CASE UNCHANGED vars
    BY <2>3 DEF vars, IInv, TypeOK, GapInv, Searching, Current, Chains, FirstGap,
                Runtime, LastRuntime, CoversOwnRuntime
  <2> QED BY <2>1, <2>2, <2>3 DEF Next
<1> QED BY <1>1, InitInv, PTL DEF Spec

\* No number wraps but in the differences: the gap and the bounds stay below the
\* largest unsigned number (theorem_1.cpp:50-76, theorem_2.cpp:40-64).
THEOREM TypeCorrect == Spec => []TypeOK
<1>1. IInv => TypeOK
  BY DEF IInv
<1> QED BY <1>1, InductiveInvariant, PTL

\* The unsigned arithmetic never makes the demand too small: where
\* theorem_1.cpp:55 goes below zero a whole run of the chain is counted.
THEOREM NeverUnderestimated == Spec => []NotUnderestimated
<1>1. IInv => NotUnderestimated
  <2> SUFFICES ASSUME IInv, Searching
               PROVE  Demand(Current, gap) >= Intended(Current, gap)
    BY DEF NotUnderestimated
  <2>1. Intended(Current, gap) <= Demand(Current, gap)
    BY SearchFacts
  <2> QED BY <2>1
<1> QED BY <1>1, InductiveInvariant, PTL

\* No bound that is found is below what the chain takes when it runs alone
\* (theorem_1.cpp:48-72, theorem_2.cpp:39-62).
THEOREM BoundsCoverTheChain == Spec => []CoversOwnRuntime
<1>1. IInv => CoversOwnRuntime
  BY DEF IInv
<1> QED BY <1>1, InductiveInvariant, PTL
=============================================================================
