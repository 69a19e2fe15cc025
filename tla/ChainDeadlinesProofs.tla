-------------------------- MODULE ChainDeadlinesProofs -------------------------
(***************************************************************************)
(* For any number of chains, of any length and period, with any number of  *)
(* deadline queues, for any resolution of the clock and length of the      *)
(* set-up, arbitrarily late, with messages lost and nodes that expire: the *)
(* bookkeeping is well typed, what a thread chooses is still there to be   *)
(* run, and, as long as no timer is skipped, the record of a timer's       *)
(* release is less than a period ahead of the timer, a ready callback sees *)
(* a deadline, less than a period after its own, and the queues are a      *)
(* ledger of the instances under way.                                      *)
(*                                                                         *)
(* The queues of a chain are one sequence e of deadlines, dealt out in     *)
(* turn: e[i] is the one pushed when the chain's timer was dispatched for  *)
(* the i-th time.  What is left in the queues is e from about the count of *)
(* the last callback to that of the timer; a callback that has been taken  *)
(* i times looks at the queue of e[i], whose front is e[i] or, if          *)
(* instances were lost, an earlier one; and what it runs for is an         *)
(* instance less than a period older than the release that e[i] belongs    *)
(* to, for the counts of a chain decrease from callback to callback.       *)
(***************************************************************************)
EXTENDS ChainDeadlines, ArithmeticProofs

-----------------------------------------------------------------------------
(***************************************************************************)
(* What the constants say.                                                 *)
(***************************************************************************)
\* A chain has at least one queue.
LEMMA QueueCount ==
  ASSUME NEW c \in Chains
  PROVE  MaxChainNum(c) \in Nat \ {0} /\ 0 \in Queues(c)
<1>1. Deadline[c] \in Nat \ {0} /\ Period[c] \in Nat \ {0}
  BY ChainAssumption
<1> DEFINE n == CeilDiv(Deadline[c], Period[c])
<1>2. n \in Nat /\ n * Period[c] >= Deadline[c]
  BY <1>1, CeilDivFacts
<1>3. MaxChainNum(c) = n
  BY DEF MaxChainNum
<1> HIDE DEF n
<1>4. n # 0
  BY <1>1, <1>2
<1> QED BY <1>2, <1>3, <1>4 DEF Queues

LEMMA CallbackFacts ==
  /\ Timers \subseteq Callbacks /\ Subscriptions \subseteq Callbacks
  /\ \A cb \in Timers : cb = <<cb[1], 1>> /\ cb[1] \in Chains
  /\ \A cb \in Subscriptions :
       /\ cb = <<cb[1], cb[2]>> /\ cb[1] \in Chains
       /\ cb[2] \in 2 .. Length[cb[1]]
  /\ \A cb \in Callbacks : cb[1] \in Chains
  /\ \A c \in Chains : <<c, 1>> \in Timers
  /\ \A c \in Chains : \A k \in 2 .. Length[c] : <<c, k>> \in Subscriptions
  /\ Timers \intersect Subscriptions = {}
<1>1. \A c \in Chains : Length[c] \in Nat /\ Length[c] <= MaxLength
  BY ChainAssumption
<1>2. MaxLength \in Nat
  BY ChainAssumption
<1> QED BY <1>1, <1>2 DEF Timers, Subscriptions, Callbacks

\* Finitely many messages are lost at a time.
LEMMA OfChainFacts ==
  ASSUME NEW c \in Chains, NEW S \in SUBSET Callbacks
  PROVE  /\ OfChain(c, S) \in Nat
         /\ OfChain(c, S) = 0 => \A s \in S : s[1] # c
<1>1. IsFiniteSet(Chains) /\ IsFiniteSet(0..MaxLength)
  BY ChainAssumption, FS_Interval
<1>2. IsFiniteSet(Chains \X (0..MaxLength))
  BY <1>1, FS_Product
<1>3. Length[c] <= MaxLength /\ Length[c] >= 2 /\ MaxLength \in Nat
      /\ Length[c] \in Nat
  BY ChainAssumption
<1>4. {s \in S : s[1] = c} \in SUBSET (Chains \X (0..MaxLength))
  BY <1>3 DEF Callbacks, Timers, Subscriptions
<1>5. IsFiniteSet({s \in S : s[1] = c})
  BY <1>2, <1>4, FS_Subset
<1> QED BY <1>5, FS_CardinalityType, FS_EmptySet DEF OfChain

\* The timer that triggers a chain is its own or that of chain 0, and all agree
\* on the number of queues and the deadline.
LEMMA TriggeredFacts ==
  ASSUME isF1tenth \in F1tenth, NEW c \in Chains
  PROVE  /\ Triggered(c) \in Chains
         /\ HasTimer(Triggered(c))
         /\ MaxChainNum(Triggered(c)) = MaxChainNum(c)
         /\ Deadline[Triggered(c)] = Deadline[c]
         /\ c \in Fed(Triggered(c))
<1>1. CASE isF1tenth /\ c = 1
  <2>1. Triggered(c) = 0 /\ TRUE \in F1tenth
    BY <1>1, ChainAssumption DEF Triggered
  <2> QED BY <1>1, <2>1, ChainAssumption DEF Triggered, HasTimer, Fed
<1>2. CASE ~(isF1tenth /\ c = 1)
  BY <1>2 DEF Triggered, HasTimer, Fed
<1> QED BY <1>1, <1>2

\* The next index stays below the number of queues.
LEMMA AdvanceFacts ==
  ASSUME NEW cb \in Callbacks, NEW i \in Queues(cb[1])
  PROVE  /\ Advance(i, cb) \in Queues(cb[1])
         /\ Advance(i, cb) = IF i + 1 = MaxChainNum(cb[1]) THEN 0 ELSE i + 1
<1> DEFINE n == MaxChainNum(cb[1])
<1>1. n \in Nat \ {0}
  BY QueueCount, CallbackFacts
<1>2. i \in 0 .. n - 1
  BY DEF Queues
<1>3. Advance(i, cb) = (i + 1) % n
  BY DEF Advance
<1>4. Queues(cb[1]) = 0 .. n - 1
  BY DEF Queues
<1> HIDE DEF n
<1>5. (i + 1) % n = IF i + 1 = n THEN 0 ELSE i + 1
  <2>1. CASE i + 1 = n
    <3>1. n % n = 0
      BY <1>1
    <3> QED BY <2>1, <3>1
  <2>2. CASE i + 1 < n
    BY <1>1, <1>2, <2>2
  <2> QED BY <1>1, <1>2, <2>1, <2>2
<1>6. (IF i + 1 = n THEN 0 ELSE i + 1) \in 0 .. n - 1
  BY <1>1, <1>2
<1> QED BY <1>3, <1>4, <1>5, <1>6 DEF n

\* Whole milliseconds in ticks.
LEMMA TicksFacts ==
  /\ \A m \in Nat : Ticks(m) \in Nat
  /\ \A m \in Int : Ticks(m) \in Int
  /\ \A m, n \in Int : Ticks(m + n) = Ticks(m) + Ticks(n)
  /\ \A m, n \in Int : m <= n => Ticks(m) <= Ticks(n)
  /\ \A c \in Chains : Ticks(Period[c]) \in Nat \ {0}
  /\ \A c \in Chains : Ticks(Deadline[c]) \in Nat \ {0}
<1>1. TicksPerMs \in Nat \ {0}
  BY ChainAssumption
<1>2. \A c \in Chains : Period[c] \in Nat \ {0} /\ Deadline[c] \in Nat \ {0}
  BY ChainAssumption
<1>3. ASSUME NEW m \in Nat PROVE Ticks(m) \in Nat /\ (m # 0 => Ticks(m) # 0)
  <2>1. Ticks(m) = m * TicksPerMs
    BY DEF Ticks
  <2>2. m # 0 => m * TicksPerMs >= TicksPerMs
    BY <1>1
  <2> QED BY <1>1, <2>1, <2>2
<1>4. \A m, n \in Int : Ticks(m + n) = Ticks(m) + Ticks(n)
  BY <1>1 DEF Ticks
<1>5. \A m, n \in Int : m <= n => Ticks(m) <= Ticks(n)
  BY <1>1 DEF Ticks
<1>6. \A m \in Int : Ticks(m) \in Int
  BY <1>1 DEF Ticks
<1> QED BY <1>2, <1>3, <1>4, <1>5, <1>6

\* How far the first record of a timer is off.
LEMMA SetUpFacts ==
  ASSUME NEW created \in SetUp, NEW before \in SetUp, NEW after \in SetUp,
         before <= after, NEW c \in Chains,
         NEW first, first = FirstRelease(created + Ticks(Period[c]), before,
                                         after, TicksPerMs)
  PROVE  /\ first \in Nat
         /\ (created + Ticks(Period[c])) - Ticks(first) \in -Late .. Early
<1> DEFINE K == TicksPerMs
           p == Ticks(Period[c])
           n == created + p
<1>1. /\ K \in Nat \ {0} /\ SetUpFrom \in Nat \ {0} /\ SetUpTo \in Nat
      /\ SetUpTo <= 2 * SetUpFrom
      /\ created \in Nat /\ before \in Nat /\ after \in Nat
      /\ SetUpFrom <= created
      /\ after - before \in 0 .. SetUpTo - SetUpFrom
  BY ChainAssumption DEF SetUp
<1>2. p \in Nat /\ p >= K
  <2>1. p = Period[c] * K /\ Period[c] \in Nat \ {0}
    BY ChainAssumption DEF Ticks
  <2> QED BY <1>1, <2>1
<1> HIDE DEF p
<1>3. n \in Int
  BY <1>1, <1>2
<1>4. first = FirstRelease(n, before, after, K)
  BY DEF p
<1> HIDE DEF n
<1>5. /\ first \in Int
      /\ n - first * K \in (after - before) - (K - 1)
                             .. (after - before) + 2 * (K - 1)
  <2>1. before \in Int /\ after \in Int
    BY <1>1
  <2> HIDE DEF K
  <2>2. /\ FirstRelease(n, before, after, K) \in Int
        /\ n - FirstRelease(n, before, after, K) * K
             \in (after - before) - (K - 1) .. (after - before) + 2 * (K - 1)
    BY <1>1, <1>3, <2>1, FirstReleaseFacts, Zenon
  <2> QED BY <1>4, <2>2
<1> HIDE DEF K
<1>6. first * K \in Int /\ n = created + p
  BY <1>1, <1>5 DEF n
<1>7. n - first * K \in -(K - 1) .. SetUpTo - SetUpFrom + 2 * (K - 1)
  BY <1>1, <1>3, <1>5, <1>6
<1>8. first * K > -K
  BY <1>1, <1>2, <1>6, <1>7
<1>9. first >= 0
  <2> SUFFICES ASSUME first <= -1 PROVE FALSE
    BY <1>5
  <2>1. first * K <= -K
    BY <1>1, <1>5
  <2> QED BY <1>1, <1>6, <1>8, <2>1
<1>10. n - first * K \in -Late .. Early
  BY <1>1, <1>7 DEF Late, Early, K
<1>11. Ticks(first) = first * K /\ created + Ticks(Period[c]) = n
  BY DEF Ticks, K, n, p
<1>12. (created + Ticks(Period[c])) - Ticks(first) = n - first * K
  BY <1>11, Zenon
<1> QED BY <1>5, <1>9, <1>10, <1>12

\* The state the program starts in: first[c] is the release that the first
\* deadline of c is for.
FirstDeadlines(first) ==
  \A c \in Chains :
    /\ nextCall[Triggered(c)] - Ticks(first[c]) \in -Late .. Early
    /\ deadlines[c] = [q \in Queues(c) |->
         IF q = 0 THEN <<first[c] + Deadline[c]>> ELSE <<>>]
    /\ IF HasTimer(c)
       THEN /\ LastFed(c) \in Fed(c)
            /\ releaseTime[c] = first[LastFed(c)]
            /\ nextCall[c] \in Nat \ {0}
       ELSE nextCall[c] = 0 /\ releaseTime[c] = 0

LEMMA InitFacts ==
  ASSUME Init
  PROVE  \E first \in [Chains -> Nat] : FirstDeadlines(first)
<1>1. PICK created, before, after \in [Chains -> SetUp] :
       LET first == [c \in Chains |-> FirstRelease(nextCall[Triggered(c)],
                                        before[c], after[c], TicksPerMs)]
       IN  /\ InOrder(before, after)
           /\ \A c, d \in Chains : created[c] <= before[d]
           /\ nextCall = [c \in Chains |->
                IF HasTimer(c) THEN created[c] + Ticks(Period[c]) ELSE NoTimer]
           /\ releaseTime = [c \in Chains |->
                IF HasTimer(c) THEN first[LastFed(c)] ELSE NoTimer]
           /\ deadlines = [c \in Chains |-> [q \in Queues(c) |->
                IF q = 0 THEN <<first[c] + Deadline[c]>> ELSE <<>>]]
  BY DEF Init
<1> DEFINE first == [c \in Chains |-> FirstRelease(nextCall[Triggered(c)],
                                        before[c], after[c], TicksPerMs)]
<1>2. /\ nextCall = [c \in Chains |->
           IF HasTimer(c) THEN created[c] + Ticks(Period[c]) ELSE NoTimer]
      /\ releaseTime = [c \in Chains |->
           IF HasTimer(c) THEN first[LastFed(c)] ELSE NoTimer]
      /\ deadlines = [c \in Chains |-> [q \in Queues(c) |->
           IF q = 0 THEN <<first[c] + Deadline[c]>> ELSE <<>>]]
  BY <1>1
<1>3. ASSUME NEW c \in Chains
      PROVE  /\ first[c] \in Nat
             /\ nextCall[Triggered(c)] - Ticks(first[c]) \in -Late .. Early
  <2> DEFINE t == Triggered(c)
  <2>1. t \in Chains /\ HasTimer(t)
    BY TriggeredFacts DEF Init
  <2> HIDE DEF t
  <2>2. nextCall[t] = created[t] + Ticks(Period[t])
    BY <1>2, <2>1
  <2>3. before[c] <= after[c]
    BY <1>1 DEF InOrder
  <2>4. first[c] = FirstRelease(created[t] + Ticks(Period[t]), before[c],
                                after[c], TicksPerMs)
    BY <2>2 DEF t
  <2> HIDE DEF first
  <2>5. created[t] \in SetUp /\ before[c] \in SetUp /\ after[c] \in SetUp
    BY <1>1, <2>1
  <2>6. /\ first[c] \in Nat
        /\ (created[t] + Ticks(Period[t])) - Ticks(first[c]) \in -Late .. Early
    BY <2>1, <2>3, <2>4, <2>5, SetUpFacts
  <2> QED BY <2>2, <2>6 DEF t
<1>4. first \in [Chains -> Nat]
  BY <1>3
<1>5. ASSUME NEW c \in Chains, HasTimer(c)
      PROVE  LastFed(c) \in Fed(c) /\ nextCall[c] \in Nat \ {0}
  <2>1. Fed(c) \subseteq {c, 1} /\ c \in Fed(c) /\ Chains \subseteq Nat
    BY <1>5, ChainAssumption DEF Fed, Triggered, HasTimer
  <2>2. \E d \in Fed(c) : \A e \in Fed(c) : e <= d
    <3>1. CASE 1 \in Fed(c) /\ c <= 1
      BY <2>1, <3>1
    <3>2. CASE ~(1 \in Fed(c) /\ c <= 1)
      BY <2>1, <3>2
    <3> QED BY <3>1, <3>2
  <2>3. LastFed(c) \in Fed(c)
    BY <2>2 DEF LastFed
  <2>4. nextCall[c] = created[c] + Ticks(Period[c])
    BY <1>2, <1>5
  <2>5. created[c] \in Nat /\ Ticks(Period[c]) \in Nat \ {0}
    <3>1. created[c] \in SetUp /\ SetUp \subseteq Nat
      BY <1>1, ChainAssumption DEF SetUp
    <3> QED BY <3>1, TicksFacts
  <2> QED BY <2>3, <2>4, <2>5
<1>6. ASSUME NEW c \in Chains
      PROVE  /\ deadlines[c] = [q \in Queues(c) |->
                  IF q = 0 THEN <<first[c] + Deadline[c]>> ELSE <<>>]
             /\ HasTimer(c) => releaseTime[c] = first[LastFed(c)]
             /\ ~HasTimer(c) => nextCall[c] = 0 /\ releaseTime[c] = 0
  BY <1>2 DEF NoTimer
<1> HIDE DEF first
<1>7. FirstDeadlines(first)
  BY <1>3, <1>5, <1>6 DEF FirstDeadlines
<1> QED BY <1>4, <1>7

-----------------------------------------------------------------------------
(***************************************************************************)
(* Types.                                                                  *)
(***************************************************************************)
LEMMA InitType == Init => TypeOK
<1> SUFFICES ASSUME Init PROVE TypeOK
  OBVIOUS
<1>1. PICK first \in [Chains -> Nat] : FirstDeadlines(first)
  BY InitFacts
<1>2. /\ isF1tenth \in F1tenth /\ now \in 0..MaxTime
      /\ \A c \in Chains : 0 \in Queues(c)
  <2>1. isF1tenth \in F1tenth /\ now = SetUpTo
    BY DEF Init
  <2>2. SetUpTo \in 0..MaxTime
    BY ChainAssumption
  <2> QED BY <2>1, <2>2, QueueCount
<1>3. /\ nextCall = [c \in Chains |-> nextCall[c]]
      /\ releaseTime = [c \in Chains |-> releaseTime[c]]
      /\ deadlines = [c \in Chains |-> deadlines[c]]
  BY DEF Init
<1>4. ASSUME NEW c \in Chains
      PROVE  nextCall[c] \in Nat /\ releaseTime[c] \in Nat
  <2>1. IF HasTimer(c)
        THEN /\ LastFed(c) \in Fed(c)
             /\ releaseTime[c] = first[LastFed(c)]
             /\ nextCall[c] \in Nat \ {0}
        ELSE nextCall[c] = 0 /\ releaseTime[c] = 0
    BY <1>1, Zenon DEF FirstDeadlines
  <2>2. Fed(c) \subseteq Chains
    BY DEF Fed
  <2> QED BY <2>1, <2>2
<1>5. nextCall \in [Chains -> Nat] /\ releaseTime \in [Chains -> Nat]
  BY <1>3, <1>4
<1>6. ASSUME NEW c \in Chains
      PROVE  deadlines[c] \in [Queues(c) -> Seq(Nat)]
  <2> DEFINE n == first[c] + Deadline[c]
  <2>1. deadlines[c] = [q \in Queues(c) |-> IF q = 0 THEN <<n>> ELSE <<>>]
    BY <1>1 DEF FirstDeadlines
  <2>2. n \in Nat
    BY ChainAssumption
  <2> HIDE DEF n
  <2>3. <<n>> \in Seq(Nat) /\ <<>> \in Seq(Nat)
    BY <2>2
  <2> QED BY <2>1, <2>3
<1>7. \A cb \in Callbacks : curIndex[cb] \in Queues(cb[1])
  <2>1. \A cb \in Callbacks : curIndex[cb] = 0
    BY DEF Init
  <2> QED BY <1>2, <2>1, CallbackFacts
<1>8. curIndex \in [Callbacks -> Nat]
  BY DEF Init
<1>9. /\ deadlines = [c \in Chains |-> deadlines[c]]
      /\ \A c \in Chains : deadlines[c] \in [Queues(c) -> Seq(Nat)]
  BY <1>3, <1>6, Zenon
<1> QED BY <1>2, <1>5, <1>7, <1>8, <1>9, CallbackFacts
        DEF Init, TypeOK, NoMessage

\* The bookkeeping of a callback that is taken.
LEMMA AccountType ==
  ASSUME TypeOK, NEW cb \in Callbacks, Account(cb), isF1tenth' = isF1tenth,
         cb \in Timers => HasTimer(cb[1])
  PROVE  /\ releaseTime' \in [Chains -> Nat]
         /\ deadlines' = [c \in Chains |-> deadlines'[c]]
         /\ \A c \in Chains : deadlines'[c] \in [Queues(c) -> Seq(Nat)]
         /\ curIndex' \in [Callbacks -> Nat]
         /\ \A b \in Callbacks : curIndex'[b] \in Queues(b[1])
         /\ counter' \in [Callbacks -> Nat]
<1>1. curIndex[cb] \in Queues(cb[1]) /\ cb[1] \in Chains
  BY CallbackFacts DEF TypeOK
<1>2. /\ curIndex' = [curIndex EXCEPT ![cb] = Advance(@, cb)]
      /\ counter' = [counter EXCEPT ![cb] = @ + 1]
  BY DEF Account
<1>3. Advance(curIndex[cb], cb) \in Queues(cb[1])
  BY <1>1, AdvanceFacts
<1>4. \A c \in Chains : Queues(c) \subseteq Nat
  BY QueueCount DEF Queues
<1>5. curIndex' \in [Callbacks -> Nat]
  BY <1>1, <1>2, <1>3, <1>4 DEF TypeOK
<1>6. \A b \in Callbacks : curIndex'[b] \in Queues(b[1])
  BY <1>2, <1>3 DEF TypeOK
<1>7. counter' \in [Callbacks -> Nat]
  BY <1>2 DEF TypeOK
<1>8. CASE cb \in Timers
  <2> DEFINE c0 == cb[1]
             t == Millis(now, TicksPerMs)
             r == NextRelease(releaseTime[c0], t, Period[c0])
             q == Advance(curIndex[cb], cb)
  <2>1. releaseTime' = [releaseTime EXCEPT ![c0] = r] /\ deadlines' = PushNext(c0, q, r)
    BY <1>8 DEF Account, TakeTimer
  <2>2. r \in Nat /\ r + Deadline[c0] \in Nat
    <3>1. releaseTime[c0] \in Nat /\ now \in Nat /\ Period[c0] \in Nat \ {0}
          /\ Deadline[c0] \in Nat /\ TicksPerMs \in Nat \ {0}
      BY <1>1, ChainAssumption DEF TypeOK
    <3>2. t \in Nat
      BY <3>1, MillisFacts
    <3> HIDE DEF t
    <3>3. AbsDiff(t, releaseTime[c0]) \in Nat
      BY <3>1, <3>2 DEF AbsDiff
    <3>4. CeilDiv(AbsDiff(t, releaseTime[c0]), Period[c0]) \in Nat
      BY <3>1, <3>3, CeilDivFacts
    <3>5. CeilDiv(AbsDiff(t, releaseTime[c0]), Period[c0]) * Period[c0] \in Nat
      BY <3>1, <3>4
    <3> QED BY <3>1, <3>5 DEF NextRelease
  <2> HIDE DEF r
  <2>3. \A c \in Chains : c \in Fed(c0) => q \in Queues(c)
    <3>1. \A c \in Chains : c \in Fed(c0) => MaxChainNum(c) = MaxChainNum(c0)
      BY TriggeredFacts DEF Fed, TypeOK
    <3> QED BY <1>3, <3>1 DEF Queues
  <2> HIDE DEF q
  <2>4. ASSUME NEW c \in Chains
        PROVE  deadlines'[c] \in [Queues(c) -> Seq(Nat)]
    <3>1. deadlines[c] \in [Queues(c) -> Seq(Nat)]
      BY DEF TypeOK
    <3>2. CASE c \in Fed(c0)
      <4>1. deadlines'[c] = [deadlines[c] EXCEPT ![q] = Append(@, r + Deadline[c0])]
        BY <2>1, <3>2 DEF PushNext
      <4>2. Append(deadlines[c][q], r + Deadline[c0]) \in Seq(Nat)
        BY <2>2, <2>3, <3>1, <3>2
      <4> QED BY <2>3, <3>1, <3>2, <4>1, <4>2
    <3>3. CASE c \notin Fed(c0)
      BY <2>1, <3>1, <3>3 DEF PushNext
    <3> QED BY <3>2, <3>3
  <2>5. deadlines' = [c \in Chains |-> deadlines'[c]]
    BY <2>1 DEF PushNext
  <2>6. releaseTime' \in [Chains -> Nat]
    BY <1>1, <2>1, <2>2 DEF TypeOK
  <2> QED BY <1>5, <1>6, <1>7, <2>4, <2>5, <2>6
<1>9. CASE cb \notin Timers
  <2> DEFINE c0 == cb[1]
             q == curIndex[cb]
  <2>1. /\ deadlines' = IF IsLast(cb)
                        THEN [deadlines EXCEPT ![c0][q] = PopFront(@)]
                        ELSE deadlines
        /\ releaseTime' = releaseTime
    BY <1>9 DEF Account, TakeSubscription
  <2>2. deadlines[c0][q] \in Seq(Nat)
    BY <1>1 DEF TypeOK
  <2>3. PopFront(deadlines[c0][q]) \in Seq(Nat)
    BY <2>2 DEF PopFront
  <2>4. ASSUME NEW c \in Chains
        PROVE  deadlines'[c] \in [Queues(c) -> Seq(Nat)]
    <3>1. deadlines[c] \in [Queues(c) -> Seq(Nat)]
      BY DEF TypeOK
    <3>2. CASE IsLast(cb) /\ c = c0
      <4>1. deadlines'[c] = [deadlines[c] EXCEPT ![q] = PopFront(@)]
        BY <1>1, <2>1, <3>2 DEF TypeOK
      <4> QED BY <1>1, <2>3, <3>1, <3>2, <4>1
    <3>3. CASE ~(IsLast(cb) /\ c = c0)
      <4>1. deadlines'[c] = deadlines[c]
        BY <1>1, <2>1, <3>3 DEF TypeOK
      <4> QED BY <3>1, <4>1
    <3> QED BY <3>2, <3>3
  <2>5. deadlines' = [c \in Chains |-> deadlines'[c]]
    BY <1>1, <2>1 DEF TypeOK
  <2>6. releaseTime' \in [Chains -> Nat]
    BY <2>1 DEF TypeOK
  <2> QED BY <1>5, <1>6, <1>7, <2>4, <2>5, <2>6
<1> QED BY <1>8, <1>9

\* Losing messages is counted in Nat.
LEMMA LostType ==
  ASSUME TypeOK, NEW S \in SUBSET Callbacks,
         lost' = [c \in Chains |-> lost[c] + OfChain(c, S)]
  PROVE  lost' \in [Chains -> Nat]
<1>1. \A c \in Chains : OfChain(c, S) \in Nat
  BY OfChainFacts
<1> QED BY <1>1 DEF TypeOK

LEMMA ExpireType ==
  ASSUME TypeOK, NEW g \in Groups, Expire(g)
  PROVE  gone' \subseteq Groups /\ mailbox' \in [Subscriptions -> Nat]
<1>1. /\ gone' = gone \union {g}
      /\ mailbox' = [s \in Subscriptions |->
           IF s \in Waiters(g) THEN NoMessage ELSE mailbox[s]]
  BY DEF Expire
<1> QED BY <1>1 DEF TypeOK, NoMessage

\* A timer is next called later than it was due.
CallLater(c) ==
  /\ NextCall(nextCall[c], now, Ticks(Period[c])) \in Nat
  /\ NextCall(nextCall[c], now, Ticks(Period[c])) > nextCall[c]

LEMMA CallIsLater ==
  ASSUME TypeOK, NEW c \in Chains
  PROVE  CallLater(c)
<1> DEFINE q == Ticks(Period[c])
           n == NextCall(nextCall[c], now, q)
<1>1. q \in Nat \ {0} /\ now \in Nat /\ nextCall[c] \in Nat
  BY TicksFacts, ChainAssumption DEF TypeOK
<1> HIDE DEF q
<1>2. PICK k \in Nat \ {0} : n = nextCall[c] + k * q
  BY <1>1, NextCallFacts, Zenon
<1>3. k * q \in Nat /\ k * q > 0
  BY <1>1
<1>4. n \in Nat /\ n > nextCall[c]
  <2> HIDE DEF n
  <2> QED BY <1>1, <1>2, <1>3
<1> QED BY <1>4 DEF CallLater, q

\* What the round has collected is still there, in a group that is free: a
\* callback that is chosen is idle, and ready.
RoundInv ==
  /\ \A cb \in candidates : Alive(cb) /\ GroupFree(cb)
  /\ ChoiceIsFresh

LEMMA NextIsIdle ==
  ASSUME TypeOK, RoundInv, NEW cb \in Callbacks, Choose(cb)
  PROVE  /\ IsNext(cb) /\ phase[cb] = "idle" /\ Ready(cb) /\ Alive(cb)
         /\ cb \in Timers => HasTimer(cb[1])
         /\ Account(cb) /\ round = "choosing" /\ candidates' = {}
<1>1. /\ IsNext(cb) /\ cb \in candidates /\ round = "choosing" /\ Account(cb)
      /\ candidates' = {}
  BY DEF Choose, IsNext
<1>2. Ready(cb) /\ GroupFree(cb)
  BY <1>1 DEF RoundInv, ChoiceIsFresh
<1>3. phase[cb] = "idle"
  BY <1>2 DEF GroupFree, Busy
<1> QED BY <1>1, <1>2, <1>3 DEF Ready

LEMMA StepType == TypeOK /\ RoundInv /\ [Next]_vars => TypeOK'
<1> SUFFICES ASSUME TypeOK, RoundInv, [Next]_vars PROVE TypeOK'
  OBVIOUS
<1>1. CASE UNCHANGED vars
  BY <1>1 DEF TypeOK, vars, timerVars, queueVars, roundVars, history, Queues
<1>2. ASSUME NEW cb \in Callbacks, Dispatch(cb) PROVE TypeOK'
  <2>1. /\ Choose(cb) /\ round' = "none" /\ candidates' = {}
        /\ phase' = IF cb \in scheduled THEN phase
                    ELSE [phase EXCEPT ![cb] = "taken"]
        /\ scheduled' = scheduled \union ({cb} \intersect Timers)
        /\ UNCHANGED <<isF1tenth, now, nextCall, mailbox, instance, gone, lost,
                       late>>
    BY <1>2 DEF Dispatch, Choose, history
  <2>2. Account(cb) /\ (cb \in Timers => HasTimer(cb[1]))
    BY <2>1, NextIsIdle
  <2>3. phase' \in [Callbacks -> {"idle", "taken", "running"}]
    BY <2>1 DEF TypeOK
  <2>4. scheduled' \subseteq Timers
    BY <2>1 DEF TypeOK
  <2> QED BY <2>1, <2>2, <2>3, <2>4, AccountType DEF TypeOK
<1>3. ASSUME NEW cb \in Callbacks, DispatchExpired(cb) PROVE TypeOK'
  <2> DEFINE g == GroupOf[cb]
             popped == {l \in Waiters(g) : l = cb /\ IsLast(l)}
             pushed == IF cb \in Timers THEN {<<c, 1>> : c \in Fed(cb[1])}
                                        ELSE {}
             S == (Waiters(g) \ popped) \union pushed
  <2>1. /\ Choose(cb) /\ Expire(g) /\ round' = "none" /\ candidates' = {}
        /\ lost' = [c \in Chains |-> lost[c] + OfChain(c, S)]
        /\ UNCHANGED <<isF1tenth, now, nextCall, phase, instance, scheduled,
                       late>>
    BY <1>3 DEF DispatchExpired, Choose
  <2>2. S \in SUBSET Callbacks
    BY CallbackFacts DEF Waiters, Fed
  <2> HIDE DEF S
  <2>3. lost' \in [Chains -> Nat]
    BY <2>1, <2>2, LostType
  <2>4. Account(cb) /\ (cb \in Timers => HasTimer(cb[1]))
    BY <2>1, NextIsIdle
  <2>5. gone' \subseteq Groups /\ mailbox' \in [Subscriptions -> Nat]
    BY <2>1, ExpireType DEF Groups
  <2> QED BY <2>1, <2>3, <2>4, <2>5, AccountType DEF TypeOK
<1>4. ASSUME NEW cb \in Callbacks, CallTimer(cb) PROVE TypeOK'
  <2> DEFINE n == NextCall(nextCall[cb[1]], now, Ticks(Period[cb[1]]))
  <2>1. /\ cb \in Timers
        /\ phase' = [phase EXCEPT ![cb] = "running"]
        /\ instance' = [instance EXCEPT ![cb] = nextCall[cb[1]]]
        /\ nextCall' = [nextCall EXCEPT ![cb[1]] = n]
        /\ UNCHANGED <<isF1tenth, now, releaseTime, deadlines, curIndex, counter,
                       mailbox, scheduled, gone, round, candidates, lost, late>>
    BY <1>4 DEF CallTimer, queueVars, roundVars, history
  <2>2. cb[1] \in Chains /\ nextCall[cb[1]] \in Nat
    BY CallbackFacts DEF TypeOK
  <2>3. n \in Nat
    BY <2>2, CallIsLater DEF CallLater
  <2> HIDE DEF n
  <2>4. nextCall' \in [Chains -> Nat]
    BY <2>1, <2>2, <2>3 DEF TypeOK
  <2>5. instance' \in [Callbacks -> Nat]
    BY <2>1, <2>2 DEF TypeOK
  <2>6. phase' \in [Callbacks -> {"idle", "taken", "running"}]
    BY <2>1 DEF TypeOK
  <2> QED BY <2>1, <2>4, <2>5, <2>6 DEF TypeOK, Queues
<1>5. ASSUME NEW cb \in Callbacks, TakeMessage(cb) PROVE TypeOK'
  <2>1. /\ cb \in Subscriptions
        /\ phase' = [phase EXCEPT ![cb] = "running"]
        /\ instance' = [instance EXCEPT ![cb] = mailbox[cb]]
        /\ mailbox' = [mailbox EXCEPT ![cb] = NoMessage]
        /\ UNCHANGED <<isF1tenth, now, nextCall, releaseTime, deadlines,
                       curIndex, counter, scheduled, gone, round, candidates,
                       lost, late>>
    BY <1>5 DEF TakeMessage, timerVars, queueVars, roundVars, history
  <2>2. instance' \in [Callbacks -> Nat] /\ mailbox' \in [Subscriptions -> Nat]
    BY <2>1 DEF TypeOK, NoMessage
  <2>3. phase' \in [Callbacks -> {"idle", "taken", "running"}]
    BY <2>1 DEF TypeOK
  <2> QED BY <2>1, <2>2, <2>3 DEF TypeOK, Queues
<1>6. ASSUME NEW cb \in Callbacks, Finish(cb) PROVE TypeOK'
  <2>1. /\ mailbox' = Published(cb)
        /\ phase' = [phase EXCEPT ![cb] = "idle"]
        /\ instance' = [instance EXCEPT ![cb] = NoMessage]
        /\ lost' = [c \in Chains |-> lost[c] + OfChain(c, Undelivered(cb))]
        /\ UNCHANGED <<isF1tenth, now, nextCall, releaseTime, deadlines,
                       curIndex, counter, scheduled, gone, round, candidates,
                       late>>
    BY <1>6 DEF Finish, timerVars, queueVars, roundVars
  <2>2. mailbox' \in [Subscriptions -> Nat]
    BY <2>1 DEF TypeOK, Published
  <2>3. lost' \in [Chains -> Nat]
    <3>1. Undelivered(cb) \in SUBSET Callbacks
      BY CallbackFacts DEF Undelivered, Overwrites, Subscribers
    <3> QED BY <2>1, <3>1, LostType
  <2>4. /\ phase' \in [Callbacks -> {"idle", "taken", "running"}]
        /\ instance' \in [Callbacks -> Nat]
    BY <2>1 DEF TypeOK, NoMessage
  <2> QED BY <2>1, <2>2, <2>3, <2>4 DEF TypeOK, Queues
<1>7. ASSUME NEW cb \in Callbacks, Unschedule(cb) PROVE TypeOK'
  BY <1>7 DEF Unschedule, TypeOK, timerVars, queueVars, roundVars, history,
              Queues
<1>8. ASSUME NEW g \in Groups, NodeExpires(g) PROVE TypeOK'
  <2>1. /\ Expire(g)
        /\ lost' = [c \in Chains |-> lost[c] + OfChain(c, Waiters(g))]
        /\ UNCHANGED <<isF1tenth, now, nextCall, releaseTime, deadlines,
                       curIndex, counter, phase, instance, scheduled, round,
                       candidates, late>>
    BY <1>8 DEF NodeExpires, timerVars, queueVars, roundVars
  <2>2. lost' \in [Chains -> Nat]
    <3>1. Waiters(g) \in SUBSET Callbacks
      BY CallbackFacts DEF Waiters
    <3> QED BY <2>1, <3>1, LostType
  <2> QED BY <2>1, <2>2, ExpireType DEF TypeOK, Queues
<1>9. CASE Tick
  <2>1. now' \in 0..MaxTime /\ late' \in BOOLEAN
    <3>1. late \in BOOLEAN
      BY DEF TypeOK
    <3> QED BY <1>9, <3>1, ChainAssumption DEF Tick, TypeOK
  <2> QED BY <1>9, <2>1
          DEF Tick, TypeOK, timerVars, queueVars, roundVars, Queues
<1>10. CASE Collect \/ Wait
  <2>1. /\ round' \in {"none", "waiting", "choosing"}
        /\ candidates' \subseteq Callbacks
    <3>1. CASE Collect
      BY <3>1 DEF Collect
    <3>2. CASE Wait
      BY <3>2 DEF Wait, TypeOK
    <3> QED BY <1>10, <3>1, <3>2
  <2>2. UNCHANGED <<isF1tenth, now, nextCall, releaseTime, deadlines, curIndex,
                    counter, mailbox, phase, instance, scheduled, gone, lost,
                    late>>
    BY <1>10 DEF Collect, Wait, timerVars, queueVars, history
  <2> QED BY <2>1, <2>2 DEF TypeOK, Queues
<1> QED BY <1>1, <1>2, <1>3, <1>4, <1>5, <1>6, <1>7, <1>8, <1>9, <1>10 DEF Next

-----------------------------------------------------------------------------
(***************************************************************************)
(* What a callback was taken for stays there until it runs, so does its    *)
(* node, and a chain without a timer never has its timer taken.            *)
(***************************************************************************)
HeldInv ==
  /\ \A c \in Chains : HasTimer(c) => nextCall[c] # NoTimer
  /\ \A c \in Chains : phase[<<c, 1>>] # "idle" => HasTimer(c)
  /\ \A cb \in Callbacks : phase[cb] # "idle" => Alive(cb)
  /\ \A cb \in Callbacks : phase[cb] = "running" => instance[cb] # NoMessage
  /\ \A s \in Subscriptions : phase[s] = "taken" => mailbox[s] # NoMessage

LEMMA InitHeld == Init => HeldInv
<1> SUFFICES ASSUME Init PROVE HeldInv
  OBVIOUS
<1>1. PICK first \in [Chains -> Nat] : FirstDeadlines(first)
  BY InitFacts
<1>2. \A c \in Chains : HasTimer(c) => nextCall[c] # NoTimer
  BY <1>1 DEF FirstDeadlines, NoTimer
<1>3. \A cb \in Callbacks : phase[cb] = "idle"
  BY DEF Init
<1> QED BY <1>2, <1>3, CallbackFacts DEF HeldInv

LEMMA ExpireHeld ==
  ASSUME TypeOK, HeldInv, NEW g \in Groups, Expire(g),
         UNCHANGED <<isF1tenth, phase, instance, nextCall>>
  PROVE  HeldInv'
<1>1. ASSUME NEW cb \in Callbacks, phase[cb] # "idle"
      PROVE  /\ GroupOf[cb] \notin gone'
             /\ cb \in Subscriptions => mailbox'[cb] = mailbox[cb]
  <2>1. /\ gone' = gone \union {g} /\ GroupOf[cb] # g
        /\ mailbox' = [s \in Subscriptions |->
             IF s \in Waiters(g) THEN NoMessage ELSE mailbox[s]]
    BY <1>1 DEF Expire, Busy
  <2>2. cb \notin Waiters(g)
    BY <2>1 DEF Waiters
  <2> QED BY <1>1, <2>1, <2>2 DEF HeldInv, Alive
<1> QED BY <1>1, CallbackFacts DEF HeldInv, Alive, HasTimer, Triggered

LEMMA StepHeld ==
  ASSUME TypeOK, RoundInv, HeldInv, [Next]_vars
  PROVE  HeldInv'
<1>1. ASSUME UNCHANGED <<isF1tenth, phase, gone, mailbox, instance, nextCall>>
      PROVE  HeldInv'
  BY <1>1 DEF HeldInv, Alive, HasTimer, Triggered
<1>2. ASSUME NEW cb \in Callbacks, Dispatch(cb) PROVE HeldInv'
  <2>1. /\ phase' \in {phase, [phase EXCEPT ![cb] = "taken"]}
        /\ UNCHANGED <<isF1tenth, gone, mailbox, instance, nextCall>>
    BY <1>2 DEF Dispatch
  <2>2. /\ Ready(cb) /\ Alive(cb)
        /\ cb \in Timers => HasTimer(cb[1])
        /\ cb \in Subscriptions => mailbox[cb] # NoMessage
    <3>1. Ready(cb) /\ Alive(cb) /\ (cb \in Timers => HasTimer(cb[1]))
      BY <1>2, NextIsIdle DEF Dispatch
    <3> QED BY <3>1, CallbackFacts DEF Ready
  <2>3. \A b \in Callbacks :
          phase'[b] = phase[b] \/ (b = cb /\ phase'[b] = "taken")
    BY <2>1 DEF TypeOK
  <2>4. UNCHANGED <<isF1tenth, phase, gone, mailbox, instance, nextCall>>
          \/ phase'[cb] = "taken"
    BY <2>1 DEF TypeOK
  <2>5. \A c \in Chains : phase'[<<c, 1>>] # "idle" => HasTimer(c)
    BY <2>2, <2>3, CallbackFacts DEF HeldInv
  <2> QED BY <2>1, <2>2, <2>3, <2>5, CallbackFacts
             DEF HeldInv, Alive, HasTimer, Triggered
<1>3. ASSUME NEW cb \in Callbacks, DispatchExpired(cb) PROVE HeldInv'
  BY <1>3, ExpireHeld DEF DispatchExpired, Groups
<1>4. ASSUME NEW cb \in Callbacks, CallTimer(cb) PROVE HeldInv'
  <2> DEFINE c == cb[1]
             n == NextCall(nextCall[c], now, Ticks(Period[c]))
  <2>1. /\ cb \in Timers /\ phase[cb] = "taken"
        /\ phase' = [phase EXCEPT ![cb] = "running"]
        /\ instance' = [instance EXCEPT ![cb] = nextCall[c]]
        /\ nextCall' = [nextCall EXCEPT ![c] = n]
        /\ UNCHANGED <<isF1tenth, mailbox, gone>>
    BY <1>4 DEF CallTimer
  <2>2. c \in Chains /\ cb = <<c, 1>> /\ cb \notin Subscriptions
    BY <2>1, CallbackFacts
  <2>3. HasTimer(c)
    BY <2>1, <2>2 DEF HeldInv
  <2>4. n # NoTimer
    <3>1. n \in Nat /\ n > nextCall[c] /\ nextCall[c] \in Nat
      BY <2>2, CallIsLater DEF CallLater, TypeOK
    <3> HIDE DEF n
    <3> QED BY <3>1 DEF NoTimer
  <2> HIDE DEF n
  <2>5. \A b \in Callbacks :
          /\ phase'[b] = IF b = cb THEN "running" ELSE phase[b]
          /\ instance'[b] = IF b = cb THEN nextCall[c] ELSE instance[b]
    BY <2>1 DEF TypeOK
  <2>6. \A d \in Chains : nextCall'[d] = IF d = c THEN n ELSE nextCall[d]
    BY <2>1 DEF TypeOK
  <2> QED BY <2>1, <2>2, <2>3, <2>4, <2>5, <2>6, CallbackFacts
             DEF HeldInv, Alive, HasTimer, Triggered, NoMessage, NoTimer
<1>5. ASSUME NEW cb \in Callbacks, TakeMessage(cb) PROVE HeldInv'
  <2>1. /\ cb \in Subscriptions /\ phase[cb] = "taken"
        /\ phase' = [phase EXCEPT ![cb] = "running"]
        /\ instance' = [instance EXCEPT ![cb] = mailbox[cb]]
        /\ mailbox' = [mailbox EXCEPT ![cb] = NoMessage]
        /\ UNCHANGED <<isF1tenth, nextCall, gone>>
    BY <1>5 DEF TakeMessage, timerVars
  <2>2. /\ \A b \in Callbacks :
             /\ phase'[b] = IF b = cb THEN "running" ELSE phase[b]
             /\ instance'[b] = IF b = cb THEN mailbox[cb] ELSE instance[b]
        /\ \A s \in Subscriptions : s # cb => mailbox'[s] = mailbox[s]
    BY <2>1 DEF TypeOK
  <2> QED BY <2>1, <2>2, CallbackFacts DEF HeldInv, Alive, HasTimer, Triggered
<1>6. ASSUME NEW cb \in Callbacks, Finish(cb) PROVE HeldInv'
  <2>1. /\ phase[cb] = "running" /\ gone' = gone
        /\ phase' = [phase EXCEPT ![cb] = "idle"]
        /\ instance' = [instance EXCEPT ![cb] = NoMessage]
        /\ \A s \in Subscriptions : mailbox'[s] \in {mailbox[s], instance[cb]}
        /\ UNCHANGED <<isF1tenth, nextCall>>
    BY <1>6 DEF Finish, Published, timerVars
  <2>2. instance[cb] # NoMessage
    BY <2>1 DEF HeldInv
  <2>3. \A b \in Callbacks :
          /\ phase'[b] = IF b = cb THEN "idle" ELSE phase[b]
          /\ b # cb => instance'[b] = instance[b]
    BY <2>1 DEF TypeOK
  <2> QED BY <2>1, <2>2, <2>3, CallbackFacts
             DEF HeldInv, Alive, HasTimer, Triggered
<1>7. ASSUME NEW g \in Groups, NodeExpires(g) PROVE HeldInv'
  BY <1>7, ExpireHeld DEF NodeExpires, timerVars
<1>8. ASSUME NEW cb \in Callbacks, Unschedule(cb) PROVE HeldInv'
  BY <1>1, <1>8 DEF Unschedule, timerVars
<1>9. CASE Tick \/ Collect \/ Wait \/ UNCHANGED vars
  BY <1>1, <1>9 DEF Tick, Collect, Wait, vars, timerVars
<1> QED BY <1>2, <1>3, <1>4, <1>5, <1>6, <1>7, <1>8, <1>9 DEF Next

-----------------------------------------------------------------------------
(***************************************************************************)
(* The round: what was ready when the wait was over is still so when the   *)
(* choice is made.                                                         *)
(***************************************************************************)
\* A step besides the round that keeps what was collected.
LEMMA RoundFrame ==
  ASSUME TypeOK, RoundInv, UNCHANGED <<isF1tenth, round, candidates>>,
         \A cb \in candidates : GroupOf[cb] \notin gone => GroupOf[cb] \notin gone',
         \A b \in Callbacks : phase'[b] # "idle" => phase[b] # "idle",
         \A cb \in candidates \intersect Timers :
           now >= nextCall[cb[1]] => now' >= nextCall'[cb[1]],
         \A cb \in candidates \intersect Subscriptions :
           mailbox[cb] # NoMessage => mailbox'[cb] # NoMessage
  PROVE  RoundInv'
<1>1. candidates \subseteq Callbacks
  BY DEF TypeOK
<1>2. ASSUME NEW cb \in candidates
      PROVE  /\ Alive(cb)' /\ GroupFree(cb)'
             /\ Ready(cb) => Ready(cb)'
  <2>1. Alive(cb) /\ GroupFree(cb)
    BY DEF RoundInv
  <2>2. Alive(cb)'
    BY <2>1 DEF Alive
  <2>3. GroupFree(cb)'
    BY <2>1 DEF GroupFree, Busy
  <2>4. ASSUME Ready(cb) PROVE Ready(cb)'
    <3>1. HasTimer(cb[1])' = HasTimer(cb[1])
      BY DEF HasTimer, Triggered
    <3>2. CASE cb \in Timers
      BY <2>2, <2>4, <3>1, <3>2 DEF Ready
    <3>3. CASE cb \notin Timers
      <4>1. cb \in Subscriptions
        BY <1>1, <3>3 DEF Callbacks
      <4> QED BY <2>2, <2>4, <3>3, <4>1 DEF Ready
    <3> QED BY <3>2, <3>3
  <2> QED BY <2>2, <2>3, <2>4
<1>3. \A cb \in candidates : Alive(cb)' /\ GroupFree(cb)'
  BY <1>2
<1>4. round = "choosing" => \A cb \in candidates : Ready(cb)' /\ GroupFree(cb)'
  BY <1>2 DEF RoundInv, ChoiceIsFresh
<1> QED BY <1>3, <1>4 DEF RoundInv, ChoiceIsFresh

\* A callback that is busy was not collected.
LEMMA BusyIsNoCandidate ==
  ASSUME TypeOK, RoundInv, NEW cb \in Callbacks, phase[cb] # "idle"
  PROVE  cb \notin candidates
BY DEF RoundInv, GroupFree, Busy

LEMMA StepRound ==
  ASSUME TypeOK, RoundInv, HeldInv, [Next]_vars
  PROVE  RoundInv'
<1>1. CASE UNCHANGED vars
  BY <1>1, RoundFrame DEF vars, timerVars, roundVars
<1>2. CASE Collect
  <2>1. candidates' = {cb \in Callbacks : Alive(cb) /\ GroupFree(cb)}
    BY <1>2 DEF Collect
  <2>2. round' = "waiting" /\ UNCHANGED <<gone, phase>>
    BY <1>2 DEF Collect
  <2>3. \A cb \in candidates' : Alive(cb)' /\ GroupFree(cb)'
    BY <2>1, <2>2 DEF Alive, GroupFree, Busy
  <2> QED BY <2>2, <2>3 DEF RoundInv, ChoiceIsFresh
<1>3. CASE Wait
  <2>1. /\ candidates' = {cb \in candidates : Ready(cb)}
        /\ UNCHANGED <<isF1tenth, now, nextCall, mailbox, gone, phase>>
    BY <1>3 DEF Wait, timerVars
  <2>2. \A cb \in candidates' : Alive(cb) /\ GroupFree(cb) /\ Ready(cb)
    BY <2>1 DEF RoundInv
  <2>3. \A cb \in candidates' : Alive(cb)' /\ GroupFree(cb)' /\ Ready(cb)'
    BY <2>1, <2>2 DEF Alive, GroupFree, Busy, Ready, HasTimer, Triggered
  <2> QED BY <2>3 DEF RoundInv, ChoiceIsFresh
<1>4. ASSUME NEW cb \in Callbacks, Dispatch(cb) \/ DispatchExpired(cb)
      PROVE  RoundInv'
  <2>1. candidates' = {}
    BY <1>4 DEF Dispatch, DispatchExpired, Choose
  <2> QED BY <2>1 DEF RoundInv, ChoiceIsFresh
<1>5. ASSUME NEW cb \in Callbacks, CallTimer(cb) PROVE RoundInv'
  <2>1. /\ cb \in Timers /\ phase[cb] = "taken"
        /\ phase' = [phase EXCEPT ![cb] = "running"]
        /\ \E n : nextCall' = [nextCall EXCEPT ![cb[1]] = n]
        /\ UNCHANGED <<isF1tenth, now, mailbox, gone, round, candidates>>
    BY <1>5 DEF CallTimer, roundVars
  <2>2. cb \notin candidates /\ cb[1] \in Chains /\ cb = <<cb[1], 1>>
    BY <2>1, BusyIsNoCandidate, CallbackFacts
  <2>3. \A b \in candidates \intersect Timers :
          b[1] # cb[1] /\ b[1] \in Chains /\ b[1] # cb[1]
    BY <2>2, CallbackFacts
  <2>4. \A b \in candidates \intersect Timers : nextCall'[b[1]] = nextCall[b[1]]
    BY <2>1, <2>3 DEF TypeOK
  <2>5. \A b \in Callbacks : phase'[b] # "idle" => phase[b] # "idle"
    BY <2>1 DEF TypeOK
  <2> QED BY <2>1, <2>4, <2>5, RoundFrame
<1>6. ASSUME NEW cb \in Callbacks, TakeMessage(cb) PROVE RoundInv'
  <2>1. /\ phase[cb] = "taken"
        /\ phase' = [phase EXCEPT ![cb] = "running"]
        /\ mailbox' = [mailbox EXCEPT ![cb] = NoMessage]
        /\ UNCHANGED <<isF1tenth, now, nextCall, gone, round, candidates>>
    BY <1>6 DEF TakeMessage, timerVars, roundVars
  <2>2. cb \notin candidates
    BY <2>1, BusyIsNoCandidate
  <2>3. \A b \in candidates \intersect Subscriptions : mailbox'[b] = mailbox[b]
    BY <2>1, <2>2 DEF TypeOK
  <2>4. \A b \in Callbacks : phase'[b] # "idle" => phase[b] # "idle"
    BY <2>1 DEF TypeOK
  <2> QED BY <2>1, <2>3, <2>4, RoundFrame
<1>7. ASSUME NEW cb \in Callbacks, Finish(cb) PROVE RoundInv'
  <2>1. /\ phase[cb] = "running"
        /\ phase' = [phase EXCEPT ![cb] = "idle"]
        /\ \A s \in Subscriptions : mailbox'[s] \in {mailbox[s], instance[cb]}
        /\ UNCHANGED <<isF1tenth, now, nextCall, gone, round, candidates>>
    BY <1>7 DEF Finish, Published, timerVars, roundVars
  <2>2. instance[cb] # NoMessage
    BY <2>1 DEF HeldInv
  <2>3. \A b \in Callbacks : phase'[b] # "idle" => phase[b] # "idle"
    BY <2>1 DEF TypeOK
  <2>4. \A s \in Subscriptions : mailbox[s] # NoMessage => mailbox'[s] # NoMessage
    BY <2>1, <2>2
  <2> QED BY <2>1, <2>3, <2>4, RoundFrame
<1>8. ASSUME NEW cb \in Callbacks, Unschedule(cb) PROVE RoundInv'
  BY <1>8, RoundFrame DEF Unschedule, timerVars, roundVars
<1>9. ASSUME NEW g \in Groups, NodeExpires(g) PROVE RoundInv'
  <2>1. /\ gone' = gone \union {g}
        /\ mailbox' = [s \in Subscriptions |->
             IF s \in Waiters(g) THEN NoMessage ELSE mailbox[s]]
        /\ \A cb \in candidates : GroupOf[cb] # g
        /\ UNCHANGED <<isF1tenth, now, nextCall, phase, round, candidates>>
    BY <1>9 DEF NodeExpires, Expire, timerVars, roundVars
  <2>2. \A s \in candidates \intersect Subscriptions : mailbox'[s] = mailbox[s]
    BY <2>1 DEF Waiters
  <2> QED BY <2>1, <2>2, RoundFrame
<1>10. CASE Tick
  <2>1. /\ now' = now + 1 /\ now \in Nat
        /\ UNCHANGED <<isF1tenth, nextCall, mailbox, phase, gone, round,
                       candidates>>
    BY <1>10, ChainAssumption DEF Tick, timerVars, roundVars, TypeOK
  <2>2. \A cb \in candidates \intersect Timers : nextCall[cb[1]] \in Nat
    BY CallbackFacts DEF TypeOK
  <2>3. \A cb \in candidates \intersect Timers :
          now >= nextCall[cb[1]] => now' >= nextCall'[cb[1]]
    BY <2>1, <2>2
  <2> QED BY <2>1, <2>3, RoundFrame
<1> QED BY <1>1, <1>2, <1>3, <1>4, <1>5, <1>6, <1>7, <1>8, <1>9, <1>10 DEF Next

BaseInv == TypeOK /\ HeldInv /\ RoundInv

LEMMA BaseInvariant == Spec => []BaseInv
<1>1. Init => BaseInv
  <2>1. Init => RoundInv
    BY DEF Init, RoundInv, ChoiceIsFresh
  <2> QED BY <2>1, InitType, InitHeld DEF BaseInv
<1>2. BaseInv /\ [Next]_vars => BaseInv'
  BY StepType, StepHeld, StepRound DEF BaseInv
<1> QED BY <1>1, <1>2, PTL DEF Spec

(***************************************************************************)
(* The state is well typed: every index a callback has counted up to is    *)
(* that of a queue there is (priority_memory_strategy.hpp:935-946).        *)
(***************************************************************************)
THEOREM TypeCorrect == Spec => []TypeOK
<1>1. BaseInv => TypeOK
  BY DEF BaseInv
<1> QED BY <1>1, BaseInvariant, PTL

(***************************************************************************)
(* What a thread chooses from is still there to be run, whatever the       *)
(* others do between its wait and its choice, also when timers are skipped *)
(* (priority_executor.cpp:498-538, 675-703).                               *)
(***************************************************************************)
THEOREM ChoiceStaysFresh == Spec => []ChoiceIsFresh
<1>1. BaseInv => ChoiceIsFresh
  BY DEF BaseInv, RoundInv
<1> QED BY <1>1, BaseInvariant, PTL

-----------------------------------------------------------------------------
(***************************************************************************)
(* The record of a timer's release.  It is less than a period ahead of the *)
(* timer; from the dispatch of the timer to its call, of what the call     *)
(* will make of it.                                                        *)
(***************************************************************************)
Ahead(x, c) ==
  IF phase[<<c, 1>>] = "taken"
  THEN /\ nextCall[c] <= now
       /\ \/ Ticks(x) < nextCall[c] + 2 * Ticks(Period[c])
          \/ Ticks(x) < now + Ticks(Period[c])
  ELSE Ticks(x) < nextCall[c] + Ticks(Period[c])

ReleaseInv == \A c \in Chains : Alive(<<c, 1>>) => Ahead(releaseTime[c], c)

LEMMA ClockTypes ==
  ASSUME TypeOK, NEW c \in Chains
  PROVE  /\ now \in Nat /\ nextCall[c] \in Nat /\ releaseTime[c] \in Nat
         /\ Period[c] \in Nat \ {0} /\ TicksPerMs \in Nat \ {0}
         /\ Ticks(Period[c]) \in Nat \ {0}
BY TicksFacts, ChainAssumption DEF TypeOK

LEMMA ClockTypes2 ==
  ASSUME TypeOK', NEW c \in Chains
  PROVE  now' \in Nat /\ nextCall'[c] \in Nat /\ releaseTime'[c] \in Nat
<1>1. now' \in 0..MaxTime /\ nextCall' \in [Chains -> Nat]
      /\ releaseTime' \in [Chains -> Nat]
  BY Zenon DEF TypeOK
<1>2. MaxTime \in Nat
  BY ChainAssumption
<1> QED BY <1>1, <1>2

\* A step that leaves the timer alone.
LEMMA AheadFrame ==
  ASSUME TypeOK, TypeOK', NEW c \in Chains, NEW x \in Int, Ahead(x, c),
         now <= now', nextCall'[c] = nextCall[c],
         (phase'[<<c, 1>>] = "taken") <=> (phase[<<c, 1>>] = "taken")
  PROVE  Ahead(x, c)'
<1> DEFINE q == Ticks(Period[c])
           y == Ticks(x)
<1>1. /\ now \in Nat /\ nextCall[c] \in Nat /\ q \in Nat /\ now' \in Nat
      /\ y \in Int
  BY ClockTypes, ClockTypes2, TicksFacts
<1>2. IF phase[<<c, 1>>] = "taken"
      THEN nextCall[c] <= now /\ (y < nextCall[c] + 2 * q \/ y < now + q)
      ELSE y < nextCall[c] + q
  BY DEF Ahead
<1> HIDE DEF q, y
<1>3. nextCall[c] <= now => nextCall[c] <= now'
  BY <1>1
<1>4. y < now + q => y < now' + q
  <2>1. PICK t \in Nat : t = now
    BY <1>1
  <2>2. PICK u \in Nat : u = now'
    BY <1>1
  <2>3. t <= u
    BY <2>1, <2>2
  <2>4. y < t + q => y < u + q
    BY <1>1, <2>3
  <2> QED BY <2>1, <2>2, <2>4
<1>5. IF phase'[<<c, 1>>] = "taken"
      THEN nextCall'[c] <= now' /\ (y < nextCall'[c] + 2 * q \/ y < now' + q)
      ELSE y < nextCall'[c] + q
  BY <1>2, <1>3, <1>4
<1> QED BY <1>5 DEF Ahead, q, y

\* The timer is dispatched.
LEMMA AheadDispatch ==
  ASSUME TypeOK, NEW c \in Chains, NEW x \in Int, Ahead(x, c),
         phase[<<c, 1>>] # "taken", phase'[<<c, 1>>] = "taken",
         now >= nextCall[c], UNCHANGED <<now, nextCall>>
  PROVE  Ahead(x, c)'
<1> DEFINE q == Ticks(Period[c])
           y == Ticks(x)
<1>1. now \in Nat /\ nextCall[c] \in Nat /\ q \in Nat /\ y \in Int
  BY ClockTypes, TicksFacts
<1>2. y < nextCall[c] + q
  BY DEF Ahead
<1> HIDE DEF q, y
<1>3. nextCall[c] <= now /\ y < nextCall[c] + 2 * q
  BY <1>1, <1>2
<1> QED BY <1>3 DEF Ahead, q, y

\* ... and called.
LEMMA AheadCall ==
  ASSUME TypeOK, NEW c \in Chains, NEW x \in Int, Ahead(x, c),
         phase[<<c, 1>>] = "taken", phase'[<<c, 1>>] # "taken",
         nextCall'[c] = NextCall(nextCall[c], now, Ticks(Period[c]))
  PROVE  Ahead(x, c)'
<1> DEFINE q == Ticks(Period[c])
           y == Ticks(x)
           n == NextCall(nextCall[c], now, q)
<1>1. now \in Nat /\ nextCall[c] \in Nat /\ q \in Nat \ {0} /\ y \in Int
  BY ClockTypes, TicksFacts
<1>2. y < nextCall[c] + 2 * q \/ y < now + q
  BY DEF Ahead
<1> HIDE DEF q, y
<1>3. nextCall'[c] = n
  BY DEF q
<1>4. n = NextCall(nextCall[c], now, q)
  OBVIOUS
<1> HIDE DEF n
<1>5. y < n + q
  <2>1. PICK m, t \in Nat : m = nextCall[c] /\ t = now
    BY <1>1
  <2>2. y < m + 2 * q \/ y < t + q
    BY <1>2, <2>1
  <2>3. n = NextCall(m, t, q)
    BY <1>4, <2>1
  <2> QED BY <1>1, <2>2, <2>3, RecordAfterCall
<1> QED BY <1>3, <1>5 DEF Ahead, q, y

\* What the strategy does to the record of the timer that is dispatched.
LEMMA RecordStep ==
  ASSUME TypeOK, NEW c \in Chains, Ahead(releaseTime[c], c),
         phase[<<c, 1>>] # "taken", now >= nextCall[c],
         NEW r, r = NextRelease(releaseTime[c], Millis(now, TicksPerMs), Period[c])
  PROVE  /\ r \in Nat /\ r >= releaseTime[c] + Period[c]
         /\ \/ Ticks(r) < nextCall[c] + 2 * Ticks(Period[c])
            \/ Ticks(r) < now + Ticks(Period[c])
<1> DEFINE K == TicksPerMs
           p == Period[c]
           x == releaseTime[c]
           n == nextCall[c]
<1>1. /\ p \in Nat \ {0} /\ K \in Nat \ {0} /\ now \in Nat /\ n \in Nat
      /\ x \in Nat
  BY ClockTypes
<1>2. x * K < n + p * K /\ n <= now
  BY <1>1 DEF Ahead, Ticks
<1>3. r = NextRelease(x, Millis(now, K), p)
  OBVIOUS
<1> HIDE DEF K, p, x, n
<1>4. /\ r \in Int /\ r >= x + p
      /\ r * K < n + 2 * (p * K) \/ r * K < now + p * K
  <2>1. x \in Int
    BY <1>1
  <2> QED BY <1>1, <1>2, <1>3, <2>1, RecordAfterDispatch, Zenon
<1> QED BY <1>1, <1>4 DEF K, p, x, n, Ticks

LEMMA InitAhead ==
  ASSUME Init, NEW first \in [Chains -> Nat], FirstDeadlines(first),
         NEW c \in Chains
  PROVE  Ahead(first[c], Triggered(c))
<1> DEFINE t == Triggered(c)
           q == Ticks(Period[t])
           y == Ticks(first[c])
<1>1. TypeOK /\ t \in Chains
  BY InitType, TriggeredFacts DEF Init
<1>2. phase[<<t, 1>>] = "idle"
  BY <1>1, CallbackFacts DEF Init
<1>3. q \in Nat \ {0} /\ nextCall[t] \in Nat
  BY <1>1, ClockTypes
<1>4. nextCall[t] - y \in -Late .. Early
  BY DEF FirstDeadlines
<1>5. Late \in Nat /\ Late < TicksPerMs /\ TicksPerMs \in Nat
  BY ChainAssumption DEF Late
<1>6. q >= TicksPerMs
  <2>1. q = Period[t] * TicksPerMs /\ Period[t] \in Nat \ {0}
    BY <1>1, ChainAssumption DEF Ticks
  <2> QED BY <1>5, <2>1
<1>7. y \in Nat
  BY TicksFacts
<1> HIDE DEF q, y
<1>8. nextCall[t] - y >= -Late
  <2>1. Early \in Int
    BY ChainAssumption DEF Early
  <2> QED BY <1>3, <1>4, <1>5, <1>7, <2>1
<1>9. y < nextCall[t] + q
  BY <1>3, <1>5, <1>6, <1>7, <1>8
<1> QED BY <1>2, <1>9 DEF Ahead, q, y

LEMMA InitRelease == Init => ReleaseInv
<1> SUFFICES ASSUME Init, NEW c \in Chains PROVE Ahead(releaseTime[c], c)
  BY DEF ReleaseInv
<1>1. TypeOK /\ phase[<<c, 1>>] = "idle"
  BY InitType, CallbackFacts DEF Init
<1>2. PICK first \in [Chains -> Nat] : FirstDeadlines(first)
  BY InitFacts
<1>3. CASE HasTimer(c)
  <2>1. /\ LastFed(c) \in Chains /\ Triggered(LastFed(c)) = c
        /\ releaseTime[c] = first[LastFed(c)]
    BY <1>2, <1>3 DEF FirstDeadlines, Fed
  <2>2. Ahead(first[LastFed(c)], Triggered(LastFed(c)))
    BY <1>2, <2>1, InitAhead
  <2> QED BY <2>1, <2>2
<1>4. CASE ~HasTimer(c)
  <2>1. releaseTime[c] = 0 /\ Ticks(0) = 0
    <3>1. releaseTime[c] = 0
      BY <1>2, <1>4 DEF FirstDeadlines
    <3>2. TicksPerMs \in Nat
      BY ChainAssumption
    <3> QED BY <3>1, <3>2 DEF Ticks
  <2>2. Ticks(Period[c]) \in Nat \ {0} /\ nextCall[c] \in Nat
    BY <1>1, ClockTypes
  <2> QED BY <1>1, <2>1, <2>2 DEF Ahead
<1> QED BY <1>3, <1>4

\* What was less than a period ahead stays so.
LEMMA StepAhead ==
  ASSUME BaseInv, TypeOK', [Next]_vars, NEW c \in Chains, NEW x \in Int,
         Ahead(x, c)
  PROVE  Ahead(x, c)'
<1> USE DEF BaseInv
<1> DEFINE t == <<c, 1>>
<1>1. t \in Timers /\ t \in Callbacks
  BY CallbackFacts
<1>2. now \in Int
  BY ChainAssumption DEF TypeOK
<1>3. CASE UNCHANGED vars
  BY <1>2, <1>3, AheadFrame DEF vars, timerVars
<1>4. ASSUME NEW cb \in Callbacks, Dispatch(cb) PROVE Ahead(x, c)'
  <2>1. /\ Choose(cb)
        /\ phase' \in {phase, [phase EXCEPT ![cb] = "taken"]}
        /\ UNCHANGED <<isF1tenth, now, nextCall>>
    BY <1>4 DEF Dispatch
  <2>2. phase[cb] = "idle" /\ Ready(cb)
    BY <2>1, NextIsIdle
  <2>3. CASE phase'[t] = phase[t]
    BY <1>2, <2>1, <2>3, AheadFrame
  <2>4. CASE phase'[t] # phase[t]
    <3>1. cb = t /\ phase'[t] = "taken"
      BY <1>1, <2>1, <2>4 DEF TypeOK
    <3>2. now >= nextCall[c] /\ phase[t] # "taken"
      BY <1>1, <2>2, <3>1 DEF Ready
    <3> QED BY <2>1, <3>1, <3>2, AheadDispatch
  <2> QED BY <2>3, <2>4
<1>5. ASSUME NEW cb \in Callbacks, DispatchExpired(cb) PROVE Ahead(x, c)'
  BY <1>2, <1>5, AheadFrame DEF DispatchExpired
<1>6. ASSUME NEW cb \in Callbacks, CallTimer(cb) PROVE Ahead(x, c)'
  <2>1. /\ cb \in Timers /\ phase[cb] = "taken"
        /\ phase' = [phase EXCEPT ![cb] = "running"]
        /\ nextCall' = [nextCall EXCEPT
                          ![cb[1]] = NextCall(@, now, Ticks(Period[cb[1]]))]
        /\ UNCHANGED <<isF1tenth, now>>
    BY <1>6 DEF CallTimer
  <2>2. CASE cb = t
    <3>1. nextCall'[c] = NextCall(nextCall[c], now, Ticks(Period[c]))
      BY <2>1, <2>2 DEF TypeOK
    <3>2. phase'[t] = "running"
      BY <1>1, <2>1, <2>2 DEF TypeOK
    <3> QED BY <2>1, <2>2, <3>1, <3>2, AheadCall
  <2>3. CASE cb # t
    <3>1. cb[1] # c
      BY <2>1, <2>3, CallbackFacts
    <3>2. nextCall'[c] = nextCall[c] /\ phase'[t] = phase[t]
      BY <1>1, <2>1, <2>3, <3>1 DEF TypeOK
    <3> QED BY <1>2, <2>1, <3>2, AheadFrame
  <2> QED BY <2>2, <2>3
<1>7. ASSUME NEW cb \in Callbacks, TakeMessage(cb) \/ Finish(cb)
      PROVE  Ahead(x, c)'
  <2>1. /\ phase' \in {[phase EXCEPT ![cb] = "running"],
                       [phase EXCEPT ![cb] = "idle"]}
        /\ cb = t => phase[cb] = "running"
        /\ UNCHANGED <<now, nextCall>>
    BY <1>1, <1>7, CallbackFacts DEF TakeMessage, Finish, timerVars
  <2>2. (phase'[t] = "taken") <=> (phase[t] = "taken")
    BY <1>1, <2>1 DEF TypeOK
  <2> QED BY <1>2, <2>1, <2>2, AheadFrame
<1>8. ASSUME NEW cb \in Callbacks, Unschedule(cb) PROVE Ahead(x, c)'
  BY <1>2, <1>8, AheadFrame DEF Unschedule, timerVars
<1>9. ASSUME NEW g \in Groups, NodeExpires(g) PROVE Ahead(x, c)'
  BY <1>2, <1>9, AheadFrame DEF NodeExpires, timerVars
<1>10. CASE Tick
  <2>1. now <= now'
    BY <1>2, <1>10 DEF Tick
  <2> QED BY <1>10, <2>1, AheadFrame DEF Tick, timerVars
<1>11. CASE Collect \/ Wait
  <2>1. UNCHANGED <<now, nextCall, phase>>
    BY <1>11 DEF Collect, Wait, timerVars
  <2> QED BY <1>2, <2>1, AheadFrame
<1> QED BY <1>3, <1>4, <1>5, <1>6, <1>7, <1>8, <1>9, <1>10, <1>11 DEF Next

\* The record of a timer changes with its dispatch only.
LEMMA RecordChange ==
  ASSUME BaseInv, [Next]_vars, NEW c \in Chains,
         releaseTime'[c] # releaseTime[c]
  PROVE  Dispatch(<<c, 1>>) \/ DispatchExpired(<<c, 1>>)
<1>1. PICK cb \in Callbacks : Dispatch(cb) \/ DispatchExpired(cb)
  BY DEF Next, Collect, Wait, CallTimer, TakeMessage, Finish, Unschedule,
         NodeExpires, Tick, vars, timerVars
<1>2. Account(cb)
  BY <1>1 DEF Dispatch, DispatchExpired, Choose
<1>3. cb \in Timers
  BY <1>2 DEF Account, TakeSubscription
<1>4. cb[1] = c
  BY <1>2, <1>3 DEF Account, TakeTimer, BaseInv, TypeOK
<1> QED BY <1>1, <1>3, <1>4, CallbackFacts

LEMMA StepRelease ==
  ASSUME ~MayOverrun, BaseInv, TypeOK', ReleaseInv, [Next]_vars
  PROVE  ReleaseInv'
<1> SUFFICES ASSUME NEW c \in Chains, Alive(<<c, 1>>)'
             PROVE  Ahead(releaseTime[c], c)'
  BY DEF ReleaseInv
<1> DEFINE t == <<c, 1>>
<1>1. t \in Timers /\ t \in Callbacks
  BY CallbackFacts
<1>2. Ahead(releaseTime[c], c)
  <2>1. gone \subseteq gone'
    BY DEF Next, Collect, Wait, Dispatch, DispatchExpired, CallTimer,
           TakeMessage, Finish, Unschedule, NodeExpires, Expire, Tick, vars
  <2> QED BY <2>1 DEF ReleaseInv, Alive
<1>3. CASE releaseTime'[c] = releaseTime[c]
  <2>1. PICK x \in Nat : x = releaseTime[c]
    BY ClockTypes DEF BaseInv
  <2>2. Ahead(x, c)'
    BY <1>2, <2>1, StepAhead
  <2> QED BY <1>3, <2>1, <2>2 DEF Ahead
<1>4. CASE Dispatch(t)
  <2>1. /\ Choose(t) /\ phase' = [phase EXCEPT ![t] = "taken"]
        /\ UNCHANGED <<isF1tenth, now, nextCall>>
    BY <1>4 DEF Dispatch
  <2>2. phase[t] = "idle" /\ Ready(t) /\ Account(t)
    BY <1>1, <2>1, NextIsIdle DEF BaseInv
  <2>3. now >= nextCall[c] /\ phase[t] # "taken" /\ phase'[t] = "taken"
    BY <1>1, <2>1, <2>2 DEF Ready, BaseInv, TypeOK
  <2>4. PICK r : r = NextRelease(releaseTime[c], Millis(now, TicksPerMs),
                                 Period[c])
    OBVIOUS
  <2>5. \/ Ticks(r) < nextCall[c] + 2 * Ticks(Period[c])
        \/ Ticks(r) < now + Ticks(Period[c])
    BY <1>2, <2>3, <2>4, RecordStep DEF BaseInv
  <2>6. releaseTime'[c] = r
    BY <1>1, <2>2, <2>4 DEF Account, TakeTimer, BaseInv, TypeOK
  <2>7. nextCall[c] <= now
    BY <2>3, ClockTypes DEF BaseInv
  <2>8. Ahead(r, c)'
    BY <2>1, <2>3, <2>5, <2>7 DEF Ahead
  <2> QED BY <2>6, <2>8 DEF Ahead
<1>5. CASE DispatchExpired(t)
  BY <1>5 DEF DispatchExpired, Expire, Alive
<1> QED BY <1>3, <1>4, <1>5, RecordChange

LEMMA ReleaseInvariant ==
  ASSUME ~MayOverrun
  PROVE  Spec => [](BaseInv /\ ReleaseInv)
<1>1. BaseInv /\ ReleaseInv /\ [Next]_vars => (BaseInv /\ ReleaseInv)'
  BY StepType, StepHeld, StepRound, StepRelease DEF BaseInv
<1>2. Init => ReleaseInv
  BY InitRelease
<1>3. Init => BaseInv
  BY InitType, InitHeld DEF BaseInv, Init, RoundInv, ChoiceIsFresh
<1> QED BY <1>1, <1>2, <1>3, PTL DEF Spec

(***************************************************************************)
(* The recorded release of a timer is less than a period ahead of the      *)
(* timer (priority_memory_strategy.hpp:797-829), however late it is, as    *)
(* long as no timer is chosen again before its last execution is erased    *)
(* from scheduled_timers_.                                                 *)
(***************************************************************************)
THEOREM RecordStaysWithinAPeriod ==
  ASSUME ~MayOverrun
  PROVE  Spec => []RecordWithinAPeriod
<1>1. ReleaseInv => RecordWithinAPeriod
  BY DEF ReleaseInv, RecordWithinAPeriod, Ahead
<1> QED BY ReleaseInvariant, <1>1, PTL


-----------------------------------------------------------------------------
(***************************************************************************)
(* The callbacks of a chain, in order.                                     *)
(***************************************************************************)
Trigger(c) == <<Triggered(c), 1>>
Final(c) == <<c, Length[c]>>
At(c, k) == IF k = 1 THEN Trigger(c) ELSE <<c, k>>

\* How many runs of a callback have ended, and how many messages a subscription
\* was given, those not counted that were lost to it.
Done == [cb \in Callbacks |->
  IF phase[cb] = "idle" THEN counter[cb] ELSE counter[cb] - 1]
Given == [s \in Subscriptions |->
  IF mailbox[s] # NoMessage /\ phase[s] # "taken"
  THEN counter[s] + 1 ELSE counter[s]]

OrderInv ==
  \A c \in Chains : \A j, k \in 1..Length[c] :
    j < k => Given[<<c, k>>] <= Done[At(c, j)]

LEMMA PlaceFacts ==
  ASSUME TypeOK, NEW c \in Chains
  PROVE  /\ Trigger(c) \in Timers /\ Trigger(c) \in Callbacks
         /\ Final(c) \in Subscriptions /\ Final(c) \in Callbacks
         /\ \A k \in 1..Length[c] : At(c, k) \in Callbacks
         /\ \A k \in 2..Length[c] : <<c, k>> \in Subscriptions
         /\ \A k \in 2..Length[c] : <<c, k>> \in Callbacks
         /\ Length[c] \in Nat /\ Length[c] >= 2
<1>1. Length[c] \in Nat /\ Length[c] >= 2
  BY ChainAssumption
<1>2. Triggered(c) \in Chains
  BY TriggeredFacts DEF TypeOK
<1> QED BY <1>1, <1>2, CallbackFacts DEF Trigger, Final, At

LEMMA CountType ==
  ASSUME TypeOK
  PROVE  /\ \A cb \in Callbacks : Done[cb] \in Int /\ Done[cb] <= counter[cb]
         /\ \A s \in Subscriptions : Given[s] \in Int /\ counter[s] <= Given[s]
         /\ \A cb \in Callbacks : counter[cb] \in Nat
<1>1. \A cb \in Callbacks : counter[cb] \in Nat
  BY DEF TypeOK
<1> QED BY <1>1, CallbackFacts DEF Done, Given

LEMMA CountType2 ==
  ASSUME TypeOK'
  PROVE  /\ \A cb \in Callbacks : Done'[cb] \in Int /\ Done'[cb] <= counter'[cb]
         /\ \A s \in Subscriptions : Given'[s] \in Int /\ counter'[s] <= Given'[s]
         /\ \A cb \in Callbacks : counter'[cb] \in Nat
<1>1. \A cb \in Callbacks : counter'[cb] \in Nat
  BY DEF TypeOK
<1> QED BY <1>1, CallbackFacts DEF Done, Given

LEMMA InitOrder == Init => OrderInv
<1> SUFFICES ASSUME Init, NEW c \in Chains, NEW j \in 1..Length[c],
                    NEW k \in 1..Length[c], j < k
             PROVE  Given[<<c, k>>] <= Done[At(c, j)]
  BY DEF OrderInv
<1>1. TypeOK
  BY InitType
<1>2. k \in 2..Length[c]
  BY <1>1, PlaceFacts
<1>3. Given[<<c, k>>] = 0
  BY <1>1, <1>2, PlaceFacts DEF Init, Given
<1>4. Done[At(c, j)] = 0
  BY <1>1, PlaceFacts DEF Init, Done
<1> QED BY <1>3, <1>4

\* A step that gives nothing to a subscription.
LEMMA OrderFrame ==
  ASSUME TypeOK, TypeOK', OrderInv, isF1tenth' = isF1tenth,
         \A s \in Subscriptions : Given'[s] <= Given[s],
         \A b \in Callbacks : Done[b] <= Done'[b]
  PROVE  OrderInv'
<1> SUFFICES ASSUME NEW c \in Chains, NEW j \in 1..Length[c],
                    NEW k \in 1..Length[c], j < k
             PROVE  Given'[<<c, k>>] <= Done'[At(c, j)']
  BY DEF OrderInv
<1> DEFINE s == <<c, k>>
           b == At(c, j)
<1>1. k \in 2..Length[c]
  BY PlaceFacts
<1>2. s \in Subscriptions /\ b \in Callbacks
  BY <1>1, PlaceFacts
<1>3. Given[s] <= Done[b]
  BY DEF OrderInv
<1>4. At(c, j)' = b
  BY DEF At, Trigger, Triggered
<1>5. Done'[At(c, j)'] = Done'[b]
  BY <1>4 DEF Done
<1> HIDE DEF s, b
<1>6. Given[s] \in Int /\ Given'[s] \in Int /\ Done[b] \in Int /\ Done'[b] \in Int
  BY <1>2, CountType, CountType2
<1>7. Given'[s] <= Given[s] /\ Done[b] <= Done'[b]
  BY <1>2
<1> QED BY <1>3, <1>5, <1>6, <1>7 DEF s

\* Who feeds a subscription.
LEMMA PredecessorFacts ==
  ASSUME TypeOK, HeldInv, NEW cb \in Callbacks, phase[cb] # "idle",
         NEW c \in Chains, NEW k \in 2..Length[c], <<c, k>> \in Subscribers(cb)
  PROVE  cb = At(c, k - 1)
<1>1. /\ k = cb[2] + 1
      /\ c = cb[1] \/ (cb \in Timers /\ c \in Fed(cb[1]))
  BY DEF Subscribers
<1>2. k \in Nat
  BY PlaceFacts
<1>3. CASE cb \in Timers
  <2>1. cb = <<cb[1], 1>> /\ cb[1] \in Chains /\ k = 2
    BY <1>1, <1>3, CallbackFacts
  <2>2. HasTimer(cb[1])
    BY <2>1 DEF HeldInv
  <2>3. Triggered(c) = cb[1]
    BY <1>1, <2>2 DEF Fed, HasTimer
  <2> QED BY <2>1, <2>3 DEF At, Trigger
<1>4. CASE cb \notin Timers
  <2>1. cb \in Subscriptions
    BY <1>4 DEF Callbacks
  <2>2. cb = <<c, k - 1>> /\ k - 1 # 1
    BY <1>1, <1>2, <1>4, <2>1, CallbackFacts
  <2> QED BY <2>2 DEF At
<1> QED BY <1>3, <1>4

LEMMA FinishOrder ==
  ASSUME TypeOK, TypeOK', HeldInv, OrderInv, NEW cb \in Callbacks, Finish(cb)
  PROVE  OrderInv'
<1>1. /\ phase[cb] = "running"
      /\ mailbox' = Published(cb)
      /\ phase' = [phase EXCEPT ![cb] = "idle"]
      /\ counter' = counter /\ isF1tenth' = isF1tenth
  BY DEF Finish, queueVars
<1> SUFFICES ASSUME NEW c \in Chains, NEW j \in 1..Length[c],
                    NEW k \in 1..Length[c], j < k
             PROVE  Given'[<<c, k>>] <= Done'[At(c, j)']
  BY DEF OrderInv
<1> DEFINE s == <<c, k>>
           b == At(c, j)
<1>2. k \in 2..Length[c] /\ k - 1 \in 1..Length[c] /\ j \in Nat /\ k \in Nat
  BY PlaceFacts
<1>3. s \in Subscriptions /\ b \in Callbacks /\ s \in Callbacks
  BY <1>2, PlaceFacts
<1>4. Given[s] <= Done[b]
  BY DEF OrderInv
<1>5. At(c, j)' = b
  BY <1>1 DEF At, Trigger, Triggered
<1>6. Done'[At(c, j)'] = Done'[b]
  BY <1>5 DEF Done
<1>7. /\ Given[s] \in Int /\ Given'[s] \in Int
      /\ Done[b] \in Int /\ Done'[b] \in Int /\ counter[s] \in Nat
      /\ counter[cb] \in Nat /\ counter[s] <= Given[s]
      /\ counter[b] \in Nat
  BY <1>3, CountType, CountType2
<1>8. \A x \in Callbacks : phase'[x] = IF x = cb THEN "idle" ELSE phase[x]
  BY <1>1 DEF TypeOK
<1>9. Done'[b] = IF b = cb THEN Done[b] + 1 ELSE Done[b]
  <2> HIDE DEF s, b
  <2> QED BY <1>1, <1>3, <1>7, <1>8 DEF Done
<1>10. CASE s \notin Subscribers(cb)
  <2>1. mailbox'[s] = mailbox[s]
    BY <1>1, <1>3, <1>10 DEF Published
  <2> HIDE DEF s, b
  <2>2. phase'[s] = "taken" <=> phase[s] = "taken"
    BY <1>1, <1>3, <1>8
  <2>3. Given'[s] = Given[s]
    BY <1>1, <1>3, <2>1, <2>2 DEF Given
  <2>4. Given'[s] <= Done'[b]
    BY <1>4, <1>7, <1>9, <2>3
  <2> QED BY <1>6, <2>4 DEF s
<1>11. CASE s \in Subscribers(cb)
  <2>1. Given'[s] <= counter[s] + 1
    <3> HIDE DEF s, b
    <3> QED BY <1>1, <1>3, <1>7 DEF Given
  <2>2. counter[s] + 1 <= Done'[b]
    <3>1. CASE b = cb
      <4> HIDE DEF s, b
      <4> QED BY <1>4, <1>7, <1>9, <3>1
    <3>2. CASE b # cb
      <4>1. cb = At(c, k - 1)
        BY <1>1, <1>2, <1>11, PredecessorFacts
      <4>2. j < k - 1 /\ k - 1 # 1
        BY <1>2, <3>2, <4>1
      <4>3. cb = <<c, k - 1>> /\ cb \in Subscriptions
        BY <1>2, <4>1, <4>2, PlaceFacts DEF At
      <4>4. Given[cb] <= Done[b]
        BY <1>2, <4>2, <4>3 DEF OrderInv
      <4>5. Given[s] <= Done[cb]
        BY <1>2, <4>1 DEF OrderInv
      <4>6. Done[cb] = counter[cb] - 1
        BY <1>1 DEF Done
      <4>7. counter[cb] <= Given[cb] /\ Given[cb] \in Int
        BY <4>3, CountType
      <4> HIDE DEF s, b
      <4> QED BY <1>7, <1>9, <3>2, <4>4, <4>5, <4>6, <4>7
    <3> QED BY <3>1, <3>2
  <2> HIDE DEF s, b
  <2>3. Given'[s] <= Done'[b]
    BY <1>7, <2>1, <2>2
  <2> QED BY <1>6, <2>3 DEF s
<1> QED BY <1>10, <1>11

\* What every step that dispatches has done.
LEMMA DispatchFacts ==
  ASSUME ~MayOverrun, BaseInv, NEW cb \in Callbacks, Dispatch(cb)
  PROVE  /\ Choose(cb) /\ IsNext(cb) /\ Account(cb) /\ phase[cb] = "idle"
         /\ Ready(cb) /\ Alive(cb) /\ cb \notin scheduled
         /\ cb \in Timers => HasTimer(cb[1])
         /\ phase' = [phase EXCEPT ![cb] = "taken"]
         /\ counter' = [counter EXCEPT ![cb] = @ + 1]
         /\ UNCHANGED <<isF1tenth, now, nextCall, mailbox, instance, gone, lost,
                        late>>
<1>1. /\ Choose(cb) /\ cb \notin scheduled
      /\ phase' = [phase EXCEPT ![cb] = "taken"]
      /\ UNCHANGED <<isF1tenth, now, nextCall, mailbox, instance, gone, lost,
                     late>>
  BY DEF Dispatch, history
<1>2. /\ IsNext(cb) /\ Account(cb) /\ phase[cb] = "idle" /\ Ready(cb)
      /\ Alive(cb) /\ (cb \in Timers => HasTimer(cb[1]))
  BY <1>1, NextIsIdle DEF BaseInv
<1>3. counter' = [counter EXCEPT ![cb] = @ + 1]
  BY <1>2 DEF Account
<1> QED BY <1>1, <1>2, <1>3

LEMMA DispatchExpiredFacts ==
  ASSUME BaseInv, NEW cb \in Callbacks, DispatchExpired(cb)
  PROVE  /\ Choose(cb) /\ IsNext(cb) /\ Account(cb) /\ phase[cb] = "idle"
         /\ Ready(cb) /\ Alive(cb)
         /\ cb \in Timers => HasTimer(cb[1])
         /\ counter' = [counter EXCEPT ![cb] = @ + 1]
         /\ cb \in Subscriptions => mailbox[cb] # NoMessage
         /\ \A s \in Subscriptions :
              /\ mailbox'[s] \in {mailbox[s], NoMessage}
              /\ s = cb => mailbox'[s] = NoMessage
         /\ UNCHANGED <<isF1tenth, now, nextCall, phase, instance, late>>
<1> DEFINE g == GroupOf[cb]
<1>1. /\ Choose(cb)
      /\ mailbox' = [s \in Subscriptions |->
           IF s \in Waiters(g) THEN NoMessage ELSE mailbox[s]]
      /\ UNCHANGED <<isF1tenth, now, nextCall, phase, instance, late>>
  BY DEF DispatchExpired, Expire
<1>2. /\ IsNext(cb) /\ Account(cb) /\ phase[cb] = "idle" /\ Ready(cb)
      /\ Alive(cb) /\ (cb \in Timers => HasTimer(cb[1]))
  BY <1>1, NextIsIdle DEF BaseInv
<1>3. counter' = [counter EXCEPT ![cb] = @ + 1]
  BY <1>2 DEF Account
<1>4. cb \in Subscriptions => mailbox[cb] # NoMessage
  BY <1>2, CallbackFacts DEF Ready
<1>5. cb \in Subscriptions => cb \in Waiters(g)
  BY <1>4 DEF Waiters
<1>6. \A s \in Subscriptions :
        /\ mailbox'[s] \in {mailbox[s], NoMessage}
        /\ s = cb => mailbox'[s] = NoMessage
  BY <1>1, <1>5
<1> QED BY <1>1, <1>2, <1>3, <1>4, <1>6

LEMMA StepOrder ==
  ASSUME ~MayOverrun, BaseInv, TypeOK', OrderInv, [Next]_vars
  PROVE  OrderInv'
<1> USE DEF BaseInv
<1>0. /\ \A b \in Callbacks : counter[b] \in Nat
      /\ Subscriptions \subseteq Callbacks
  BY CountType, CallbackFacts
<1>1. CASE UNCHANGED <<isF1tenth, counter, phase, mailbox>>
  BY <1>1 DEF OrderInv, At, Trigger, Triggered, Given, Done
<1>2. ASSUME NEW cb \in Callbacks, Dispatch(cb) PROVE OrderInv'
  <2>1. /\ phase[cb] = "idle" /\ Ready(cb)
        /\ phase' = [phase EXCEPT ![cb] = "taken"]
        /\ counter' = [counter EXCEPT ![cb] = @ + 1]
        /\ isF1tenth' = isF1tenth /\ mailbox' = mailbox
    BY <1>2, DispatchFacts
  <2>2. \A b \in Callbacks :
          /\ phase'[b] = IF b = cb THEN "taken" ELSE phase[b]
          /\ counter'[b] = IF b = cb THEN counter[b] + 1 ELSE counter[b]
    BY <2>1 DEF TypeOK
  <2>3. cb \in Subscriptions => mailbox[cb] # NoMessage
    BY <2>1, CallbackFacts DEF Ready
  <2>4. \A s \in Subscriptions : Given'[s] <= Given[s]
    BY <1>0, <2>1, <2>2, <2>3 DEF Given
  <2>5. \A b \in Callbacks : Done[b] <= Done'[b]
    BY <1>0, <2>1, <2>2 DEF Done
  <2> QED BY <2>1, <2>4, <2>5, OrderFrame
<1>3. ASSUME NEW cb \in Callbacks, DispatchExpired(cb) PROVE OrderInv'
  <2>1. /\ phase[cb] = "idle" /\ phase' = phase
        /\ counter' = [counter EXCEPT ![cb] = @ + 1]
        /\ isF1tenth' = isF1tenth
        /\ cb \in Subscriptions => mailbox[cb] # NoMessage
        /\ \A s \in Subscriptions :
              /\ mailbox'[s] \in {mailbox[s], NoMessage}
              /\ s = cb => mailbox'[s] = NoMessage
    BY <1>3, DispatchExpiredFacts
  <2>2. \A b \in Callbacks :
          counter'[b] = IF b = cb THEN counter[b] + 1 ELSE counter[b]
    BY <2>1 DEF TypeOK
  <2>3. \A s \in Subscriptions : Given'[s] <= Given[s]
    BY <1>0, <2>1, <2>2 DEF Given
  <2>4. \A b \in Callbacks : Done[b] <= Done'[b]
    BY <1>0, <2>1, <2>2 DEF Done
  <2> QED BY <2>1, <2>3, <2>4, OrderFrame
<1>4. ASSUME NEW cb \in Callbacks, CallTimer(cb) PROVE OrderInv'
  <2>1. /\ cb \notin Subscriptions /\ phase[cb] = "taken"
        /\ phase' = [phase EXCEPT ![cb] = "running"]
        /\ UNCHANGED <<isF1tenth, counter, mailbox>>
    BY <1>4, CallbackFacts DEF CallTimer, queueVars
  <2>2. \A b \in Callbacks :
          phase'[b] = IF b = cb THEN "running" ELSE phase[b]
    BY <2>1 DEF TypeOK
  <2>3. \A s \in Subscriptions : Given'[s] <= Given[s]
    BY <1>0, <2>1, <2>2 DEF Given
  <2>4. \A b \in Callbacks : Done[b] <= Done'[b]
    BY <1>0, <2>1, <2>2 DEF Done
  <2> QED BY <2>1, <2>3, <2>4, OrderFrame
<1>5. ASSUME NEW cb \in Callbacks, TakeMessage(cb) PROVE OrderInv'
  <2>1. /\ cb \in Subscriptions /\ phase[cb] = "taken"
        /\ phase' = [phase EXCEPT ![cb] = "running"]
        /\ mailbox' = [mailbox EXCEPT ![cb] = NoMessage]
        /\ UNCHANGED <<isF1tenth, counter>>
    BY <1>5 DEF TakeMessage, queueVars
  <2>2. /\ \A b \in Callbacks :
             phase'[b] = IF b = cb THEN "running" ELSE phase[b]
        /\ \A s \in Subscriptions :
             mailbox'[s] = IF s = cb THEN NoMessage ELSE mailbox[s]
    BY <2>1 DEF TypeOK
  <2>3. \A s \in Subscriptions : Given'[s] <= Given[s]
    BY <1>0, <2>1, <2>2 DEF Given
  <2>4. \A b \in Callbacks : Done[b] <= Done'[b]
    BY <1>0, <2>1, <2>2 DEF Done
  <2> QED BY <2>1, <2>3, <2>4, OrderFrame
<1>6. ASSUME NEW cb \in Callbacks, Finish(cb) PROVE OrderInv'
  BY <1>6, FinishOrder
<1>7. ASSUME NEW g \in Groups, NodeExpires(g) PROVE OrderInv'
  <2>1. /\ UNCHANGED <<isF1tenth, counter, phase>>
        /\ \A s \in Subscriptions : mailbox'[s] \in {mailbox[s], NoMessage}
    BY <1>7 DEF NodeExpires, Expire, queueVars
  <2>2. \A s \in Subscriptions : Given'[s] <= Given[s]
    BY <1>0, <2>1 DEF Given
  <2>3. \A b \in Callbacks : Done[b] <= Done'[b]
    BY <1>0, <2>1 DEF Done
  <2> QED BY <2>1, <2>2, <2>3, OrderFrame
<1>8. ASSUME NEW cb \in Callbacks, Unschedule(cb) PROVE OrderInv'
  BY <1>1, <1>8 DEF Unschedule, queueVars
<1>9. CASE Tick \/ Collect \/ Wait
  BY <1>1, <1>9 DEF Tick, Collect, Wait, queueVars
<1>10. CASE UNCHANGED vars
  BY <1>1, <1>10 DEF vars, queueVars
<1> QED BY <1>2, <1>3, <1>4, <1>5, <1>6, <1>7, <1>8, <1>9, <1>10 DEF Next

-----------------------------------------------------------------------------
(***************************************************************************)
-----------------------------------------------------------------------------
(***************************************************************************)
(* A callback's index is its counter modulo the number of queues.          *)
(***************************************************************************)
\* x is a number of queue q of n.
OnGrid(x, q, n) == \E t \in Int : x = q + t * n

IndexInv ==
  \A cb \in Callbacks : OnGrid(counter[cb], curIndex[cb], MaxChainNum(cb[1]))

LEMMA GridStep ==
  ASSUME NEW n \in Nat \ {0}, NEW q \in Int, NEW x \in Int, OnGrid(x, q, n)
  PROVE  /\ OnGrid(x + 1, q + 1, n)
         /\ q + 1 = n => OnGrid(x + 1, 0, n)
         /\ OnGrid(x + n, q, n)
<1>1. PICK t \in Int : x = q + t * n
  BY DEF OnGrid
<1>2. t * n \in Int /\ (t + 1) * n = t * n + n
  OBVIOUS
<1>3. x + 1 = q + 1 + t * n
  BY <1>1, <1>2
<1>4. q + 1 = n => x + 1 = 0 + (t + 1) * n
  BY <1>1, <1>2
<1>5. x + n = q + (t + 1) * n
  BY <1>1, <1>2
<1>6. t + 1 \in Int
  OBVIOUS
<1>7. OnGrid(x + 1, q + 1, n)
  BY <1>3 DEF OnGrid
<1>8. q + 1 = n => OnGrid(x + 1, 0, n)
  BY <1>4, <1>6 DEF OnGrid
<1>9. OnGrid(x + n, q, n)
  BY <1>5, <1>6 DEF OnGrid
<1> QED BY <1>7, <1>8, <1>9

LEMMA SameTurn ==
  ASSUME NEW n \in Nat \ {0}, NEW t \in Int, NEW u \in Int, t * n < u * n + n
  PROVE  t * n <= u * n
<1>1. t < u + 1
  <2>1. SUFFICES ASSUME t >= u + 1 PROVE FALSE
    OBVIOUS
  <2>2. t * n >= (u + 1) * n
    BY <2>1
  <2>3. (u + 1) * n = u * n + n
    OBVIOUS
  <2> QED BY <2>2, <2>3
<1>2. t <= u
  BY <1>1
<1> QED BY <1>2

\* Numbers of one queue that are less than a turn apart are in order.
LEMMA GridOrder ==
  ASSUME NEW n \in Nat \ {0}, NEW q \in Int, NEW x \in Int, NEW y \in Int,
         OnGrid(x, q, n), OnGrid(y, q, n), x < y + n
  PROVE  x <= y
<1>1. PICK t \in Int : x = q + t * n
  BY DEF OnGrid
<1>2. PICK u \in Int : y = q + u * n
  BY DEF OnGrid
<1>3. t * n \in Int /\ u * n \in Int
  OBVIOUS
<1>4. t * n < u * n + n
  BY <1>1, <1>2, <1>3
<1>5. t * n <= u * n
  BY <1>4, SameTurn
<1> QED BY <1>1, <1>2, <1>3, <1>5

\* No number belongs to two queues.
LEMMA GridApart ==
  ASSUME NEW n \in Nat \ {0}, NEW q \in 0 .. n - 1, NEW r \in 0 .. n - 1,
         NEW x \in Int, OnGrid(x, q, n), OnGrid(x, r, n)
  PROVE  q = r
<1>1. PICK t \in Int : x = q + t * n
  BY DEF OnGrid
<1>2. PICK u \in Int : x = r + u * n
  BY DEF OnGrid
<1>3. t * n \in Int /\ u * n \in Int /\ q \in Int /\ r \in Int
  OBVIOUS
<1>4. t * n < u * n + n /\ u * n < t * n + n
  BY <1>1, <1>2, <1>3
<1>5. t * n <= u * n /\ u * n <= t * n
  BY <1>4, SameTurn
<1> QED BY <1>1, <1>2, <1>3, <1>5

LEMMA InitIndex == Init => IndexInv
<1> SUFFICES ASSUME Init, NEW cb \in Callbacks
             PROVE  OnGrid(counter[cb], curIndex[cb], MaxChainNum(cb[1]))
  BY DEF IndexInv
<1>1. counter[cb] = 0 /\ curIndex[cb] = 0
  BY DEF Init
<1>2. MaxChainNum(cb[1]) \in Nat
  BY QueueCount, CallbackFacts
<1>3. 0 = 0 + 0 * MaxChainNum(cb[1])
  BY <1>2
<1> QED BY <1>1, <1>3 DEF OnGrid

LEMMA AccountIndex ==
  ASSUME TypeOK, IndexInv, NEW cb \in Callbacks, Account(cb)
  PROVE  /\ IndexInv'
         /\ OnGrid(counter[cb] + 1, Advance(curIndex[cb], cb), MaxChainNum(cb[1]))
<1> DEFINE n == MaxChainNum(cb[1])
           q == curIndex[cb]
           w == Advance(q, cb)
<1>1. n \in Nat \ {0}
  BY QueueCount, CallbackFacts
<1>2. q \in Queues(cb[1]) /\ q \in Int /\ counter[cb] \in Int
  BY DEF TypeOK
<1>3. w = IF q + 1 = n THEN 0 ELSE q + 1
  BY <1>2, AdvanceFacts
<1>4. OnGrid(counter[cb], q, n)
  BY DEF IndexInv
<1>5. /\ OnGrid(counter[cb] + 1, q + 1, n)
      /\ q + 1 = n => OnGrid(counter[cb] + 1, 0, n)
  <2> HIDE DEF n, q
  <2> QED BY <1>1, <1>2, <1>4, GridStep
<1>6. OnGrid(counter[cb] + 1, w, n)
  BY <1>3, <1>5
<1>7. /\ curIndex' = [curIndex EXCEPT ![cb] = w]
      /\ counter' = [counter EXCEPT ![cb] = @ + 1]
  BY DEF Account
<1>8. ASSUME NEW b \in Callbacks
      PROVE  OnGrid(counter'[b], curIndex'[b], MaxChainNum(b[1]))
  <2>1. CASE b = cb
    <3>1. counter'[b] = counter[cb] + 1 /\ curIndex'[b] = w
      BY <1>7, <2>1 DEF TypeOK
    <3> HIDE DEF w, n
    <3> QED BY <1>6, <2>1, <3>1 DEF n
  <2>2. CASE b # cb
    <3>1. counter'[b] = counter[b] /\ curIndex'[b] = curIndex[b]
      BY <1>7, <2>2 DEF TypeOK
    <3> QED BY <3>1 DEF IndexInv
  <2> QED BY <2>1, <2>2
<1>9. IndexInv'
  BY <1>8 DEF IndexInv
<1> QED BY <1>6, <1>9

LEMMA StepIndex ==
  ASSUME TypeOK, IndexInv, [Next]_vars
  PROVE  IndexInv'
<1>1. CASE UNCHANGED <<curIndex, counter>>
  BY <1>1 DEF IndexInv
<1>2. ASSUME NEW cb \in Callbacks, Dispatch(cb) \/ DispatchExpired(cb)
      PROVE  IndexInv'
  BY <1>2, AccountIndex DEF Dispatch, DispatchExpired, Choose
<1>3. CASE ~\E cb \in Callbacks : Dispatch(cb) \/ DispatchExpired(cb)
  <2>1. UNCHANGED queueVars
    BY <1>3 DEF Next, vars, CallTimer, TakeMessage, Finish, Unschedule,
                NodeExpires, Tick, Collect, Wait
  <2> QED BY <1>1, <2>1 DEF queueVars
<1> QED BY <1>2, <1>3

-----------------------------------------------------------------------------
-----------------------------------------------------------------------------
(***************************************************************************)
(* A chain's deadlines as one sequence, dealt out to its queues.           *)
(***************************************************************************)
\* e[i] is the i-th deadline.
Positive(e, a) == \A i \in Int : i <= a => e[i] > 0

\* Queue q of n holds every n-th of the deadlines g to a, where g is the first
\* of its own from l on.
Dealt(queue, g, q, n, l, a, e) ==
  /\ OnGrid(g, q, n) /\ l <= g /\ g < l + n
  /\ a < g + Len(queue) * n /\ g + Len(queue) * n <= a + n
  /\ \A i \in 1..Len(queue) : queue[i] = e[g + (i - 1) * n]

\* One more.
LEMMA OneMore ==
  ASSUME NEW e \in [Int -> Nat], NEW a \in Int, NEW w \in Nat,
         Positive(e, a), w > 0
  PROVE  \E d \in [Int -> Nat] :
           /\ Positive(d, a + 1) /\ d[a + 1] = w
           /\ \A i \in Int : i <= a => d[i] = e[i]
<1> DEFINE d == [e EXCEPT ![a + 1] = w]
<1>1. /\ d \in [Int -> Nat] /\ d[a + 1] = w
      /\ \A i \in Int : i # a + 1 => d[i] = e[i]
  OBVIOUS
<1> HIDE DEF d
<1>2. \A i \in Int : i <= a => d[i] = e[i]
  BY <1>1
<1>3. Positive(d, a + 1)
  <2> SUFFICES ASSUME NEW i \in Int, i <= a + 1 PROVE d[i] > 0
    BY DEF Positive
  <2>1. CASE i = a + 1
    BY <1>1, <2>1
  <2>2. CASE i # a + 1
    <3>1. i <= a /\ d[i] = e[i]
      BY <1>1, <2>2
    <3> QED BY <3>1 DEF Positive
  <2> QED BY <2>1, <2>2
<1> QED BY <1>1, <1>2, <1>3

\* A queue whose next is not beyond a has a front, and the front is its first.
LEMMA FrontFacts ==
  ASSUME NEW queue \in Seq(Nat), NEW g \in Int, NEW q \in Int,
         NEW n \in Nat \ {0}, NEW l \in Int, NEW a \in Int,
         NEW e \in [Int -> Nat], Dealt(queue, g, q, n, l, a, e), g <= a
  PROVE  queue # <<>> /\ Head(queue) = e[g]
<1>1. Len(queue) \in Nat
  OBVIOUS
<1>2. Len(queue) # 0
  <2>1. 0 * n = 0
    OBVIOUS
  <2> QED BY <2>1 DEF Dealt
<1>3. queue # <<>> /\ Head(queue) = queue[1]
  BY <1>2
<1>4. queue[1] = e[g + (1 - 1) * n]
  BY <1>1, <1>2 DEF Dealt
<1>5. g + (1 - 1) * n = g
  OBVIOUS
<1> QED BY <1>3, <1>4, <1>5

\* The front is taken from the queue whose turn it is.
LEMMA DealPop ==
  ASSUME NEW queue \in Seq(Nat), NEW q \in Int, NEW n \in Nat \ {0},
         NEW l \in Int, NEW a \in Int, NEW e \in [Int -> Nat],
         Dealt(queue, l, q, n, l, a, e), l <= a
  PROVE  Dealt(Tail(queue), l + n, q, n, l + 1, a, e)
<1> DEFINE m == Len(queue)
           rest == Tail(queue)
<1>1. queue # <<>>
  BY FrontFacts
<1>2. /\ m \in Nat /\ m # 0 /\ Len(rest) = m - 1
      /\ \A i \in 1 .. m - 1 : rest[i] = queue[i + 1]
  BY <1>1
<1>3. (m - 1) * n = m * n - n /\ m * n \in Int
  BY <1>2
<1>4. OnGrid(l + n, q, n)
  BY GridStep DEF Dealt
<1>5. a < l + m * n /\ l + m * n <= a + n
  BY DEF Dealt
<1>6. ASSUME NEW i \in 1 .. m - 1
      PROVE  rest[i] = e[l + n + (i - 1) * n]
  <2>1. i + 1 \in 1..m /\ i \in Int
    BY <1>2
  <2>2. queue[i + 1] = e[l + ((i + 1) - 1) * n]
    BY <2>1 DEF Dealt
  <2>3. (i - 1) * n \in Int /\ ((i + 1) - 1) * n = (i - 1) * n + n
    BY <2>1
  <2>4. l + ((i + 1) - 1) * n = l + n + (i - 1) * n
    BY <2>3
  <2> QED BY <1>2, <2>2, <2>4
<1>7. /\ l + 1 <= l + n /\ l + n < l + 1 + n
      /\ a < l + n + (m - 1) * n /\ l + n + (m - 1) * n <= a + n
  BY <1>3, <1>5
<1> QED BY <1>2, <1>4, <1>6, <1>7 DEF Dealt

LEMMA DealPopOther ==
  ASSUME NEW queue \in Seq(Nat), NEW g \in Int, NEW q \in Int,
         NEW n \in Nat \ {0}, NEW l \in Int, NEW a \in Int,
         NEW e \in [Int -> Nat], Dealt(queue, g, q, n, l, a, e), g # l
  PROVE  Dealt(queue, g, q, n, l + 1, a, e)
BY DEF Dealt

\* Fewer turns end earlier.
LEMMA FewerTurns ==
  ASSUME NEW n \in Nat \ {0}, NEW m \in Nat, NEW i \in 1..m
  PROVE  /\ (i - 1) * n \in Int /\ m * n \in Int
         /\ (i - 1) * n + n <= m * n
<1>1. i \in Int /\ i <= m
  OBVIOUS
<1>2. i * n <= m * n
  BY <1>1
<1>3. (i - 1) * n + n = i * n
  BY <1>1
<1>4. (i - 1) * n \in Int /\ m * n \in Int
  BY <1>1
<1> QED BY <1>2, <1>3, <1>4

\* What is pushed comes last, the rest stays.
LEMMA AppendFacts ==
  ASSUME NEW queue \in Seq(Nat), NEW v \in Nat
  PROVE  /\ Len(Append(queue, v)) = Len(queue) + 1 /\ Len(queue) \in Nat
         /\ Append(queue, v)[Len(queue) + 1] = v
         /\ \A i \in 1..Len(queue) : Append(queue, v)[i] = queue[i]
<1>1. Len(Append(queue, v)) = Len(queue) + 1 /\ Len(queue) \in Nat
  OBVIOUS
<1>2. Append(queue, v)[Len(queue) + 1] = v
  OBVIOUS
<1>3. ASSUME NEW i \in 1..Len(queue)
      PROVE  Append(queue, v)[i] = queue[i]
  OBVIOUS
<1> QED BY <1>1, <1>2, <1>3

\* The number after the last of a queue belongs to the queue.
LEMMA NextOfQueue ==
  ASSUME NEW n \in Nat \ {0}, NEW q \in Int, NEW g \in Int, NEW m \in Nat,
         OnGrid(g, q, n)
  PROVE  OnGrid(g + m * n, q, n)
<1>1. PICK t \in Int : g = q + t * n
  BY DEF OnGrid
<1>2. (t + m) * n = t * n + m * n /\ t * n \in Int /\ t + m \in Int
      /\ m * n \in Int
  OBVIOUS
<1>3. g + m * n = q + (t + m) * n
  BY <1>1, <1>2
<1> QED BY <1>2, <1>3 DEF OnGrid

\* The next deadline is pushed to the queue whose turn it is.
LEMMA DealPush ==
  ASSUME NEW queue \in Seq(Nat), NEW g \in Int, NEW q \in Int,
         NEW n \in Nat \ {0}, NEW l \in Int, NEW a \in Int,
         NEW e \in [Int -> Nat], Dealt(queue, g, q, n, l, a, e),
         NEW d \in [Int -> Nat], \A i \in Int : i <= a => d[i] = e[i],
         OnGrid(a + 1, q, n)
  PROVE  Dealt(Append(queue, d[a + 1]), g, q, n, l, a + 1, d)
<1> DEFINE m == Len(queue)
           longer == Append(queue, d[a + 1])
           turns == m * n
<1>1. /\ m \in Nat /\ Len(longer) = m + 1 /\ longer[m + 1] = d[a + 1]
      /\ \A i \in 1..m : longer[i] = queue[i]
  <2>1. d[a + 1] \in Nat
    OBVIOUS
  <2> QED BY <2>1, AppendFacts
<1>2. \A i \in 1..m : queue[i] = e[g + (i - 1) * n]
  BY DEF Dealt
<1>3. /\ a < g + turns /\ g + turns <= a + n /\ OnGrid(g, q, n)
      /\ l <= g /\ g < l + n
  BY DEF Dealt
<1> HIDE DEF m, longer
<1>4. turns \in Int /\ (m + 1) * n = turns + n /\ (m + 1 - 1) * n = turns
  BY <1>1
<1>5. OnGrid(g + turns, q, n)
  BY <1>1, <1>3, NextOfQueue
<1> HIDE DEF turns
<1>6. g + turns = a + 1
  <2>1. g + turns \in Int /\ a + 1 \in Int
    BY <1>4
  <2>2. g + turns < a + 1 + n /\ a + 1 < g + turns + n
    BY <1>3, <1>4
  <2>3. g + turns <= a + 1
    BY <1>5, <2>1, <2>2, GridOrder
  <2> QED BY <1>3, <1>4, <2>1, <2>3
<1>7. ASSUME NEW i \in 1 .. m + 1
      PROVE  longer[i] = d[g + (i - 1) * n]
  <2>1. CASE i = m + 1
    <3>1. (i - 1) * n = turns
      BY <1>1, <1>4, <2>1
    <3>2. g + (i - 1) * n = a + 1
      BY <1>6, <3>1
    <3> QED BY <1>1, <2>1, <3>2
  <2>2. CASE i # m + 1
    <3>1. i \in 1..m
      BY <1>1, <2>2
    <3>2. queue[i] = e[g + (i - 1) * n] /\ longer[i] = queue[i]
      BY <1>1, <1>2, <3>1
    <3> DEFINE x == (i - 1) * n
    <3>3. x \in Int /\ x + n <= turns
      BY <1>1, <3>1, FewerTurns DEF turns
    <3> HIDE DEF x
    <3>4. g + x <= a /\ g + x \in Int
      BY <1>3, <1>4, <3>3
    <3> QED BY <3>2, <3>4 DEF x
  <2> QED BY <2>1, <2>2
<1>8. a + 1 < g + (turns + n) /\ g + (turns + n) <= a + 1 + n
  BY <1>4, <1>6
<1>9. a + 1 < g + Len(longer) * n /\ g + Len(longer) * n <= a + 1 + n
  BY <1>1, <1>4, <1>8
<1> QED BY <1>1, <1>3, <1>7, <1>9 DEF Dealt, longer

LEMMA DealPushOther ==
  ASSUME NEW queue \in Seq(Nat), NEW g \in Int, NEW q \in Int,
         NEW n \in Nat \ {0}, NEW l \in Int, NEW a \in Int,
         NEW e \in [Int -> Nat], Dealt(queue, g, q, n, l, a, e),
         NEW d \in [Int -> Nat], \A i \in Int : i <= a => d[i] = e[i],
         ~OnGrid(a + 1, q, n)
  PROVE  Dealt(queue, g, q, n, l, a + 1, d)
<1> DEFINE m == Len(queue)
           turns == m * n
<1>1. m \in Nat
  OBVIOUS
<1>2. \A i \in 1..m : queue[i] = e[g + (i - 1) * n]
  BY DEF Dealt
<1>3. /\ a < g + turns /\ g + turns <= a + n /\ OnGrid(g, q, n)
      /\ l <= g /\ g < l + n
  BY DEF Dealt
<1> HIDE DEF m
<1>4. turns \in Int
  BY <1>1
<1>5. OnGrid(g + turns, q, n)
  BY <1>1, <1>3, NextOfQueue
<1>6. ASSUME NEW i \in 1..m
      PROVE  queue[i] = d[g + (i - 1) * n]
  <2>1. queue[i] = e[g + (i - 1) * n]
    BY <1>2
  <2> DEFINE x == (i - 1) * n
  <2>2. x \in Int /\ x + n <= turns
    BY <1>1, FewerTurns
  <2> HIDE DEF x, turns
  <2>3. g + x <= a /\ g + x \in Int
    BY <1>3, <1>4, <2>2
  <2> QED BY <2>1, <2>3 DEF x
<1> HIDE DEF turns
<1>7. g + turns # a + 1
  BY <1>5
<1>8. a + 1 < g + turns /\ g + turns <= a + 1 + n
  BY <1>3, <1>4, <1>7
<1> QED BY <1>3, <1>6, <1>8 DEF Dealt, m, turns

-----------------------------------------------------------------------------
(***************************************************************************)
(* The deadlines of a chain against its queues and its counters.           *)
(***************************************************************************)
Line(c, e) ==
  /\ Positive(e, counter[Trigger(c)])
  /\ \A q \in Queues(c) : \E g \in Int :
       Dealt(deadlines[c][q], g, q, MaxChainNum(c), counter[Final(c)],
             counter[Trigger(c)], e)

LEMMA CountBounds ==
  ASSUME TypeOK, OrderInv, NEW c \in Chains
  PROVE  /\ \A k \in 2..Length[c] :
              /\ Given[<<c, k>>] <= counter[Trigger(c)]
              /\ counter[<<c, k>>] <= counter[Trigger(c)]
              /\ Given[<<c, k>>] \in Int /\ counter[<<c, k>>] \in Nat
              /\ <<c, k>> \in Subscriptions
         /\ counter[Final(c)] <= counter[Trigger(c)]
         /\ counter[Final(c)] \in Nat /\ counter[Trigger(c)] \in Nat
<1>1. ASSUME NEW k \in 2..Length[c]
      PROVE  /\ Given[<<c, k>>] <= counter[Trigger(c)]
             /\ counter[<<c, k>>] <= counter[Trigger(c)]
             /\ Given[<<c, k>>] \in Int /\ counter[<<c, k>>] \in Nat
             /\ <<c, k>> \in Subscriptions
  <2>1. k \in 1..Length[c] /\ 1 \in 1..Length[c] /\ 1 < k
    BY PlaceFacts
  <2>2. Given[<<c, k>>] <= Done[At(c, 1)]
    BY <2>1 DEF OrderInv
  <2>3. At(c, 1) = Trigger(c)
    BY DEF At
  <2>4. /\ <<c, k>> \in Subscriptions /\ <<c, k>> \in Callbacks
        /\ Trigger(c) \in Callbacks
    BY PlaceFacts
  <2>5. /\ Given[<<c, k>>] \in Int /\ Done[Trigger(c)] \in Int
        /\ counter[<<c, k>>] \in Nat /\ counter[Trigger(c)] \in Nat
        /\ Done[Trigger(c)] <= counter[Trigger(c)]
        /\ counter[<<c, k>>] <= Given[<<c, k>>]
    BY <2>4, CountType
  <2>6. Given[<<c, k>>] <= Done[Trigger(c)]
    BY <2>2, <2>3
  <2> QED BY <2>4, <2>5, <2>6
<1>2. Length[c] \in 2..Length[c]
  BY PlaceFacts
<1>3. counter[Trigger(c)] \in Nat
  BY PlaceFacts, CountType
<1> QED BY <1>1, <1>2, <1>3 DEF Final

\* At the start all deadlines are the first one.
LEMMA InitLine ==
  ASSUME Init, NEW first \in [Chains -> Nat], FirstDeadlines(first),
         NEW c \in Chains, NEW e \in [Int -> Nat],
         \A i \in Int : e[i] = first[c] + Deadline[c]
  PROVE  Line(c, e)
<1>1. TypeOK
  BY InitType
<1> DEFINE v == first[c] + Deadline[c]
           n == MaxChainNum(c)
<1>2. v \in Nat /\ v > 0 /\ n \in Nat \ {0}
  <2>1. first[c] \in Nat /\ Deadline[c] \in Nat \ {0}
    BY ChainAssumption
  <2>2. v \in Nat /\ v > 0
    BY <2>1
  <2> QED BY <2>2, QueueCount
<1>3. counter[Trigger(c)] = 0 /\ counter[Final(c)] = 0
  BY <1>1, PlaceFacts DEF Init
<1>4. ASSUME NEW q \in Queues(c)
      PROVE  deadlines[c][q] = IF q = 0 THEN <<v>> ELSE <<>>
  BY DEF FirstDeadlines
<1>5. \A i \in Int : e[i] = v
  OBVIOUS
<1>6. Queues(c) = 0 .. n - 1
  BY DEF Queues
<1> HIDE DEF v, n
<1>7. Positive(e, 0)
  BY <1>2, <1>5 DEF Positive
<1>8. ASSUME NEW q \in Queues(c)
      PROVE  Dealt(deadlines[c][q], q, q, n, 0, 0, e)
  <2>1. q \in Int /\ 0 <= q /\ q < n
    BY <1>2, <1>6
  <2>2. q = q + 0 * n
    BY <1>2, <2>1
  <2>3. OnGrid(q, q, n)
    BY <2>2 DEF OnGrid
  <2>4. CASE q = 0
    <3>1. deadlines[c][q] = <<v>> /\ Len(<<v>>) = 1 /\ <<v>>[1] = v
      BY <1>4, <2>4
    <3>2. 1 * n = n /\ 0 + n > 0 /\ 0 + n <= 0 + n
      BY <1>2
    <3>3. \A i \in 1..1 : <<v>>[i] = e[q + (i - 1) * n]
      <4> TAKE i \in 1..1
      <4>1. i = 1 /\ (1 - 1) * n = 0
        BY <1>2
      <4> QED BY <1>5, <2>4, <3>1, <4>1
    <3> QED BY <1>2, <2>1, <2>3, <2>4, <3>1, <3>2, <3>3 DEF Dealt
  <2>5. CASE q # 0
    <3>1. deadlines[c][q] = <<>> /\ Len(<<>>) = 0
      BY <1>4, <2>5
    <3>2. 0 * n = 0 /\ 0 < q + 0 /\ q + 0 <= 0 + n /\ 1..0 = {}
      BY <1>2, <2>1, <2>5
    <3> QED BY <1>2, <2>1, <2>3, <3>1, <3>2 DEF Dealt
  <2> QED BY <2>4, <2>5
<1> QED
  <2>1. \A q \in Queues(c) : q \in Int
    BY <1>6
  <2> QED BY <1>3, <1>7, <1>8, <2>1 DEF Line, n

\* A step that does no bookkeeping for a chain.
LEMMA LineFrame ==
  ASSUME NEW c \in Chains, NEW e \in [Int -> Nat], Line(c, e),
         isF1tenth' = isF1tenth,
         counter'[Trigger(c)] = counter[Trigger(c)],
         counter'[Final(c)] = counter[Final(c)],
         deadlines'[c] = deadlines[c]
  PROVE  Line(c, e)'
<1>1. Trigger(c)' = Trigger(c)
  BY DEF Trigger, Triggered
<1> QED BY <1>1 DEF Line, Final

\* The deadlines there are stay.
Continues(c, e, d) == \A i \in Int : i <= counter[Trigger(c)] => d[i] = e[i]

\* What the timer of a chain does to its queues.
LEMMA TriggerLine ==
  ASSUME BaseInv, ReleaseInv, OrderInv, IndexInv, NEW c \in Chains,
         NEW e \in [Int -> Nat], Line(c, e), isF1tenth' = isF1tenth,
         Choose(Trigger(c))
  PROVE  \E d \in [Int -> Nat] :
           /\ Line(c, d)' /\ Continues(c, e, d)
           /\ counter'[Trigger(c)] = counter[Trigger(c)] + 1
           /\ d[counter[Trigger(c)] + 1]
                = releaseTime'[Triggered(c)] + Deadline[c]
<1> USE DEF BaseInv
<1> DEFINE t == Triggered(c)
           cb == Trigger(c)
           n == MaxChainNum(c)
           a == counter[cb]
           l == counter[Final(c)]
           r == NextRelease(releaseTime[t], Millis(now, TicksPerMs), Period[t])
           w == r + Deadline[c]
           p == Advance(curIndex[cb], cb)
<1>1. /\ t \in Chains /\ HasTimer(t) /\ MaxChainNum(t) = n
      /\ Deadline[t] = Deadline[c] /\ c \in Fed(t)
  BY TriggeredFacts DEF TypeOK
<1>2. /\ cb = <<t, 1>> /\ cb[1] = t /\ cb \in Timers /\ cb \in Callbacks
      /\ Final(c) \in Subscriptions /\ Final(c) \in Callbacks
      /\ Final(c) # cb
  BY PlaceFacts, CallbackFacts DEF Trigger
<1>3. phase[cb] = "idle" /\ Ready(cb) /\ Alive(cb) /\ Account(cb)
  BY <1>2, NextIsIdle
<1>4. /\ Ahead(releaseTime[t], t) /\ now >= nextCall[t]
      /\ phase[<<t, 1>>] # "taken"
  BY <1>1, <1>2, <1>3 DEF ReleaseInv, Ready
<1>5. r \in Nat
  BY <1>1, <1>4, RecordStep
<1>6. /\ releaseTime'[t] = r
      /\ deadlines'[c] = [deadlines[c] EXCEPT ![p] = Append(@, w)]
      /\ counter'[cb] = a + 1 /\ counter'[Final(c)] = l
  <2>1. /\ releaseTime' = [releaseTime EXCEPT ![t] = r]
        /\ deadlines' = PushNext(t, p, r)
        /\ counter' = [counter EXCEPT ![cb] = @ + 1]
    BY <1>2, <1>3 DEF Account, TakeTimer
  <2>2. releaseTime'[t] = r
    BY <1>1, <2>1 DEF TypeOK
  <2>3. deadlines'[c] = [deadlines[c] EXCEPT ![p] = Append(@, w)]
    BY <1>1, <2>1 DEF PushNext
  <2>4. counter'[cb] = a + 1 /\ counter'[Final(c)] = l
    BY <1>2, <2>1 DEF TypeOK
  <2> QED BY <2>2, <2>3, <2>4
<1>7. OnGrid(a + 1, p, n) /\ p \in Queues(c)
  <2>1. OnGrid(a + 1, p, MaxChainNum(t))
    BY <1>2, <1>3, AccountIndex
  <2>2. curIndex[cb] \in Queues(t)
    BY <1>2 DEF TypeOK
  <2>3. p \in Queues(t)
    BY <1>2, <2>2, AdvanceFacts
  <2> QED BY <1>1, <2>1, <2>3 DEF Queues
<1>8. /\ a \in Int /\ l \in Int /\ n \in Nat \ {0} /\ Queues(c) = 0 .. n - 1
      /\ w \in Nat /\ w > 0
      /\ deadlines[c] \in [Queues(c) -> Seq(Nat)]
  <2>1. Deadline[c] \in Nat \ {0}
    BY ChainAssumption
  <2>2. w \in Nat /\ w > 0
    BY <1>5, <2>1
  <2>3. a \in Int /\ l \in Int
    BY <1>2, CountType
  <2>4. n \in Nat \ {0} /\ Queues(c) = 0 .. n - 1
    BY QueueCount DEF Queues
  <2>5. deadlines[c] \in [Queues(c) -> Seq(Nat)]
    BY DEF TypeOK
  <2> QED BY <2>2, <2>3, <2>4, <2>5
<1>9. Positive(e, a) /\ \A q \in Queues(c) : \E g \in Int :
        Dealt(deadlines[c][q], g, q, n, l, a, e)
  BY DEF Line
<1>10. Trigger(c)' = cb /\ Triggered(c)' = t
  BY DEF Trigger, Triggered
<1> HIDE DEF n, a, l, w, r, p
<1>11. PICK d \in [Int -> Nat] :
         /\ Positive(d, a + 1) /\ d[a + 1] = w
         /\ \A i \in Int : i <= a => d[i] = e[i]
  <2>1. a \in Int /\ w \in Nat /\ w > 0 /\ Positive(e, a)
    BY <1>8, <1>9
  <2> QED BY <2>1, OneMore, Zenon
<1>12. d[a + 1] = w
  BY <1>11
<1>13. ASSUME NEW q \in Queues(c)
       PROVE  \E g \in Int : Dealt(deadlines'[c][q], g, q, n, l, a + 1, d)
  <2>1. PICK g \in Int : Dealt(deadlines[c][q], g, q, n, l, a, e)
    BY <1>9
  <2>2. q \in Int /\ q \in 0 .. n - 1 /\ p \in 0 .. n - 1
    BY <1>7, <1>8
  <2> DEFINE queue == deadlines[c][q]
  <2>3. queue \in Seq(Nat)
    BY <1>8
  <2> HIDE DEF queue
  <2>4. CASE q = p
    <3>1. deadlines'[c][q] = Append(queue, d[a + 1])
      BY <1>6, <1>8, <1>12, <2>4 DEF queue
    <3>2. Dealt(queue, g, q, n, l, a, e) /\ OnGrid(a + 1, q, n)
      BY <1>7, <2>1, <2>4 DEF queue
    <3>3. Dealt(Append(queue, d[a + 1]), g, q, n, l, a + 1, d)
      BY <1>8, <1>11, <2>2, <2>3, <3>2, DealPush
    <3> QED BY <3>1, <3>3
  <2>5. CASE q # p
    <3>1. deadlines'[c][q] = queue
      BY <1>6, <1>8, <2>5 DEF queue
    <3>2. ~OnGrid(a + 1, q, n)
      <4>1. a + 1 \in Int
        BY <1>8
      <4> QED BY <1>7, <1>8, <2>2, <2>5, <4>1, GridApart
    <3>3. Dealt(queue, g, q, n, l, a, e)
      BY <2>1 DEF queue
    <3>4. Dealt(queue, g, q, n, l, a + 1, d)
      BY <1>8, <1>11, <2>2, <2>3, <3>2, <3>3, DealPushOther
    <3> QED BY <3>1, <3>4
  <2> QED BY <2>4, <2>5
<1>14. Positive(d, counter'[cb])
  BY <1>6, <1>11
<1>15. \A q \in Queues(c) : \E g \in Int :
         Dealt(deadlines'[c][q], g, q, n, counter'[Final(c)], counter'[cb], d)
  BY <1>6, <1>13
<1>16. Line(c, d)'
  BY <1>10, <1>14, <1>15 DEF Line, n, Final
<1>17. /\ Continues(c, e, d)
       /\ d[counter[cb] + 1] = releaseTime'[t] + Deadline[c]
  BY <1>6, <1>11, <1>12 DEF Continues, a, w
<1> QED BY <1>6, <1>16, <1>17 DEF a

\* What its last callback does.
LEMMA FinalLine ==
  ASSUME TypeOK, OrderInv, IndexInv, NEW c \in Chains,
         NEW e \in [Int -> Nat], Line(c, e), isF1tenth' = isF1tenth,
         Account(Final(c))
  PROVE  Line(c, e)'
<1> DEFINE cb == Final(c)
           n == MaxChainNum(c)
           a == counter[Trigger(c)]
           l == counter[cb]
           p == curIndex[cb]
<1>1. /\ cb = <<c, Length[c]>> /\ cb[1] = c /\ cb[2] = Length[c]
      /\ cb \in Callbacks /\ cb \notin Timers
      /\ Trigger(c) \in Callbacks /\ Trigger(c) # cb
  BY PlaceFacts, CallbackFacts DEF Final
<1>2. /\ deadlines'[c] = [deadlines[c] EXCEPT ![p] = PopFront(@)]
      /\ counter'[cb] = l + 1 /\ counter'[Trigger(c)] = a
  <2>1. /\ deadlines' = [deadlines EXCEPT ![c][p] = PopFront(@)]
        /\ counter' = [counter EXCEPT ![cb] = @ + 1]
    BY <1>1 DEF Account, TakeSubscription, IsLast
  <2>2. deadlines'[c] = [deadlines[c] EXCEPT ![p] = PopFront(@)]
    BY <2>1 DEF TypeOK
  <2>3. counter'[cb] = l + 1 /\ counter'[Trigger(c)] = a
    BY <1>1, <2>1 DEF TypeOK
  <2> QED BY <2>1, <2>2, <2>3
<1>3. OnGrid(l, p, n) /\ p \in Queues(c)
  BY <1>1 DEF IndexInv, TypeOK
<1>4. /\ a \in Int /\ l \in Int /\ l <= a
      /\ n \in Nat \ {0} /\ Queues(c) = 0 .. n - 1
      /\ deadlines[c] \in [Queues(c) -> Seq(Nat)]
  <2>1. a \in Int /\ l \in Int /\ l <= a
    BY CountBounds
  <2>2. n \in Nat \ {0} /\ Queues(c) = 0 .. n - 1
    BY QueueCount DEF Queues
  <2>3. deadlines[c] \in [Queues(c) -> Seq(Nat)]
    BY DEF TypeOK
  <2> QED BY <2>1, <2>2, <2>3
<1>5. /\ Positive(e, a)
      /\ \A q \in Queues(c) : \E g \in Int :
           Dealt(deadlines[c][q], g, q, n, l, a, e)
  BY DEF Line
<1>6. Trigger(c)' = Trigger(c)
  BY DEF Trigger, Triggered
<1> HIDE DEF n, a, l, p
<1>7. ASSUME NEW q \in Queues(c)
      PROVE  \E g \in Int : Dealt(deadlines'[c][q], g, q, n, l + 1, a, e)
  <2>1. PICK g \in Int : Dealt(deadlines[c][q], g, q, n, l, a, e)
    BY <1>5
  <2>2. q \in Int /\ q \in 0 .. n - 1 /\ p \in 0 .. n - 1
    BY <1>3, <1>4
  <2> DEFINE queue == deadlines[c][q]
  <2>3. queue \in Seq(Nat)
    BY <1>4
  <2>4. Dealt(queue, g, q, n, l, a, e)
    BY <2>1
  <2> HIDE DEF queue
  <2>5. OnGrid(g, q, n) /\ l <= g /\ g < l + n
    BY <2>4 DEF Dealt
  <2>6. CASE q = p
    <3>1. OnGrid(l, q, n)
      BY <1>3, <2>6
    <3>2. g <= l
      BY <1>4, <2>2, <2>5, <3>1, GridOrder
    <3>3. g = l
      BY <1>4, <2>5, <3>2
    <3>4. Dealt(queue, l, q, n, l, a, e)
      BY <2>4, <3>3
    <3>5. queue # <<>>
      BY <1>4, <2>2, <2>3, <3>4, FrontFacts
    <3>6. deadlines'[c][q] = Tail(queue)
      BY <1>2, <1>4, <2>6, <3>5 DEF PopFront, queue
    <3>7. Dealt(Tail(queue), l + n, q, n, l + 1, a, e)
      BY <1>4, <2>2, <2>3, <3>4, DealPop
    <3>8. l + n \in Int
      BY <1>4
    <3> QED BY <3>6, <3>7, <3>8
  <2>7. CASE q # p
    <3>1. deadlines'[c][q] = queue
      BY <1>2, <1>4, <2>7 DEF queue
    <3>2. g # l
      BY <1>3, <1>4, <2>2, <2>5, <2>7, GridApart
    <3>3. Dealt(queue, g, q, n, l + 1, a, e)
      BY <1>4, <2>2, <2>3, <2>4, <3>2, DealPopOther
    <3> QED BY <3>1, <3>3
  <2> QED BY <2>6, <2>7
<1>8. Positive(e, counter'[Trigger(c)])
  BY <1>2, <1>5
<1> QED BY <1>2, <1>6, <1>7, <1>8 DEF Line, n, Final

\* What all others do to it.
LEMMA OtherLine ==
  ASSUME TypeOK, NEW c \in Chains, NEW e \in [Int -> Nat], Line(c, e),
         isF1tenth' = isF1tenth, NEW cb \in Callbacks, Account(cb), Ready(cb),
         cb # Trigger(c), cb # Final(c)
  PROVE  Line(c, e)'
<1> DEFINE t == Triggered(c)
<1>1. t \in Chains /\ Trigger(c) \in Callbacks /\ Final(c) \in Callbacks
  BY TriggeredFacts, PlaceFacts DEF TypeOK
<1>2. counter'[Trigger(c)] = counter[Trigger(c)]
      /\ counter'[Final(c)] = counter[Final(c)]
  BY <1>1 DEF Account, TypeOK
<1>3. CASE cb \in Timers
  <2>1. cb = <<cb[1], 1>> /\ cb[1] \in Chains /\ HasTimer(cb[1])
    BY <1>3, CallbackFacts DEF Ready
  <2>2. cb[1] # t
    BY <2>1 DEF Trigger
  <2>3. c \notin Fed(cb[1])
    BY <2>2 DEF Fed
  <2>4. deadlines'[c] = deadlines[c]
    BY <1>3, <2>3 DEF Account, TakeTimer, PushNext
  <2> QED BY <1>2, <2>4, LineFrame
<1>4. CASE cb \notin Timers
  <2>1. cb \in Subscriptions
    BY <1>4 DEF Callbacks
  <2>2. /\ deadlines' = IF IsLast(cb)
                        THEN [deadlines EXCEPT ![cb[1]][curIndex[cb]] = PopFront(@)]
                        ELSE deadlines
    BY <1>4 DEF Account, TakeSubscription
  <2>3. IsLast(cb) => cb[1] # c
    BY <2>1, CallbackFacts DEF IsLast, Final
  <2>4. deadlines'[c] = deadlines[c]
    BY <2>2, <2>3 DEF TypeOK
  <2> QED BY <1>2, <2>4, LineFrame
<1> QED BY <1>3, <1>4

LEMMA AccountLine ==
  ASSUME BaseInv, ReleaseInv, OrderInv, IndexInv, NEW c \in Chains,
         NEW e \in [Int -> Nat], Line(c, e), isF1tenth' = isF1tenth,
         NEW cb \in Callbacks, Choose(cb)
  PROVE  \E d \in [Int -> Nat] :
           /\ Line(c, d)' /\ Continues(c, e, d)
           /\ IF cb = Trigger(c)
              THEN /\ counter'[Trigger(c)] = counter[Trigger(c)] + 1
                   /\ d[counter[Trigger(c)] + 1]
                        = releaseTime'[Triggered(c)] + Deadline[c]
              ELSE counter'[Trigger(c)] = counter[Trigger(c)]
<1>1. Ready(cb) /\ Account(cb)
  BY NextIsIdle DEF BaseInv
<1>2. CASE cb = Trigger(c)
  BY <1>2, TriggerLine
<1>3. CASE cb # Trigger(c)
  <2>1. Line(c, e)'
    <3>1. CASE cb = Final(c)
      BY <1>1, <3>1, FinalLine DEF BaseInv
    <3>2. CASE cb # Final(c)
      BY <1>1, <1>3, <3>2, OtherLine DEF BaseInv
    <3> QED BY <3>1, <3>2
  <2>2. counter'[Trigger(c)] = counter[Trigger(c)]
    BY <1>1, <1>3, PlaceFacts DEF Account, BaseInv, TypeOK
  <2> QED BY <1>3, <2>1, <2>2 DEF Continues
<1> QED BY <1>2, <1>3

-----------------------------------------------------------------------------
(***************************************************************************)
(* The deadlines of a chain against the instances its callbacks hold: none *)
(* up to an instance's own is a period or more too late for it.            *)
(***************************************************************************)
Below(e, i, bound) == \A j \in Int : j <= i => Ticks(e[j]) < bound

LEMMA TicksMinus ==
  ASSUME NEW x \in Int, NEW y \in Int
  PROVE  Ticks(x - y) = Ticks(x) - Ticks(y)
<1>1. TicksPerMs \in Int
  BY ChainAssumption
<1>2. (x - y) * TicksPerMs = (x * TicksPerMs) - (y * TicksPerMs)
  BY <1>1
<1> QED BY <1>2, Zenon DEF Ticks

\* How long after its release a deadline of the chain is less than a period
\* too late.
Slack(c) == Ticks(Deadline[c]) + Ticks(Period[Triggered(c)])

LEMMA SlackType ==
  ASSUME TypeOK, NEW c \in Chains
  PROVE  /\ Slack(c) \in Nat
         /\ isF1tenth' = isF1tenth => Slack(c)' = Slack(c)
<1>1. Triggered(c) \in Chains
  BY TriggeredFacts DEF TypeOK
<1>2. Ticks(Deadline[c]) \in Nat /\ Ticks(Period[Triggered(c)]) \in Nat
  BY <1>1, TicksFacts, ChainAssumption
<1> QED BY <1>2 DEF Slack, Triggered

HeldBySubscription(c, k, e) ==
  /\ mailbox[<<c, k>>] # NoMessage \/ phase[<<c, k>>] = "taken"
       => Below(e, Given[<<c, k>>] - 1, mailbox[<<c, k>>] + Slack(c))
  /\ phase[<<c, k>>] = "running"
       => Below(e, counter[<<c, k>>] - 1, instance[<<c, k>>] + Slack(c))

HeldByTimer(c, e) ==
  /\ phase[Trigger(c)] = "taken"
       => Below(e, counter[Trigger(c)] - 1, nextCall[Triggered(c)] + Slack(c))
  /\ phase[Trigger(c)] = "running"
       => Below(e, counter[Trigger(c)] - 1, instance[Trigger(c)] + Slack(c))

Held(c, e) ==
  /\ \A k \in 2..Length[c] : HeldBySubscription(c, k, e)
  /\ HeldByTimer(c, e)


\* What is held belongs to deadlines that are there already.
LEMMA HeldSwap ==
  ASSUME TypeOK, OrderInv, NEW c \in Chains,
         NEW e \in [Int -> Nat], Held(c, e), NEW d \in [Int -> Nat],
         Continues(c, e, d)
  PROVE  Held(c, d)
<1> DEFINE a == counter[Trigger(c)]
<1>1. a \in Nat /\ \A i \in Int : i <= a => d[i] = e[i]
  BY CountBounds DEF Continues
<1> HIDE DEF a
<1>2. ASSUME NEW k \in 2..Length[c]
      PROVE  HeldBySubscription(c, k, d)
  <2> DEFINE s == <<c, k>>
             x == Given[s] - 1
             y == counter[s] - 1
  <2>1. HeldBySubscription(c, k, e)
    BY DEF Held
  <2>2. /\ Given[s] \in Int /\ counter[s] \in Nat /\ a \in Nat
        /\ Given[s] <= a /\ counter[s] <= a
    BY CountBounds DEF a
  <2>3. x \in Int /\ x <= a /\ y \in Int /\ y <= a
    BY <2>2
  <2>4. ASSUME mailbox[s] # NoMessage \/ phase[s] = "taken"
        PROVE  Below(d, x, mailbox[s] + Slack(c))
    <3>1. Below(e, x, mailbox[s] + Slack(c))
      BY <2>1, <2>4 DEF HeldBySubscription
    <3> QED BY <1>1, <2>3, <3>1 DEF Below
  <2>5. ASSUME phase[s] = "running"
        PROVE  Below(d, y, instance[s] + Slack(c))
    <3>1. Below(e, y, instance[s] + Slack(c))
      BY <2>1, <2>5 DEF HeldBySubscription
    <3> QED BY <1>1, <2>3, <3>1 DEF Below
  <2> QED BY <2>4, <2>5 DEF HeldBySubscription
<1>3. HeldByTimer(c, d)
  <2> DEFINE x == a - 1
  <2>1. HeldByTimer(c, e)
    BY DEF Held
  <2>2. x \in Int /\ x <= a
    BY <1>1
  <2>3. \A b \in Int : Below(e, x, b) => Below(d, x, b)
    BY <1>1, <2>2 DEF Below
  <2>4. nextCall[Triggered(c)] + Slack(c) \in Int
        /\ instance[Trigger(c)] + Slack(c) \in Int
    <3>1. /\ Slack(c) \in Nat /\ nextCall[Triggered(c)] \in Nat
          /\ instance[Trigger(c)] \in Nat
      BY PlaceFacts, SlackType, TriggeredFacts DEF TypeOK
    <3> QED BY <3>1
  <2> QED BY <2>1, <2>3, <2>4 DEF HeldByTimer, a
<1> QED BY <1>2, <1>3 DEF Held

\* Nor are they for the instance that the timer is due for.
Reach(c, e) ==
  Alive(Trigger(c)) =>
    \A i \in Int : i <= counter[Trigger(c)] =>
      Ahead(e[i] - Deadline[c], Triggered(c))

LEMMA ReachIdle ==
  ASSUME TypeOK, NEW c \in Chains, NEW e \in [Int -> Nat], Reach(c, e),
         Alive(Trigger(c)), phase[Trigger(c)] # "taken"
  PROVE  Below(e, counter[Trigger(c)], nextCall[Triggered(c)] + Slack(c))
<1> DEFINE t == Triggered(c)
<1>1. t \in Chains /\ Trigger(c) = <<t, 1>>
  BY TriggeredFacts DEF TypeOK, Trigger
<1> SUFFICES ASSUME NEW i \in Int, i <= counter[Trigger(c)]
             PROVE  Ticks(e[i]) < nextCall[t] + Slack(c)
  BY DEF Below
<1>2. Ticks(e[i] - Deadline[c]) < nextCall[t] + Ticks(Period[t])
  BY <1>1 DEF Reach, Ahead
<1>3. e[i] \in Nat /\ Deadline[c] \in Nat /\ TicksPerMs \in Nat
      /\ nextCall[t] \in Nat
  BY <1>1, ChainAssumption DEF TypeOK
<1> DEFINE x == e[i]
           y == Deadline[c]
           q == Ticks(Period[t])
<1>4. q \in Nat
  BY <1>1, TicksFacts, ChainAssumption
<1>5. /\ Ticks(x) \in Int /\ Ticks(y) \in Int
      /\ Ticks(x - y) = Ticks(x) - Ticks(y)
  <2>1. x \in Int /\ y \in Int
    BY <1>3
  <2> HIDE DEF x, y
  <2>2. Ticks(x - y) = Ticks(x) - Ticks(y)
    BY <2>1, TicksMinus, Zenon
  <2>3. Ticks(x) \in Int /\ Ticks(y) \in Int
    BY <2>1, TicksFacts
  <2> QED BY <2>2, <2>3
<1> HIDE DEF x, y, q
<1>6. Ticks(x) < nextCall[t] + (Ticks(y) + q)
  <2>1. Ticks(x - y) < nextCall[t] + q
    BY <1>2 DEF x, y, q
  <2> QED BY <1>3, <1>4, <1>5, <2>1
<1> QED BY <1>6 DEF x, y, q, Slack

LEMMA DispatchHeld ==
  ASSUME ~MayOverrun, BaseInv, OrderInv, NEW c \in Chains,
         NEW d \in [Int -> Nat], Held(c, d), Reach(c, d),
         NEW cb \in Callbacks, Dispatch(cb)
  PROVE  Held(c, d)'
<1> USE DEF BaseInv
<1> DEFINE t == Trigger(c)
<1>1. /\ Account(cb) /\ phase[cb] = "idle" /\ Ready(cb)
      /\ Alive(cb)
      /\ phase' = [phase EXCEPT ![cb] = "taken"]
      /\ counter' = [counter EXCEPT ![cb] = @ + 1]
      /\ UNCHANGED <<isF1tenth, nextCall, mailbox, instance>>
  BY DispatchFacts
<1>2. /\ \A x \in Int : x - 1 + 1 = x
      /\ Slack(c)' = Slack(c)
  BY <1>1, SlackType
<1>3. \A b \in Callbacks :
        /\ phase'[b] = IF b = cb THEN "taken" ELSE phase[b]
        /\ counter'[b] = IF b = cb THEN counter[b] + 1 ELSE counter[b]
  BY <1>1 DEF TypeOK
<1>4. ASSUME NEW k \in 2..Length[c]
      PROVE  HeldBySubscription(c, k, d)'
  <2> DEFINE s == <<c, k>>
  <2>1. s \in Subscriptions /\ s \in Callbacks /\ counter[s] \in Nat
    BY PlaceFacts, CountType
  <2>2. HeldBySubscription(c, k, d)
    BY DEF Held
  <2>3. CASE s = cb
    <3>1. mailbox[s] # NoMessage
      BY <1>1, <2>1, <2>3, CallbackFacts DEF Ready
    <3>2. Given[s] = counter[s] + 1 /\ Given'[s] = counter[s] + 1
      BY <1>1, <1>3, <2>1, <2>3, <3>1 DEF Given
    <3>3. phase'[s] = "taken"
      BY <1>3, <2>1, <2>3
    <3> QED BY <1>1, <1>2, <2>2, <3>1, <3>2, <3>3 DEF HeldBySubscription
  <2>4. CASE s # cb
    <3>1. phase'[s] = phase[s] /\ counter'[s] = counter[s]
      BY <1>3, <2>1, <2>4
    <3>2. Given'[s] = Given[s]
      BY <1>1, <2>1, <3>1 DEF Given
    <3> QED BY <1>1, <1>2, <2>2, <3>1, <3>2 DEF HeldBySubscription
  <2> QED BY <2>3, <2>4
<1>5. Trigger(c)' = t /\ Triggered(c)' = Triggered(c)
  BY <1>1 DEF Trigger, Triggered
<1>6. t \in Callbacks /\ t \in Timers /\ counter[t] \in Nat
  BY PlaceFacts, CountType
<1>7. HeldByTimer(c, d)'
  <2>1. HeldByTimer(c, d)
    BY DEF Held
  <2>2. CASE t = cb
    <3>1. Below(d, counter[t], nextCall[Triggered(c)] + Slack(c))
      BY <1>1, <1>6, <2>2, ReachIdle
    <3>2. phase'[t] = "taken" /\ counter'[t] - 1 = counter[t]
      BY <1>3, <1>6, <2>2
    <3> QED BY <1>1, <1>2, <1>5, <3>1, <3>2 DEF HeldByTimer
  <2>3. CASE t # cb
    <3>1. phase'[t] = phase[t] /\ counter'[t] = counter[t]
      BY <1>3, <1>6, <2>3
    <3> QED BY <1>1, <1>2, <1>5, <2>1, <3>1 DEF HeldByTimer
  <2> QED BY <2>2, <2>3
<1> QED BY <1>4, <1>7 DEF Held

LEMMA DispatchExpiredHeld ==
  ASSUME BaseInv, OrderInv, NEW c \in Chains,
         NEW d \in [Int -> Nat], Held(c, d),
         NEW cb \in Callbacks, DispatchExpired(cb)
  PROVE  Held(c, d)'
<1> USE DEF BaseInv
<1> DEFINE t == Trigger(c)
<1>1. /\ Account(cb) /\ phase[cb] = "idle"
      /\ counter' = [counter EXCEPT ![cb] = @ + 1]
      /\ \A s \in Subscriptions :
              /\ mailbox'[s] \in {mailbox[s], NoMessage}
              /\ s = cb => mailbox'[s] = NoMessage
      /\ UNCHANGED <<isF1tenth, nextCall, phase, instance>>
  BY DispatchExpiredFacts
<1>2. Slack(c)' = Slack(c)
  BY <1>1, SlackType
<1>3. \A b \in Callbacks :
        counter'[b] = IF b = cb THEN counter[b] + 1 ELSE counter[b]
  BY <1>1 DEF TypeOK
<1>4. \A s \in Subscriptions : phase[s] = "taken" => mailbox'[s] = mailbox[s]
  <2> TAKE s \in Subscriptions
  <2> HAVE phase[s] = "taken"
  <2>1. /\ \A b \in Busy \union scheduled : GroupOf[b] # GroupOf[cb]
        /\ mailbox' = [x \in Subscriptions |->
             IF x \in Waiters(GroupOf[cb]) THEN NoMessage ELSE mailbox[x]]
    BY DEF DispatchExpired, Expire
  <2>2. s \in Busy
    BY CallbackFacts DEF Busy
  <2> QED BY <2>1, <2>2 DEF Waiters
<1>5. ASSUME NEW k \in 2..Length[c]
      PROVE  HeldBySubscription(c, k, d)'
  <2> DEFINE s == <<c, k>>
  <2>1. s \in Subscriptions /\ s \in Callbacks /\ counter[s] \in Nat
    BY PlaceFacts, CountType
  <2>2. HeldBySubscription(c, k, d)
    BY DEF Held
  <2>3. CASE s = cb
    <3>1. mailbox'[s] = NoMessage /\ phase'[s] = "idle"
      BY <1>1, <2>1, <2>3
    <3> QED BY <3>1 DEF HeldBySubscription
  <2>4. CASE s # cb
    <3>1. phase'[s] = phase[s] /\ counter'[s] = counter[s]
      BY <1>1, <1>3, <2>1, <2>4
    <3>2. mailbox'[s] # NoMessage \/ phase'[s] = "taken" =>
            /\ mailbox[s] # NoMessage \/ phase[s] = "taken"
            /\ mailbox'[s] = mailbox[s]
            /\ Given'[s] = Given[s]
      BY <1>1, <1>4, <2>1, <3>1 DEF Given
    <3> QED BY <1>1, <1>2, <2>2, <3>1, <3>2 DEF HeldBySubscription
  <2> QED BY <2>3, <2>4
<1>6. Trigger(c)' = t /\ Triggered(c)' = Triggered(c)
  BY <1>1 DEF Trigger, Triggered
<1>7. t \in Callbacks
  BY PlaceFacts
<1>8. HeldByTimer(c, d)'
  <2>1. HeldByTimer(c, d)
    BY DEF Held
  <2>2. CASE t = cb
    BY <1>1, <1>2, <1>6, <2>1, <2>2 DEF HeldByTimer
  <2>3. CASE t # cb
    <3>1. counter'[t] = counter[t]
      BY <1>3, <1>7, <2>3
    <3> QED BY <1>1, <1>2, <1>6, <2>1, <3>1 DEF HeldByTimer
  <2> QED BY <2>2, <2>3
<1> QED BY <1>5, <1>8 DEF Held

LEMMA CallHeld ==
  ASSUME TypeOK, OrderInv, NEW c \in Chains, NEW e \in [Int -> Nat],
         Held(c, e), NEW cb \in Callbacks, CallTimer(cb)
  PROVE  Held(c, e)'
<1> DEFINE t == Trigger(c)
<1>1. /\ cb \in Timers /\ phase[cb] = "taken"
      /\ phase' = [phase EXCEPT ![cb] = "running"]
      /\ instance' = [instance EXCEPT ![cb] = nextCall[cb[1]]]
      /\ nextCall' = [nextCall EXCEPT ![cb[1]] =
                        NextCall(@, now, Ticks(Period[cb[1]]))]
      /\ UNCHANGED <<isF1tenth, counter, mailbox>>
  BY DEF CallTimer, queueVars
<1>2. Slack(c) \in Nat /\ Slack(c)' = Slack(c)
  BY <1>1, SlackType
<1> USE <1>2
<1>3. \A b \in Callbacks :
        /\ phase'[b] = IF b = cb THEN "running" ELSE phase[b]
        /\ instance'[b] = IF b = cb THEN nextCall[cb[1]] ELSE instance[b]
  BY <1>1 DEF TypeOK
<1>4. ASSUME NEW k \in 2..Length[c]
      PROVE  HeldBySubscription(c, k, e)'
  <2> DEFINE s == <<c, k>>
  <2>1. s \in Subscriptions /\ s \in Callbacks /\ s # cb
    BY <1>1, PlaceFacts, CallbackFacts
  <2>2. HeldBySubscription(c, k, e)
    BY DEF Held
  <2>3. phase'[s] = phase[s] /\ instance'[s] = instance[s]
    BY <1>3, <2>1
  <2>4. Given'[s] = Given[s]
    BY <1>1, <2>1, <2>3 DEF Given
  <2> QED BY <1>1, <2>2, <2>3, <2>4 DEF HeldBySubscription
<1>5. Trigger(c)' = t /\ Triggered(c)' = Triggered(c)
  BY <1>1 DEF Trigger, Triggered
<1>6. t \in Callbacks /\ t = <<Triggered(c), 1>> /\ Triggered(c) \in Chains
  BY PlaceFacts, TriggeredFacts DEF Trigger, TypeOK
<1>7. HeldByTimer(c, e)'
  <2>1. HeldByTimer(c, e)
    BY DEF Held
  <2>2. CASE t = cb
    <3>1. /\ phase'[t] = "running" /\ counter'[t] = counter[t]
          /\ instance'[t] = nextCall[Triggered(c)]
      BY <1>1, <1>3, <1>6, <2>2, CallbackFacts
    <3>2. Below(e, counter[t] - 1, nextCall[Triggered(c)] + Slack(c))
      BY <1>1, <2>1, <2>2 DEF HeldByTimer
    <3> QED BY <1>5, <3>1, <3>2 DEF HeldByTimer
  <2>3. CASE t # cb
    <3>1. phase'[t] = phase[t] /\ instance'[t] = instance[t]
      BY <1>3, <1>6, <2>3
    <3>2. cb[1] # Triggered(c)
      BY <1>1, <1>6, <2>3, CallbackFacts
    <3>3. nextCall'[Triggered(c)] = nextCall[Triggered(c)]
      BY <1>1, <1>6, <3>2 DEF TypeOK
    <3> QED BY <1>1, <1>5, <2>1, <3>1, <3>3 DEF HeldByTimer
  <2> QED BY <2>2, <2>3
<1> QED BY <1>4, <1>7 DEF Held

LEMMA TakeHeld ==
  ASSUME TypeOK, OrderInv, NEW c \in Chains, NEW e \in [Int -> Nat],
         Held(c, e), NEW cb \in Callbacks, TakeMessage(cb)
  PROVE  Held(c, e)'
<1> DEFINE t == Trigger(c)
<1>1. /\ cb \in Subscriptions /\ phase[cb] = "taken"
      /\ phase' = [phase EXCEPT ![cb] = "running"]
      /\ instance' = [instance EXCEPT ![cb] = mailbox[cb]]
      /\ mailbox' = [mailbox EXCEPT ![cb] = NoMessage]
      /\ UNCHANGED <<isF1tenth, counter, nextCall>>
  BY DEF TakeMessage, queueVars, timerVars
<1>2. Slack(c) \in Nat /\ Slack(c)' = Slack(c)
  BY <1>1, SlackType
<1> USE <1>2
<1>3. /\ \A b \in Callbacks :
           /\ phase'[b] = IF b = cb THEN "running" ELSE phase[b]
           /\ instance'[b] = IF b = cb THEN mailbox[cb] ELSE instance[b]
      /\ \A s \in Subscriptions :
           mailbox'[s] = IF s = cb THEN NoMessage ELSE mailbox[s]
  BY <1>1 DEF TypeOK
<1>4. ASSUME NEW k \in 2..Length[c]
      PROVE  HeldBySubscription(c, k, e)'
  <2> DEFINE s == <<c, k>>
  <2>1. s \in Subscriptions /\ s \in Callbacks
    BY PlaceFacts
  <2>2. HeldBySubscription(c, k, e)
    BY DEF Held
  <2>3. CASE s = cb
    <3>1. /\ phase'[s] = "running" /\ instance'[s] = mailbox[s]
          /\ mailbox'[s] = NoMessage
      BY <1>3, <2>1, <2>3
    <3>2. Given[s] = counter[s]
      BY <1>1, <2>1, <2>3 DEF Given
    <3>3. Below(e, Given[s] - 1, mailbox[s] + Slack(c))
      BY <1>1, <2>2, <2>3 DEF HeldBySubscription
    <3> QED BY <1>1, <3>1, <3>2, <3>3 DEF HeldBySubscription
  <2>4. CASE s # cb
    <3>1. /\ phase'[s] = phase[s] /\ instance'[s] = instance[s]
          /\ mailbox'[s] = mailbox[s]
      BY <1>3, <2>1, <2>4
    <3>2. Given'[s] = Given[s]
      BY <1>1, <2>1, <3>1 DEF Given
    <3> QED BY <1>1, <2>2, <3>1, <3>2 DEF HeldBySubscription
  <2> QED BY <2>3, <2>4
<1>5. Trigger(c)' = t /\ Triggered(c)' = Triggered(c)
  BY <1>1 DEF Trigger, Triggered
<1>6. t \in Callbacks /\ t # cb
  BY <1>1, PlaceFacts, CallbackFacts
<1>7. HeldByTimer(c, e)'
  <2>1. HeldByTimer(c, e)
    BY DEF Held
  <2>2. phase'[t] = phase[t] /\ instance'[t] = instance[t]
    BY <1>3, <1>6
  <2> QED BY <1>1, <1>5, <2>1, <2>2 DEF HeldByTimer
<1> QED BY <1>4, <1>7 DEF Held

\* What is published belongs to a deadline no earlier than that of the
\* subscription's next run, for its predecessor has been taken more often.
LEMMA FinishHeld ==
  ASSUME TypeOK, TypeOK', HeldInv, OrderInv, OrderInv',
         NEW c \in Chains, NEW e \in [Int -> Nat], Held(c, e),
         NEW cb \in Callbacks, Finish(cb)
  PROVE  Held(c, e)'
<1> DEFINE t == Trigger(c)
<1>1. /\ phase[cb] = "running"
      /\ mailbox' = Published(cb)
      /\ phase' = [phase EXCEPT ![cb] = "idle"]
      /\ instance' = [instance EXCEPT ![cb] = NoMessage]
      /\ UNCHANGED <<isF1tenth, counter, nextCall>>
  BY DEF Finish, queueVars, timerVars
<1>2. Slack(c) \in Nat /\ Slack(c)' = Slack(c)
  BY <1>1, SlackType
<1> USE <1>2
<1>3. \A b \in Callbacks :
        /\ phase'[b] = IF b = cb THEN "idle" ELSE phase[b]
        /\ b # cb => instance'[b] = instance[b]
  BY <1>1 DEF TypeOK
<1>4. \A s \in Subscriptions :
        mailbox'[s] = IF s \in Subscribers(cb) /\ Alive(s) THEN instance[cb]
                                                         ELSE mailbox[s]
  BY <1>1 DEF Published
<1>5. Trigger(c)' = t /\ Triggered(c)' = Triggered(c)
  BY <1>1 DEF Trigger, Triggered
<1>6. t \in Callbacks
  BY PlaceFacts
<1>7. ASSUME NEW k \in 2..Length[c]
      PROVE  HeldBySubscription(c, k, e)'
  <2> DEFINE s == <<c, k>>
  <2>1. s \in Subscriptions /\ s \in Callbacks
    BY PlaceFacts
  <2>2. HeldBySubscription(c, k, e)
    BY DEF Held
  <2>3. phase'[s] = "running" => phase[s] = "running" /\ s # cb
    BY <1>3, <2>1
  <2>4. phase'[s] = "taken" <=> phase[s] = "taken"
    BY <1>1, <1>3, <2>1
  <2>5. CASE s \in Subscribers(cb) /\ Alive(s)
    <3>1. mailbox'[s] = instance[cb]
      BY <1>4, <2>1, <2>5
    <3>2. /\ cb = At(c, k - 1) /\ k - 1 \in 1..Length[c] /\ k - 1 < k
          /\ k \in 1..Length[c]
      BY <1>1, <2>5, PredecessorFacts, PlaceFacts
    <3> DEFINE x == Given'[s] - 1
               y == counter[cb] - 1
    <3>3. Given'[s] <= Done'[cb]
      <4>1. Given'[s] <= Done'[At(c, k - 1)']
        BY <3>2 DEF OrderInv
      <4>2. At(c, k - 1)' = At(c, k - 1)
        BY <1>1 DEF At, Trigger, Triggered
      <4> QED BY <3>2, <4>1, <4>2
    <3>4. Done'[cb] = counter[cb] /\ counter[cb] \in Nat
      BY <1>1, <1>3, CountType DEF Done
    <3>5. Given'[s] \in Int
      BY <2>1, CountType2
    <3>6. x \in Int /\ y \in Int /\ x <= y
      BY <3>3, <3>4, <3>5
    <3>7. Below(e, y, instance[cb] + Slack(c))
      <4>1. CASE k - 1 = 1
        <5>1. cb = t
          BY <3>2, <4>1 DEF At
        <5> QED BY <1>1, <5>1 DEF Held, HeldByTimer
      <4>2. CASE k - 1 # 1
        <5>1. cb = <<c, k - 1>> /\ k - 1 \in 2..Length[c]
          BY <3>2, <4>2 DEF At
        <5> QED BY <1>1, <5>1 DEF Held, HeldBySubscription
      <4> QED BY <4>1, <4>2
    <3>8. Below(e, x, instance[cb] + Slack(c))
      BY <3>6, <3>7 DEF Below
    <3>9. phase'[s] = "running"
            => Below(e, counter'[s] - 1, instance'[s] + Slack(c))
      BY <1>1, <1>3, <2>1, <2>2, <2>3 DEF HeldBySubscription
    <3> QED BY <3>1, <3>8, <3>9 DEF HeldBySubscription
  <2>6. CASE ~(s \in Subscribers(cb) /\ Alive(s))
    <3>1. mailbox'[s] = mailbox[s]
      BY <1>4, <2>1, <2>6
    <3>2. Given'[s] = Given[s]
      BY <1>1, <2>1, <2>4, <3>1 DEF Given
    <3> QED BY <1>1, <1>3, <2>1, <2>2, <2>3, <2>4, <3>1, <3>2
         DEF HeldBySubscription
  <2> QED BY <2>5, <2>6
<1>8. HeldByTimer(c, e)'
  <2>1. HeldByTimer(c, e)
    BY DEF Held
  <2>2. CASE t = cb
    <3>1. phase'[t] = "idle"
      BY <1>3, <1>6, <2>2
    <3> QED BY <1>5, <3>1 DEF HeldByTimer
  <2>3. CASE t # cb
    <3>1. phase'[t] = phase[t] /\ instance'[t] = instance[t]
      BY <1>3, <1>6, <2>3
    <3> QED BY <1>1, <1>5, <2>1, <3>1 DEF HeldByTimer
  <2> QED BY <2>2, <2>3
<1> QED BY <1>7, <1>8 DEF Held

LEMMA ExpireHolds ==
  ASSUME TypeOK, NEW c \in Chains, NEW e \in [Int -> Nat], Held(c, e),
         NEW g \in Groups, NodeExpires(g)
  PROVE  Held(c, e)'
<1>1. /\ \A b \in Busy \union scheduled : GroupOf[b] # g
      /\ mailbox' = [x \in Subscriptions |->
           IF x \in Waiters(g) THEN NoMessage ELSE mailbox[x]]
      /\ UNCHANGED <<isF1tenth, counter, nextCall, phase, instance>>
  BY DEF NodeExpires, Expire, queueVars, timerVars
<1>2. Slack(c) \in Nat /\ Slack(c)' = Slack(c)
  BY <1>1, SlackType
<1> USE <1>2
<1>3. Trigger(c)' = Trigger(c) /\ Triggered(c)' = Triggered(c)
  BY <1>1 DEF Trigger, Triggered
<1>4. ASSUME NEW k \in 2..Length[c]
      PROVE  HeldBySubscription(c, k, e)'
  <2> DEFINE s == <<c, k>>
  <2>1. s \in Subscriptions /\ s \in Callbacks
    BY PlaceFacts
  <2>2. HeldBySubscription(c, k, e)
    BY DEF Held
  <2>3. phase[s] = "taken" => s \notin Waiters(g)
    BY <1>1, <2>1 DEF Busy, Waiters
  <2>4. mailbox'[s] # NoMessage \/ phase'[s] = "taken" =>
          /\ mailbox[s] # NoMessage \/ phase[s] = "taken"
          /\ mailbox'[s] = mailbox[s]
          /\ Given'[s] = Given[s]
    BY <1>1, <2>1, <2>3 DEF Given
  <2> QED BY <1>1, <2>2, <2>4 DEF HeldBySubscription
<1>5. HeldByTimer(c, e)'
  BY <1>1, <1>3 DEF Held, HeldByTimer
<1> QED BY <1>4, <1>5 DEF Held

\* A step that does not take the timer, or adds the deadline it pushes.
LEMMA StepReach ==
  ASSUME BaseInv, TypeOK', ReleaseInv', [Next]_vars, isF1tenth' = isF1tenth,
         NEW c \in Chains, NEW e \in [Int -> Nat], Reach(c, e),
         NEW d \in [Int -> Nat], Continues(c, e, d),
         \/ counter'[Trigger(c)] = counter[Trigger(c)]
         \/ /\ counter'[Trigger(c)] = counter[Trigger(c)] + 1
            /\ d[counter[Trigger(c)] + 1]
                 = releaseTime'[Triggered(c)] + Deadline[c]
  PROVE  Reach(c, d)'
<1>1. PICK t \in Chains : t = Triggered(c)
  BY TriggeredFacts DEF BaseInv, TypeOK
<1>2. /\ Trigger(c) = <<t, 1>> /\ Trigger(c)' = <<t, 1>>
      /\ Triggered(c)' = t
  BY <1>1 DEF Trigger, Triggered
<1> DEFINE a == counter[<<t, 1>>]
<1>3. a \in Nat /\ Deadline[c] \in Nat
  BY <1>2, PlaceFacts, CountType, ChainAssumption DEF BaseInv
<1>4. SUFFICES ASSUME Alive(Trigger(c))', NEW i \in Int,
                      i <= counter'[Trigger(c)]
               PROVE  Ahead(d[i] - Deadline[c], t)'
  BY <1>2 DEF Reach
<1>5. Alive(Trigger(c))
  <2>1. gone \subseteq gone'
    BY DEF Next, Collect, Wait, Dispatch, DispatchExpired, CallTimer,
           TakeMessage, Finish, Unschedule, NodeExpires, Expire, Tick, vars
  <2> QED BY <1>2, <1>4, <2>1 DEF Alive
<1> HIDE DEF a
<1>6. CASE i <= a
  <2> DEFINE x == e[i] - Deadline[c]
  <2>1. x \in Int /\ d[i] - Deadline[c] = x
    <3>1. d[i] = e[i] /\ e[i] \in Nat
      BY <1>2, <1>6 DEF Continues, a
    <3> QED BY <1>3, <3>1
  <2>2. Ahead(x, t)
    BY <1>1, <1>2, <1>5, <1>6 DEF Reach, a
  <2> HIDE DEF x
  <2>3. Ahead(x, t)'
    BY <1>1, <2>1, <2>2, StepAhead
  <2> QED BY <2>1, <2>3
<1>7. CASE ~(i <= a)
  <2>1. i = a + 1 /\ d[a + 1] = releaseTime'[t] + Deadline[c]
    BY <1>1, <1>2, <1>4, <1>7, <1>3 DEF a
  <2>2. PICK x \in Nat : x = releaseTime'[t]
    BY <1>1, ClockTypes2
  <2>3. d[i] - Deadline[c] = x
    BY <1>3, <2>1, <2>2
  <2>4. Ahead(releaseTime[t], t)'
    BY <1>1, <1>2, <1>4 DEF ReleaseInv
  <2>5. Ahead(x, t)'
    BY <2>2, <2>4 DEF Ahead
  <2> QED BY <2>3, <2>5
<1> QED BY <1>6, <1>7

-----------------------------------------------------------------------------
(***************************************************************************)
(* All of it together.                                                     *)
(***************************************************************************)
Story(c, e) == Line(c, e) /\ Held(c, e) /\ Reach(c, e)

StoryInv == \A c \in Chains : \E e \in [Int -> Nat] : Story(c, e)

LEMMA InitStory == Init => StoryInv
<1> SUFFICES ASSUME Init, NEW c \in Chains
             PROVE  \E e \in [Int -> Nat] : Story(c, e)
  BY DEF StoryInv
<1>1. TypeOK
  BY InitType
<1>2. PICK first \in [Chains -> Nat] : FirstDeadlines(first)
  BY InitFacts
<1> DEFINE e == [i \in Int |-> first[c] + Deadline[c]]
<1>3. /\ e \in [Int -> Nat]
      /\ \A i \in Int : e[i] = first[c] + Deadline[c]
  BY ChainAssumption
<1> HIDE DEF e
<1>4. Line(c, e)
  BY <1>2, <1>3, InitLine
<1>5. Held(c, e)
  BY <1>1, PlaceFacts DEF Held, HeldBySubscription, HeldByTimer, Init
<1>6. Reach(c, e)
  <2>1. \A i \in Int : e[i] - Deadline[c] = first[c]
    <3>1. first[c] \in Nat /\ Deadline[c] \in Nat
      BY ChainAssumption
    <3> QED BY <1>3, <3>1
  <2>2. Ahead(first[c], Triggered(c))
    BY <1>2, InitAhead
  <2> QED BY <2>1, <2>2 DEF Reach
<1> QED BY <1>3, <1>4, <1>5, <1>6 DEF Story

LEMMA StepStory ==
  ASSUME ~MayOverrun, BaseInv, TypeOK', ReleaseInv, ReleaseInv',
         OrderInv, OrderInv', IndexInv, StoryInv, [Next]_vars
  PROVE  StoryInv'
<1> SUFFICES ASSUME NEW c \in Chains
             PROVE  \E d \in [Int -> Nat] : Story(c, d)'
  BY DEF StoryInv
<1> USE DEF BaseInv
<1>1. PICK e \in [Int -> Nat] : Line(c, e) /\ Held(c, e) /\ Reach(c, e)
  BY DEF StoryInv, Story
<1>2. isF1tenth' = isF1tenth
  BY DEF Next, Collect, Wait, Dispatch, DispatchExpired, CallTimer,
         TakeMessage, Finish, Unschedule, NodeExpires, Tick, vars
<1>3. ASSUME NEW cb \in Callbacks, Dispatch(cb) \/ DispatchExpired(cb)
      PROVE  \E d \in [Int -> Nat] : Story(c, d)'
  <2>1. Choose(cb)
    BY <1>3 DEF Dispatch, DispatchExpired
  <2>2. PICK d \in [Int -> Nat] :
           /\ Line(c, d)' /\ Continues(c, e, d)
           /\ IF cb = Trigger(c)
              THEN /\ counter'[Trigger(c)] = counter[Trigger(c)] + 1
                   /\ d[counter[Trigger(c)] + 1]
                        = releaseTime'[Triggered(c)] + Deadline[c]
              ELSE counter'[Trigger(c)] = counter[Trigger(c)]
    BY <1>1, <1>2, <2>1, AccountLine
  <2>3. Reach(c, d)'
    BY <1>1, <1>2, <2>2, StepReach
  <2>4. Held(c, d)
    BY <1>1, <2>2, HeldSwap
  <2>5. Reach(c, d)
    BY <1>1, <2>2 DEF Reach, Continues
  <2>6. Held(c, d)'
    BY <1>3, <2>4, <2>5, DispatchHeld, DispatchExpiredHeld
  <2> QED BY <2>2, <2>3, <2>6 DEF Story
<1>4. CASE ~\E cb \in Callbacks : Dispatch(cb) \/ DispatchExpired(cb)
  <2>1. UNCHANGED <<counter, deadlines>>
    BY <1>4 DEF Next, Collect, Wait, CallTimer, TakeMessage, Finish,
                Unschedule, NodeExpires, Tick, vars, queueVars
  <2>2. Line(c, e)'
    BY <1>1, <1>2, <2>1, LineFrame
  <2>3. Reach(c, e)'
    BY <1>1, <1>2, <2>1, StepReach DEF Continues
  <2>4. Held(c, e)'
    <3>1. CASE UNCHANGED <<phase, mailbox, instance, nextCall>>
      BY <1>1, <1>2, <2>1, <3>1
         DEF Held, HeldBySubscription, HeldByTimer, Given, Trigger, Triggered,
             Slack
    <3>2. ASSUME NEW cb \in Callbacks, CallTimer(cb) PROVE Held(c, e)'
      BY <1>1, <3>2, CallHeld
    <3>3. ASSUME NEW cb \in Callbacks, TakeMessage(cb) PROVE Held(c, e)'
      BY <1>1, <3>3, TakeHeld
    <3>4. ASSUME NEW cb \in Callbacks, Finish(cb) PROVE Held(c, e)'
      BY <1>1, <3>4, FinishHeld
    <3>5. ASSUME NEW g \in Groups, NodeExpires(g) PROVE Held(c, e)'
      BY <1>1, <3>5, ExpireHolds
    <3>6. CASE \/ Tick \/ Collect \/ Wait \/ UNCHANGED vars
               \/ \E cb \in Callbacks : Unschedule(cb)
      BY <3>1, <3>6 DEF Tick, Collect, Wait, vars, Unschedule, timerVars
    <3> QED BY <1>4, <3>2, <3>3, <3>4, <3>5, <3>6 DEF Next
  <2> QED BY <2>2, <2>3, <2>4 DEF Story
<1> QED BY <1>3, <1>4

-----------------------------------------------------------------------------
(***************************************************************************)
(* The theorems.                                                           *)
(***************************************************************************)
OrderedInv ==
  BaseInv /\ ReleaseInv /\ OrderInv /\ IndexInv /\ StoryInv

LEMMA StepOrdered ==
  ASSUME ~MayOverrun, OrderedInv, [Next]_vars
  PROVE  OrderedInv'
<1>1. BaseInv /\ ReleaseInv /\ OrderInv /\ IndexInv /\ StoryInv
  BY DEF OrderedInv
<1>2. BaseInv' /\ TypeOK'
  BY <1>1, StepType, StepHeld, StepRound DEF BaseInv
<1>3. ReleaseInv' /\ OrderInv' /\ IndexInv'
  BY <1>1, <1>2, StepRelease, StepOrder, StepIndex DEF BaseInv
<1>4. StoryInv'
  BY <1>1, <1>2, <1>3, StepStory
<1> QED BY <1>2, <1>3, <1>4 DEF OrderedInv

LEMMA OrderedInvariant ==
  ASSUME ~MayOverrun
  PROVE  Spec => []OrderedInv
<1>1. Init => OrderedInv
  BY InitType, InitHeld, InitRelease, InitOrder, InitIndex, InitStory
     DEF OrderedInv, BaseInv, Init, RoundInv, ChoiceIsFresh
<1>2. OrderedInv /\ [Next]_vars => OrderedInv'
  BY StepOrdered
<1> QED BY <1>1, <1>2, PTL DEF Spec

\* What a callback sees that would be the m-th of its chain to run.
LEMMA SeenFacts ==
  ASSUME TypeOK, OrderInv, IndexInv, NEW c \in Chains,
         NEW e \in [Int -> Nat], Line(c, e),
         NEW cb \in Callbacks, MaxChainNum(cb[1]) = MaxChainNum(c),
         deadlines[cb[1]] = deadlines[c],
         counter[Final(c)] <= counter[cb], counter[cb] <= counter[Trigger(c)]
  PROVE  /\ SeenDeadline(cb) > 0
         /\ \E g \in Int : /\ counter[Final(c)] <= g /\ g <= counter[cb]
                           /\ SeenDeadline(cb) = e[g]
<1> DEFINE m == counter[cb]
           q == curIndex[cb]
           n == MaxChainNum(c)
           l == counter[Final(c)]
           a == counter[Trigger(c)]
           queue == deadlines[c][q]
<1>1. /\ m \in Nat /\ l \in Nat /\ a \in Nat /\ n \in Nat \ {0}
      /\ l <= m /\ m <= a
  BY CountType, PlaceFacts, QueueCount
<1>2. q \in Queues(c) /\ q \in Int /\ OnGrid(m, q, n)
  <2>1. q \in Queues(cb[1]) /\ q \in Nat /\ OnGrid(m, q, MaxChainNum(cb[1]))
    BY DEF TypeOK, IndexInv
  <2> QED BY <2>1 DEF Queues
<1>3. queue \in Seq(Nat)
  BY <1>2 DEF TypeOK
<1>4. PICK g \in Int : Dealt(queue, g, q, n, l, a, e)
  BY <1>2 DEF Line
<1>5. \A i \in Int : i <= a => e[i] > 0
  BY DEF Line, Positive
<1>6. SeenDeadline(cb) = IF queue = <<>> THEN 0 ELSE Head(queue)
  BY DEF SeenDeadline
<1> HIDE DEF m, q, n, l, a, queue
<1>7. OnGrid(g, q, n) /\ l <= g /\ g < l + n
  BY <1>4 DEF Dealt
<1>8. g < m + n
  BY <1>1, <1>7
<1>9. g <= m
  <2>1. m \in Int
    BY <1>1
  <2> QED BY <1>1, <1>2, <1>7, <1>8, <2>1, GridOrder
<1>10. g <= a /\ l \in Int /\ a \in Int /\ m \in Int
  BY <1>1, <1>9
<1>11. queue # <<>> /\ Head(queue) = e[g]
  <2>1. /\ queue \in Seq(Nat) /\ q \in Int /\ n \in Nat \ {0}
        /\ l \in Int /\ a \in Int /\ g <= a
    BY <1>1, <1>2, <1>3, <1>10
  <2>2. Dealt(queue, g, q, n, l, a, e)
    BY <1>4
  <2>3. queue # <<>>
    BY <2>1, <2>2, FrontFacts
  <2>4. Head(queue) = queue[1] /\ 1 \in 1..Len(queue)
    BY <2>1, <2>3
  <2>5. queue[1] = e[g + (1 - 1) * n]
    BY <2>2, <2>4 DEF Dealt
  <2>6. g + (1 - 1) * n = g
    BY <2>1
  <2> QED BY <2>3, <2>4, <2>5, <2>6
<1>12. e[g] > 0
  BY <1>5, <1>10
<1> QED BY <1>6, <1>7, <1>9, <1>11, <1>12 DEF m, l

LEMMA SeenType ==
  ASSUME TypeOK, NEW cb \in Callbacks
  PROVE  SeenDeadline(cb) \in Nat
<1> DEFINE queue == deadlines[cb[1]][curIndex[cb]]
<1>1. cb[1] \in Chains /\ curIndex[cb] \in Queues(cb[1])
  BY CallbackFacts DEF TypeOK
<1>2. queue \in Seq(Nat)
  BY <1>1 DEF TypeOK
<1>3. SeenDeadline(cb) = IF queue = <<>> THEN 0 ELSE Head(queue)
  BY DEF SeenDeadline
<1> HIDE DEF queue
<1>4. queue # <<>> => Head(queue) \in Nat
  BY <1>2
<1> QED BY <1>3, <1>4

\* A callback that is ready is no further than its trigger and no less far than
\* the last of its chain.
LEMMA WaitingBounds ==
  ASSUME TypeOK, OrderInv, NEW cb \in Callbacks, Waiting(cb)
  PROVE  /\ counter[Final(cb[1])] <= counter[cb]
         /\ counter[cb] <= counter[Trigger(cb[1])]
         /\ cb \in Subscriptions => Given[cb] = counter[cb] + 1
<1> DEFINE c == cb[1]
<1>1. phase[cb] = "idle" /\ Ready(cb) /\ c \in Chains
  BY CallbackFacts DEF Waiting
<1>2. CASE cb \in Timers
  <2>1. cb = <<c, 1>> /\ HasTimer(c) /\ cb \notin Subscriptions
    BY <1>1, <1>2, CallbackFacts DEF Ready
  <2>2. cb = Trigger(c)
    BY <2>1 DEF Trigger, HasTimer
  <2> QED BY <1>1, <2>1, <2>2, CountBounds
<1>3. CASE cb \notin Timers
  <2>1. /\ cb \in Subscriptions /\ cb = <<c, cb[2]>> /\ cb[2] \in 2..Length[c]
        /\ mailbox[cb] # NoMessage
    BY <1>1, <1>3, CallbackFacts DEF Callbacks, Ready
  <2>2. Given[cb] = counter[cb] + 1 /\ counter[cb] \in Nat
    BY <1>1, <2>1, CountType DEF Given
  <2>3. counter[cb] <= counter[Trigger(c)]
    BY <1>1, <2>1, CountBounds
  <2>4. counter[Final(c)] <= counter[cb]
    <3>1. CASE cb[2] = Length[c]
      BY <2>1, <2>2, <3>1 DEF Final
    <3>2. CASE cb[2] # Length[c]
      <4>1. /\ cb[2] \in 1..Length[c] /\ Length[c] \in 1..Length[c]
            /\ cb[2] < Length[c] /\ cb[2] # 1
        BY <1>1, <2>1, <3>2, PlaceFacts
      <4>2. Given[Final(c)] <= Done[At(c, cb[2])]
        BY <1>1, <4>1 DEF OrderInv, Final
      <4>3. At(c, cb[2]) = cb
        BY <2>1, <4>1 DEF At
      <4>4. Done[cb] = counter[cb]
        BY <1>1 DEF Done
      <4>5. /\ counter[Final(c)] <= Given[Final(c)] /\ Given[Final(c)] \in Int
            /\ counter[Final(c)] \in Nat
        BY <1>1, PlaceFacts, CountType
      <4>6. Given[Final(c)] <= counter[cb]
        BY <4>2, <4>3, <4>4
      <4> QED BY <2>2, <4>5, <4>6
    <3> QED BY <3>1, <3>2
  <2> QED BY <2>2, <2>3, <2>4
<1> QED BY <1>2, <1>3

LEMMA ReadyFacts ==
  ASSUME OrderedInv, NEW cb \in Callbacks, Waiting(cb)
  PROVE  /\ SeenDeadline(cb) > 0
         /\ Ticks(SeenDeadline(cb))
              < DueBy(cb) + Ticks(Period[Triggered(cb[1])])
<1> DEFINE c == cb[1]
           b == DueBy(cb) + Ticks(Period[Triggered(c)])
<1>1. /\ BaseInv /\ TypeOK /\ OrderInv /\ IndexInv /\ StoryInv
      /\ phase[cb] = "idle" /\ Ready(cb) /\ Alive(cb) /\ c \in Chains
  BY CallbackFacts DEF OrderedInv, BaseInv, Waiting, Ready, Alive
<1>2. PICK e \in [Int -> Nat] : Line(c, e) /\ Held(c, e) /\ Reach(c, e)
  BY <1>1 DEF StoryInv, Story
<1>3. Deadline[Triggered(c)] = Deadline[c] /\ Triggered(c) \in Chains
  BY <1>1, TriggeredFacts DEF TypeOK
<1>4. counter[Final(c)] <= counter[cb] /\ counter[cb] <= counter[Trigger(c)]
  BY <1>1, WaitingBounds
<1>5. PICK g \in Int : g <= counter[cb] /\ SeenDeadline(cb) = e[g]
  BY <1>1, <1>2, <1>4, SeenFacts
<1>6. SeenDeadline(cb) > 0
  BY <1>1, <1>2, <1>4, SeenFacts
<1>7. Pending(cb) + Slack(c) = b
  <2> DEFINE p == Pending(cb)
             u == Ticks(Deadline[c])
             v == Ticks(Period[Triggered(c)])
  <2>1. p \in Nat /\ u \in Nat /\ v \in Nat
    BY <1>1, <1>3, TicksFacts, CallbackFacts DEF Pending, TypeOK, Callbacks
  <2>2. b = (p + u) + v /\ Slack(c) = u + v
    BY <1>3 DEF DueBy, RelativeDeadline, Slack
  <2> HIDE DEF p, u, v, b
  <2>3. p + Slack(c) = b
    BY <2>1, <2>2
  <2> QED BY <2>3 DEF p
<1>8. Below(e, counter[cb], Pending(cb) + Slack(c))
  <2>1. CASE cb \in Timers
    <3>1. cb = <<c, 1>> /\ HasTimer(c)
      BY <1>1, <2>1, CallbackFacts DEF Ready
    <3>2. cb = Trigger(c) /\ Triggered(c) = c
      BY <3>1 DEF Trigger, HasTimer
    <3>3. Below(e, counter[Trigger(c)], nextCall[Triggered(c)] + Slack(c))
      BY <1>1, <1>2, <3>2, ReachIdle
    <3> QED BY <1>1, <2>1, <3>2, <3>3 DEF Pending
  <2>2. CASE cb \notin Timers
    <3>1. /\ cb \in Subscriptions /\ cb = <<c, cb[2]>>
          /\ cb[2] \in 2..Length[c] /\ mailbox[cb] # NoMessage
      BY <1>1, <2>2, CallbackFacts DEF Callbacks, Ready
    <3>2. Given[cb] - 1 = counter[cb]
      BY <1>1, <3>1, CountType DEF Given
    <3>3. HeldBySubscription(c, cb[2], e)
      BY <1>2, <3>1 DEF Held
    <3>4. Below(e, Given[cb] - 1, mailbox[cb] + Slack(c))
      BY <3>1, <3>3 DEF HeldBySubscription
    <3> QED BY <1>1, <2>2, <3>2, <3>4 DEF Pending
  <2> QED BY <2>1, <2>2
<1>9. Ticks(SeenDeadline(cb)) < b
  BY <1>5, <1>7, <1>8 DEF Below
<1> QED BY <1>6, <1>9

\* A callback that is ready has a deadline: its own count of its runs leads it
\* to a queue that is not empty (priority_memory_strategy.hpp:211-218).
THEOREM ReadyHasADeadline ==
  ASSUME ~MayOverrun
  PROVE  Spec => []ReadyHasDeadline
<1>1. OrderedInv => ReadyHasDeadline
  BY ReadyFacts DEF ReadyHasDeadline
<1> QED BY OrderedInvariant, <1>1, PTL

\* ... which is less than a period later than that of the instance it would
\* run for, however late its chain is and whatever it has lost
\* (priority_memory_strategy.hpp:790-842, 949-958).
THEOREM DeadlineSeenWithinAPeriod ==
  ASSUME ~MayOverrun
  PROVE  Spec => []SeenWithinAPeriod
<1>1. OrderedInv => SeenWithinAPeriod
  BY ReadyFacts DEF SeenWithinAPeriod
<1> QED BY OrderedInvariant, <1>1, PTL

-----------------------------------------------------------------------------
(***************************************************************************)
(* The queues as a ledger of the instances under way.                      *)
(***************************************************************************)
LEMMA FiniteFacts ==
  /\ IsFiniteSet(Callbacks)
  /\ \A c \in Chains : IsFiniteSet(Queues(c))
<1>1. IsFiniteSet(Chains) /\ IsFiniteSet(0..MaxLength)
  BY ChainAssumption, FS_Interval
<1>2. IsFiniteSet(Chains \X (0..MaxLength))
  BY <1>1, FS_Product
<1>3. MaxLength \in Nat /\ \A c \in Chains : Length[c] \in 2..MaxLength
  BY ChainAssumption
<1>4. MaxLength >= 2
  <2>1. PICK c : c \in Chains
    BY ChainAssumption
  <2> QED BY <1>3, <2>1
<1>5. Callbacks \in SUBSET (Chains \X (0..MaxLength))
  BY <1>3, <1>4 DEF Callbacks, Timers, Subscriptions
<1>6. ASSUME NEW c \in Chains PROVE IsFiniteSet(Queues(c))
  <2>1. 0 \in Int /\ MaxChainNum(c) - 1 \in Int
    BY QueueCount
  <2> QED BY <2>1, FS_Interval DEF Queues
<1> QED BY <1>2, <1>5, <1>6, FS_Subset

\* How many of some callbacks there are, with one more, and with one less.
LEMMA CountCallbacks ==
  ASSUME NEW S \in SUBSET Callbacks
  PROVE  /\ Cardinality(S) \in Nat
         /\ \A x \in Callbacks : x \notin S
              => Cardinality(S \union {x}) = Cardinality(S) + 1
         /\ \A x \in S : Cardinality(S \ {x}) = Cardinality(S) - 1
<1>1. IsFiniteSet(S)
  BY FiniteFacts, FS_Subset
<1> QED BY <1>1, FS_CardinalityType, FS_AddElement, FS_RemoveElement

LEMMA LedgerTypes ==
  ASSUME TypeOK, NEW c \in Chains
  PROVE  /\ Released(c) \in SUBSET Callbacks /\ Running(c) \in SUBSET Callbacks
         /\ Sent(c) \in SUBSET Callbacks
         /\ Cardinality(Released(c)) \in Nat /\ Cardinality(Running(c)) \in Nat
         /\ Cardinality(Sent(c)) \in Nat
         /\ [q \in Queues(c) |-> Len(deadlines[c][q])] \in [Queues(c) -> Nat]
         /\ Queued(c) \in Nat
         /\ lost[c] \in Nat
<1>1. /\ Released(c) \in SUBSET Callbacks /\ Running(c) \in SUBSET Callbacks
      /\ Sent(c) \in SUBSET Callbacks
  BY DEF Released, Running, Sent, Path
<1>2. \A q \in Queues(c) : Len(deadlines[c][q]) \in Nat
  BY DEF TypeOK
<1>3. [q \in Queues(c) |-> Len(deadlines[c][q])] \in [Queues(c) -> Nat]
  BY <1>2
<1>4. Queued(c) \in Nat
  BY <1>3, FiniteFacts, SumType DEF Queued
<1> QED BY <1>1, <1>3, <1>4, CountCallbacks DEF TypeOK

LEMMA LedgerTypes2 ==
  ASSUME TypeOK', NEW c \in Chains
  PROVE  Queued(c)' \in Nat
<1> DEFINE f == [q \in Queues(c) |-> Len(deadlines'[c][q])]
<1>1. f \in [Queues(c) -> Nat]
  BY DEF TypeOK, Queues
<1>2. Queued(c)' = SumFunction(f)
  BY DEF Queued, Queues
<1> HIDE DEF f
<1> QED BY <1>1, <1>2, FiniteFacts, SumType

\* Where an instance of a chain can be.
LEMMA PathFacts ==
  ASSUME TypeOK, HeldInv, NEW c \in Chains
  PROVE  /\ Trigger(c) \in Path(c) /\ Final(c) \in Path(c)
         /\ \A cb \in Path(c) \ Timers : cb \in Subscriptions /\ cb[1] = c
         /\ \A cb \in Path(c) \intersect Timers :
              phase[cb] # "idle" => cb = Trigger(c)
         /\ \A cb \in Path(c) :
              IsLast(cb) <=> cb = Final(c)
<1>1. Trigger(c) \in Path(c) /\ Final(c) \in Path(c)
  BY PlaceFacts DEF Path, Trigger, Final
<1>2. \A cb \in Path(c) \ Timers : cb \in Subscriptions /\ cb[1] = c
  BY CallbackFacts, PlaceFacts DEF Path, Callbacks, Trigger
<1>3. ASSUME NEW cb \in Path(c) \intersect Timers, phase[cb] # "idle"
      PROVE  cb = Trigger(c)
  <2>1. cb = <<cb[1], 1>>
    BY CallbackFacts
  <2>2. CASE cb[1] = c
    <3>1. HasTimer(c)
      BY <1>3, <2>1, <2>2, CallbackFacts DEF HeldInv
    <3> QED BY <2>1, <2>2, <3>1 DEF HasTimer, Trigger
  <2> QED BY <2>2 DEF Path, Trigger
<1>4. ASSUME NEW cb \in Path(c)
      PROVE  IsLast(cb) <=> cb = Final(c)
  <2>1. CASE cb \in Timers
    <3>1. cb = <<cb[1], 1>> /\ cb[1] \in Chains
      BY <2>1, CallbackFacts
    <3>2. \A d \in Chains : Length[d] # 1
      BY PlaceFacts
    <3> QED BY <3>1, <3>2 DEF IsLast, Final
  <2>2. CASE cb \notin Timers
    BY <1>2, <2>2, CallbackFacts DEF IsLast, Final
  <2> QED BY <2>1, <2>2
<1> QED BY <1>1, <1>2, <1>3, <1>4

\* The entries of a chain change with those of one of its queues.
LEMMA QueuedChange ==
  ASSUME TypeOK, TypeOK', NEW c \in Chains, NEW p \in Queues(c),
         \A q \in Queues(c) \ {p} : deadlines'[c][q] = deadlines[c][q]
  PROVE  Queued(c)' = Queued(c) + Len(deadlines'[c][p]) - Len(deadlines[c][p])
<1> DEFINE f == [q \in Queues(c) |-> Len(deadlines[c][q])]
           h == [q \in Queues(c) |-> Len(deadlines'[c][q])]
<1>1. f \in [Queues(c) -> Nat]
  BY LedgerTypes
<1>2. h \in [Queues(c) -> Nat]
  BY DEF TypeOK, Queues
<1>3. \A q \in Queues(c) \ {p} : h[q] = f[q]
  OBVIOUS
<1>4. h[p] = Len(deadlines'[c][p]) /\ f[p] = Len(deadlines[c][p])
  OBVIOUS
<1>5. Queued(c) = SumFunction(f)
  BY DEF Queued
<1>6. Queued(c)' = SumFunction(h)
  BY DEF Queued, Queues
<1> HIDE DEF f, h
<1>7. SumFunction(h) = SumFunction(f) + h[p] - f[p]
  BY <1>1, <1>2, <1>3, FiniteFacts, SumChange
<1> QED BY <1>4, <1>5, <1>6, <1>7

\* The timer's dispatch makes an entry, that of the last callback takes one out
\* if it finds one, and no other touches them.
LEMMA AccountQueued ==
  ASSUME TypeOK, TypeOK', NEW c \in Chains, isF1tenth' = isF1tenth,
         NEW cb \in Callbacks, Account(cb), Ready(cb), SeenDeadline(cb) > 0
  PROVE  /\ cb = Trigger(c) => Queued(c)' = Queued(c) + 1
         /\ cb = Final(c) => Queued(c)' = Queued(c) - 1
         /\ cb # Trigger(c) /\ cb # Final(c) => Queued(c)' = Queued(c)
<1>1. Queued(c) \in Nat
  BY LedgerTypes
<1>2. ASSUME cb = Trigger(c) PROVE Queued(c)' = Queued(c) + 1
  <2> DEFINE t == Triggered(c)
             p == Advance(curIndex[cb], cb)
             w == NextRelease(releaseTime[t], Millis(now, TicksPerMs), Period[t])
                    + Deadline[t]
  <2>1. /\ t \in Chains /\ MaxChainNum(t) = MaxChainNum(c) /\ c \in Fed(t)
    BY TriggeredFacts DEF TypeOK
  <2>2. cb[1] = t /\ cb \in Timers
    BY <1>2, PlaceFacts DEF Trigger
  <2>3. p \in Queues(c)
    <3>1. p \in Queues(t)
      BY <2>2, AdvanceFacts DEF TypeOK
    <3> QED BY <2>1, <3>1 DEF Queues
  <2>4. deadlines'[c] = [deadlines[c] EXCEPT ![p] = Append(@, w)]
    BY <2>1, <2>2 DEF Account, TakeTimer, PushNext
  <2> HIDE DEF p, w
  <2>5. deadlines[c] \in [Queues(c) -> Seq(Nat)]
    BY DEF TypeOK
  <2>6. /\ \A q \in Queues(c) \ {p} : deadlines'[c][q] = deadlines[c][q]
        /\ deadlines'[c][p] = Append(deadlines[c][p], w)
    BY <2>3, <2>4, <2>5
  <2>7. /\ Len(deadlines'[c][p]) = Len(deadlines[c][p]) + 1
        /\ Len(deadlines[c][p]) \in Nat
    BY <2>3, <2>5, <2>6
  <2>8. Queued(c)' = Queued(c) + Len(deadlines'[c][p]) - Len(deadlines[c][p])
    BY <2>3, <2>6, QueuedChange
  <2> QED BY <1>1, <2>7, <2>8
<1>3. ASSUME cb = Final(c) PROVE Queued(c)' = Queued(c) - 1
  <2> DEFINE p == curIndex[cb]
  <2>1. cb[1] = c /\ cb \notin Timers /\ IsLast(cb)
    BY <1>3, PlaceFacts, CallbackFacts DEF Final, IsLast
  <2>2. p \in Queues(c)
    BY <2>1 DEF TypeOK
  <2>3. deadlines[c] \in [Queues(c) -> Seq(Nat)]
    BY DEF TypeOK
  <2>4. deadlines' = [deadlines EXCEPT ![c][p] = PopFront(@)]
    BY <2>1 DEF Account, TakeSubscription
  <2>5. deadlines'[c] = [deadlines[c] EXCEPT ![p] = PopFront(@)]
    BY <2>4 DEF TypeOK
  <2>6. deadlines[c][p] # <<>>
    BY <2>1 DEF SeenDeadline
  <2>7. /\ \A q \in Queues(c) \ {p} : deadlines'[c][q] = deadlines[c][q]
        /\ deadlines'[c][p] = Tail(deadlines[c][p])
    BY <2>2, <2>3, <2>5, <2>6 DEF PopFront
  <2>8. /\ Len(deadlines'[c][p]) = Len(deadlines[c][p]) - 1
        /\ Len(deadlines[c][p]) \in Nat
    BY <2>2, <2>3, <2>6, <2>7
  <2>9. Queued(c)' = Queued(c) + Len(deadlines'[c][p]) - Len(deadlines[c][p])
    BY <2>2, <2>7, QueuedChange
  <2> QED BY <1>1, <2>8, <2>9
<1>4. ASSUME cb # Trigger(c), cb # Final(c) PROVE Queued(c)' = Queued(c)
  <2>1. deadlines'[c] = deadlines[c]
    <3>1. CASE cb \in Timers
      <4>1. cb = <<cb[1], 1>> /\ cb[1] # Triggered(c)
        BY <1>4, <3>1, CallbackFacts DEF Trigger
      <4>2. c \notin Fed(cb[1])
        BY <4>1 DEF Fed
      <4> QED BY <3>1, <4>2 DEF Account, TakeTimer, PushNext
    <3>2. CASE cb \notin Timers
      <4>1. cb \in Subscriptions
        BY <3>2 DEF Callbacks
      <4>2. IsLast(cb) => cb[1] # c
        BY <1>4, <4>1, CallbackFacts DEF IsLast, Final
      <4>3. deadlines' = IF IsLast(cb)
              THEN [deadlines EXCEPT ![cb[1]][curIndex[cb]] = PopFront(@)]
              ELSE deadlines
        BY <3>2 DEF Account, TakeSubscription
      <4> QED BY <4>2, <4>3 DEF TypeOK
    <3> QED BY <3>1, <3>2
  <2> QED BY <2>1 DEF Queued, Queues
<1> QED BY <1>2, <1>3, <1>4

Ledger(c) == Queued(c) = InFlight(c) + lost[c] + 1

\* A step that moves no instance of a chain changes nothing.
LEMMA LedgerFrame ==
  ASSUME NEW c \in Chains, Ledger(c), Queued(c)' = Queued(c),
         Released(c)' = Released(c), Running(c)' = Running(c),
         Sent(c)' = Sent(c), lost'[c] = lost[c]
  PROVE  Ledger(c)'
<1>1. InFlight(c)' = InFlight(c)
  BY DEF InFlight
<1> QED BY <1>1 DEF Ledger

LEMMA InitLedger ==
  ASSUME Init, NEW c \in Chains
  PROVE  Ledger(c)
<1>1. TypeOK
  BY InitType
<1>2. Released(c) = {} /\ Running(c) = {} /\ Sent(c) = {}
  <2>1. \A cb \in Callbacks : phase[cb] = "idle"
    BY DEF Init
  <2>2. \A s \in Callbacks \ Timers : mailbox[s] = NoMessage
    BY DEF Init, Callbacks
  <2> QED BY <2>1, <2>2 DEF Released, Running, Sent, Path
<1>3. InFlight(c) = 0 /\ lost[c] = 0
  BY <1>2, FS_EmptySet DEF InFlight, Init
<1>4. PICK first \in [Chains -> Nat] : FirstDeadlines(first)
  BY InitFacts
<1> DEFINE w == first[c] + Deadline[c]
           f == [q \in Queues(c) |-> Len(deadlines[c][q])]
           z == [q \in Queues(c) |-> 0]
<1>5. f \in [Queues(c) -> Nat] /\ z \in [Queues(c) -> Nat]
  BY <1>1, LedgerTypes
<1>6. deadlines[c] = [q \in Queues(c) |-> IF q = 0 THEN <<w>> ELSE <<>>]
  BY <1>4 DEF FirstDeadlines
<1>7. 0 \in Queues(c)
  BY QueueCount
<1> HIDE DEF w
<1>8. Len(deadlines[c][0]) = 1
      /\ \A q \in Queues(c) \ {0} : Len(deadlines[c][q]) = 0
  BY <1>6, <1>7
<1>9. f[0] = 1 /\ z[0] = 0 /\ \A q \in Queues(c) \ {0} : f[q] = z[q]
  BY <1>7, <1>8
<1>10. \A q \in Queues(c) : z[q] = 0
  OBVIOUS
<1>11. Queued(c) = SumFunction(f)
  BY DEF Queued
<1> HIDE DEF f, z
<1>12. SumFunction(z) = 0
  BY <1>5, <1>10, FiniteFacts, SumOfZeros
<1>13. SumFunction(f) = SumFunction(z) + f[0] - z[0]
  BY <1>5, <1>7, <1>9, FiniteFacts, SumChange
<1>14. Queued(c) = 1
  BY <1>9, <1>11, <1>12, <1>13
<1> QED BY <1>3, <1>14 DEF Ledger

\* A timer's dispatch releases an instance for the entry it makes; that of the
\* last callback takes one out for the instance it takes.
LEMMA DispatchLedger ==
  ASSUME ~MayOverrun, BaseInv, TypeOK', NEW c \in Chains, Ledger(c),
         NEW cb \in Callbacks, Dispatch(cb), SeenDeadline(cb) > 0
  PROVE  Ledger(c)'
<1> USE DEF BaseInv
<1>1. /\ Account(cb) /\ phase[cb] = "idle" /\ Ready(cb)
      /\ phase' = [phase EXCEPT ![cb] = "taken"]
      /\ UNCHANGED <<isF1tenth, mailbox, lost>>
  BY DispatchFacts DEF Dispatch, history
<1>2. \A b \in Callbacks : phase'[b] = IF b = cb THEN "taken" ELSE phase[b]
  BY <1>1 DEF TypeOK
<1>3. Path(c)' = Path(c)
  BY <1>1 DEF Path, Triggered
<1>4. Running(c)' = Running(c)
  BY <1>1, <1>2, <1>3 DEF Running, Path
<1>5. /\ cb = Trigger(c) => Queued(c)' = Queued(c) + 1
      /\ cb = Final(c) => Queued(c)' = Queued(c) - 1
      /\ cb # Trigger(c) /\ cb # Final(c) => Queued(c)' = Queued(c)
  BY <1>1, AccountQueued
<1>6. ASSUME cb = Trigger(c) PROVE Ledger(c)'
  <2>1. cb \in Timers /\ cb \in Path(c) /\ cb # Final(c)
    BY <1>6, PlaceFacts, PathFacts, CallbackFacts
  <2>2. cb \notin Released(c)
    BY <1>1 DEF Released
  <2>3. Released(c)' = Released(c) \union {cb}
    BY <1>2, <1>3, <2>1 DEF Released, Path
  <2>4. Sent(c)' = Sent(c)
    BY <1>1, <1>2, <1>3, <2>1 DEF Sent, Path
  <2>5. Cardinality(Released(c) \union {cb}) = Cardinality(Released(c)) + 1
    BY <2>2, LedgerTypes, CountCallbacks
  <2> QED BY <1>1, <1>4, <1>5, <1>6, <2>3, <2>4, <2>5, LedgerTypes
             DEF Ledger, InFlight
<1>7. ASSUME cb = Final(c) PROVE Ledger(c)'
  <2>1. cb \notin Timers /\ cb \in Subscriptions /\ cb \in Path(c) /\ IsLast(cb)
        /\ cb # Trigger(c)
    BY <1>7, PlaceFacts, PathFacts, CallbackFacts
  <2>2. Released(c)' = Released(c)
    BY <1>2, <1>3, <2>1 DEF Released, Path
  <2>3. cb \in Sent(c)
    BY <1>1, <2>1 DEF Sent, Ready
  <2>4. Sent(c)' = Sent(c) \ {cb}
    BY <1>1, <1>2, <1>3, <2>1 DEF Sent, Path
  <2>5. Cardinality(Sent(c) \ {cb}) = Cardinality(Sent(c)) - 1
    BY <2>3, LedgerTypes, CountCallbacks
  <2> QED BY <1>1, <1>4, <1>5, <1>7, <2>2, <2>4, <2>5, LedgerTypes
             DEF Ledger, InFlight
<1>8. ASSUME cb # Trigger(c), cb # Final(c) PROVE Ledger(c)'
  <2>1. cb \notin Path(c) \intersect Timers
    <3>1. ASSUME cb \in Path(c) \intersect Timers PROVE FALSE
      <4>1. cb = <<cb[1], 1>> /\ HasTimer(cb[1])
        BY <1>1, <3>1, CallbackFacts DEF Ready
      <4> QED BY <1>8, <3>1, <4>1 DEF Path, Trigger, HasTimer
    <3> QED BY <3>1
  <2>2. cb \in Path(c) => ~IsLast(cb)
    BY <1>8, PathFacts
  <2>3. Released(c)' = Released(c)
    BY <1>2, <1>3, <2>1 DEF Released, Path
  <2>4. Sent(c)' = Sent(c)
    BY <1>1, <1>2, <1>3, <2>2 DEF Sent, Path
  <2> QED BY <1>1, <1>4, <1>5, <1>8, <2>3, <2>4, LedgerFrame
<1> QED BY <1>6, <1>7, <1>8

LEMMA CallLedger ==
  ASSUME TypeOK, TypeOK', HeldInv, NEW c \in Chains, Ledger(c),
         NEW cb \in Callbacks, CallTimer(cb)
  PROVE  Ledger(c)'
<1>1. /\ cb \in Timers /\ phase[cb] = "taken"
      /\ phase' = [phase EXCEPT ![cb] = "running"]
      /\ UNCHANGED <<isF1tenth, mailbox, deadlines, lost>>
  BY DEF CallTimer, queueVars, history
<1>2. \A b \in Callbacks : phase'[b] = IF b = cb THEN "running" ELSE phase[b]
  BY <1>1 DEF TypeOK
<1>3. Path(c)' = Path(c)
  BY <1>1 DEF Path, Triggered
<1>4. Queued(c)' = Queued(c)
  BY <1>1 DEF Queued, Queues
<1>5. Sent(c)' = Sent(c)
  BY <1>1, <1>2, <1>3 DEF Sent, Path
<1>6. CASE cb \in Path(c)
  <2>1. ~IsLast(cb)
    BY <1>1, <1>6, PathFacts, PlaceFacts, CallbackFacts
  <2>2. cb \in Released(c) /\ Released(c)' = Released(c) \ {cb}
    BY <1>1, <1>2, <1>3, <1>6 DEF Released, Path
  <2>3. cb \notin Running(c) /\ Running(c)' = Running(c) \union {cb}
    BY <1>1, <1>2, <1>3, <1>6, <2>1 DEF Running, Path
  <2>4. /\ Cardinality(Released(c) \ {cb}) = Cardinality(Released(c)) - 1
        /\ Cardinality(Running(c) \union {cb}) = Cardinality(Running(c)) + 1
    BY <2>2, <2>3, LedgerTypes, CountCallbacks
  <2>5. InFlight(c)' = InFlight(c)
    BY <1>5, <2>2, <2>3, <2>4, LedgerTypes DEF InFlight
  <2> QED BY <1>1, <1>4, <2>5 DEF Ledger
<1>7. CASE cb \notin Path(c)
  <2>1. Released(c)' = Released(c) /\ Running(c)' = Running(c)
    BY <1>2, <1>3, <1>7 DEF Released, Running, Path
  <2> QED BY <1>1, <1>4, <1>5, <2>1, LedgerFrame
<1> QED BY <1>6, <1>7

LEMMA TakeLedger ==
  ASSUME TypeOK, TypeOK', HeldInv, NEW c \in Chains, Ledger(c),
         NEW cb \in Callbacks, TakeMessage(cb)
  PROVE  Ledger(c)'
<1>1. /\ cb \in Subscriptions /\ phase[cb] = "taken"
      /\ phase' = [phase EXCEPT ![cb] = "running"]
      /\ mailbox' = [mailbox EXCEPT ![cb] = NoMessage]
      /\ UNCHANGED <<isF1tenth, deadlines, lost>>
  BY DEF TakeMessage, queueVars, history
<1>2. /\ \A b \in Callbacks : phase'[b] = IF b = cb THEN "running" ELSE phase[b]
      /\ \A s \in Subscriptions :
           mailbox'[s] = IF s = cb THEN NoMessage ELSE mailbox[s]
  BY <1>1 DEF TypeOK
<1>3. Path(c)' = Path(c) /\ cb \notin Timers /\ mailbox[cb] # NoMessage
  BY <1>1, CallbackFacts DEF Path, Triggered, HeldInv
<1>4. Queued(c)' = Queued(c)
  BY <1>1 DEF Queued, Queues
<1>5. Released(c)' = Released(c)
  BY <1>2, <1>3 DEF Released, Path
<1>6. \A s \in Path(c) \ Timers : s \in Subscriptions /\ s \in Callbacks
  BY PathFacts, CallbackFacts
<1>7. CASE cb \in Path(c) /\ ~IsLast(cb)
  <2>1. cb \in Sent(c) /\ Sent(c)' = Sent(c) \ {cb}
    BY <1>2, <1>3, <1>6, <1>7 DEF Sent
  <2>2. cb \notin Running(c) /\ Running(c)' = Running(c) \union {cb}
    BY <1>1, <1>2, <1>3, <1>7 DEF Running, Path
  <2>3. /\ Cardinality(Sent(c) \ {cb}) = Cardinality(Sent(c)) - 1
        /\ Cardinality(Running(c) \union {cb}) = Cardinality(Running(c)) + 1
    BY <2>1, <2>2, LedgerTypes, CountCallbacks
  <2>4. InFlight(c)' = InFlight(c)
    BY <1>5, <2>1, <2>2, <2>3, LedgerTypes DEF InFlight
  <2> QED BY <1>1, <1>4, <2>4 DEF Ledger
<1>8. CASE ~(cb \in Path(c) /\ ~IsLast(cb))
  <2>1. Running(c)' = Running(c)
    BY <1>2, <1>3, <1>8 DEF Running, Path
  <2>2. Sent(c)' = Sent(c)
    BY <1>1, <1>2, <1>3, <1>6, <1>8 DEF Sent
  <2> QED BY <1>1, <1>4, <1>5, <2>1, <2>2, LedgerFrame
<1> QED BY <1>7, <1>8

\* The instances of a chain among some callbacks.
LEMMA OfChainChange ==
  ASSUME NEW c \in Chains, NEW S \in SUBSET Callbacks,
         NEW T \in SUBSET Callbacks
  PROVE  /\ (\A s \in Callbacks : s[1] = c => (s \in T <=> s \in S))
              => OfChain(c, T) = OfChain(c, S)
         /\ \A x \in Callbacks :
              /\ x[1] = c /\ x \notin S
              /\ \A s \in Callbacks : s[1] = c => (s \in T <=> s \in S \/ s = x)
              => OfChain(c, T) = OfChain(c, S) + 1
<1> DEFINE A == {s \in S : s[1] = c}
           B == {s \in T : s[1] = c}
<1>1. A \in SUBSET Callbacks /\ OfChain(c, S) = Cardinality(A)
      /\ OfChain(c, T) = Cardinality(B)
  BY DEF OfChain
<1>2. ASSUME \A s \in Callbacks : s[1] = c => (s \in T <=> s \in S)
      PROVE  A = B
  BY <1>2
<1>3. ASSUME NEW x \in Callbacks, x[1] = c, x \notin S,
             \A s \in Callbacks : s[1] = c => (s \in T <=> s \in S \/ s = x)
      PROVE  x \notin A /\ B = A \union {x}
  BY <1>3
<1> HIDE DEF A, B
<1>4. ASSUME NEW x \in Callbacks, x \notin A, B = A \union {x}
      PROVE  Cardinality(B) = Cardinality(A) + 1
  BY <1>1, <1>4, CountCallbacks
<1> QED BY <1>1, <1>2, <1>3, <1>4

\* A node that expires takes along what waits at it, and nothing else that is
\* under way.
LEMMA ExpireFlight ==
  ASSUME TypeOK, NEW c \in Chains, NEW g \in Groups, Expire(g),
         isF1tenth' = isF1tenth, phase' = phase
  PROVE  /\ Released(c)' = Released(c) /\ Running(c)' = Running(c)
         /\ Cardinality(Sent(c)') = Cardinality(Sent(c)) - OfChain(c, Waiters(g))
         /\ Waiters(g) \in SUBSET Callbacks
         /\ OfChain(c, Waiters(g)) \in Nat
<1> DEFINE W == {s \in Waiters(g) : s[1] = c}
<1>1. /\ \A cb \in Busy : GroupOf[cb] # g
      /\ \A s \in Subscriptions :
           mailbox'[s] = IF s \in Waiters(g) THEN NoMessage ELSE mailbox[s]
  BY DEF Expire
<1>2. Path(c)' = Path(c)
  BY DEF Path, Triggered
<1>3. Released(c)' = Released(c) /\ Running(c)' = Running(c)
  BY <1>2 DEF Released, Running
<1>4. ASSUME NEW s \in W
      PROVE  s \in Sent(c)
  <2>1. s \in Subscriptions /\ s \in Callbacks /\ s \notin Timers /\ s[1] = c
        /\ mailbox[s] # NoMessage /\ GroupOf[s] = g
    BY CallbackFacts DEF Waiters
  <2>2. phase[s] = "idle"
    BY <1>1, <2>1 DEF Busy
  <2> QED BY <2>1, <2>2 DEF Sent, Path
<1>5. \A s \in Path(c) \ Timers : s \in Subscriptions /\ s[1] = c
  BY CallbackFacts, PlaceFacts DEF Path, Callbacks, Trigger
<1>6. Sent(c)' = Sent(c) \ W
  <2>1. ASSUME NEW s \in Path(c) \ Timers
        PROVE  s \in Sent(c)' <=> s \in Sent(c) \ W
    <3>1. s \in W <=> s \in Waiters(g)
      BY <1>5
    <3>2. s \in Sent(c)' <=> mailbox'[s] # NoMessage
                              /\ ~(IsLast(s) /\ phase[s] = "taken")
      BY <1>2 DEF Sent, IsLast
    <3>3. s \in Sent(c) <=> mailbox[s] # NoMessage
                             /\ ~(IsLast(s) /\ phase[s] = "taken")
      BY DEF Sent
    <3> QED BY <1>1, <1>5, <3>1, <3>2, <3>3
  <2>2. Sent(c)' \subseteq Path(c) \ Timers /\ Sent(c) \subseteq Path(c) \ Timers
    BY <1>2 DEF Sent
  <2> QED BY <2>1, <2>2
<1>7. OfChain(c, Waiters(g)) = Cardinality(W)
  BY DEF OfChain
<1>8. Waiters(g) \in SUBSET Callbacks
  BY CallbackFacts DEF Waiters
<1>9. W \subseteq Sent(c)
  BY <1>4
<1> HIDE DEF W
<1>10. Cardinality(Sent(c) \ W) = Cardinality(Sent(c)) - Cardinality(W)
  <2>1. IsFiniteSet(Sent(c))
    BY LedgerTypes, FiniteFacts, FS_Subset
  <2>2. Cardinality(Sent(c) \ W)
          = Cardinality(Sent(c)) - Cardinality(Sent(c) \intersect W)
    BY <2>1, FS_Difference
  <2>3. Sent(c) \intersect W = W
    BY <1>9
  <2> QED BY <2>2, <2>3
<1> QED BY <1>3, <1>6, <1>7, <1>8, <1>10, OfChainFacts

LEMMA ExpireLedger ==
  ASSUME TypeOK, NEW c \in Chains, Ledger(c), NEW g \in Groups, NodeExpires(g)
  PROVE  Ledger(c)'
<1>1. /\ Expire(g) /\ lost'[c] = lost[c] + OfChain(c, Waiters(g))
      /\ UNCHANGED <<isF1tenth, phase, deadlines>>
  BY DEF NodeExpires, queueVars
<1>2. Queued(c)' = Queued(c)
  BY <1>1 DEF Queued, Queues
<1>3. /\ Released(c)' = Released(c) /\ Running(c)' = Running(c)
      /\ Cardinality(Sent(c)') = Cardinality(Sent(c)) - OfChain(c, Waiters(g))
      /\ OfChain(c, Waiters(g)) \in Nat
  BY <1>1, ExpireFlight
<1> QED BY <1>1, <1>2, <1>3, LedgerTypes DEF Ledger, InFlight

\* The bookkeeping for a callback that is not found any more: the timer's entry
\* is for an instance that is lost, and the last callback's is taken out.
LEMMA DispatchExpiredLedger ==
  ASSUME BaseInv, TypeOK', NEW c \in Chains, Ledger(c),
         NEW cb \in Callbacks, DispatchExpired(cb), SeenDeadline(cb) > 0
  PROVE  Ledger(c)'
<1> USE DEF BaseInv
<1> DEFINE g == GroupOf[cb]
           W == Waiters(g)
           popped == {l \in W : l = cb /\ IsLast(l)}
           pushed == IF cb \in Timers THEN {<<d, 1>> : d \in Fed(cb[1])} ELSE {}
           T == (W \ popped) \union pushed
<1>1. /\ Account(cb) /\ Ready(cb) /\ phase[cb] = "idle"
      /\ cb \in Subscriptions => mailbox[cb] # NoMessage
      /\ UNCHANGED <<isF1tenth, phase>>
  BY DispatchExpiredFacts
<1>2. Expire(g) /\ lost'[c] = lost[c] + OfChain(c, T)
  BY DEF DispatchExpired
<1>3. g \in Groups
  BY DEF Groups
<1>4. /\ Released(c)' = Released(c) /\ Running(c)' = Running(c)
      /\ Cardinality(Sent(c)') = Cardinality(Sent(c)) - OfChain(c, W)
      /\ W \in SUBSET Callbacks /\ OfChain(c, W) \in Nat
  BY <1>1, <1>2, <1>3, ExpireFlight
<1>5. /\ cb = Trigger(c) => Queued(c)' = Queued(c) + 1
      /\ cb = Final(c) => Queued(c)' = Queued(c) - 1
      /\ cb # Trigger(c) /\ cb # Final(c) => Queued(c)' = Queued(c)
  BY <1>1, AccountQueued
<1>6. pushed \in SUBSET Timers
  BY CallbackFacts DEF Fed
<1>7. T \in SUBSET Callbacks
  BY <1>4, <1>6, CallbackFacts
<1>8. W \subseteq Subscriptions
  BY DEF Waiters
<1>9. ASSUME cb = Trigger(c) PROVE OfChain(c, T) = OfChain(c, W) + 1
  <2>1. cb \in Timers /\ cb \notin Subscriptions /\ cb[1] = Triggered(c)
        /\ c \in Fed(cb[1])
    BY <1>9, PlaceFacts, TriggeredFacts, CallbackFacts DEF Trigger, TypeOK
  <2>2. popped = {}
    BY <1>8, <2>1
  <2>3. <<c, 1>> \in Callbacks /\ <<c, 1>> \notin W /\ <<c, 1>> \in pushed
    BY <1>8, <2>1, CallbackFacts
  <2>4. \A s \in pushed : s[1] = c => s = <<c, 1>>
    BY <2>1
  <2>5. \A s \in Callbacks : s[1] = c => (s \in T <=> s \in W \/ s = <<c, 1>>)
    BY <2>2, <2>3, <2>4
  <2> HIDE DEF T, W
  <2> QED BY <1>4, <1>7, <2>3, <2>5, OfChainChange
<1>10. ASSUME cb = Final(c) PROVE OfChain(c, W) = OfChain(c, T) + 1
  <2>1. cb \in Subscriptions /\ cb \notin Timers /\ cb[1] = c /\ IsLast(cb)
    BY <1>10, PlaceFacts, CallbackFacts DEF Final, IsLast
  <2>2. cb \in W /\ popped = {cb} /\ pushed = {}
    BY <1>1, <2>1 DEF Waiters
  <2>3. T = W \ {cb}
    BY <2>2
  <2>4. cb \notin T
        /\ \A s \in Callbacks : s[1] = c => (s \in W <=> s \in T \/ s = cb)
    BY <2>2, <2>3
  <2> HIDE DEF T, W
  <2> QED BY <1>4, <1>7, <2>1, <2>4, OfChainChange
<1>11. ASSUME cb # Trigger(c), cb # Final(c)
       PROVE  OfChain(c, T) = OfChain(c, W)
  <2>1. \A s \in popped : s[1] # c
    <3>1. \A s \in popped : s = cb /\ IsLast(s) /\ s \in Subscriptions
      BY <1>8
    <3> QED BY <1>11, <3>1, CallbackFacts DEF IsLast, Final
  <2>2. \A s \in pushed : s[1] # c
    <3>1. CASE cb \in Timers
      <4>1. c \notin Fed(cb[1])
        BY <1>11, <3>1, CallbackFacts DEF Fed, Trigger
      <4> QED BY <4>1
    <3> QED BY <3>1
  <2>3. \A s \in Callbacks : s[1] = c => (s \in T <=> s \in W)
    BY <2>1, <2>2
  <2> HIDE DEF T, W
  <2> QED BY <1>4, <1>7, <2>3, OfChainChange
<1>12. OfChain(c, T) \in Nat
  BY <1>7, OfChainFacts
<1> HIDE DEF T, W
<1>13. /\ InFlight(c)' = InFlight(c) - OfChain(c, W)
       /\ InFlight(c) \in Nat /\ Queued(c) \in Nat /\ lost[c] \in Nat
  BY <1>4, LedgerTypes DEF InFlight
<1>14. Queued(c) = InFlight(c) + lost[c] + 1
  BY DEF Ledger
<1>15. Queued(c)' - Queued(c) = OfChain(c, T) - OfChain(c, W)
  <2>1. Trigger(c) # Final(c)
    BY PlaceFacts, CallbackFacts
  <2>2. CASE cb = Trigger(c)
    BY <1>4, <1>5, <1>9, <1>12, <1>13, <2>1, <2>2
  <2>3. CASE cb = Final(c)
    BY <1>4, <1>5, <1>10, <1>12, <1>13, <2>1, <2>3
  <2>4. CASE cb # Trigger(c) /\ cb # Final(c)
    BY <1>4, <1>5, <1>11, <1>12, <1>13, <2>4
  <2> QED BY <2>2, <2>3, <2>4
<1>16. Queued(c)' \in Nat
  BY LedgerTypes2
<1>17. Queued(c)' = InFlight(c)' + lost'[c] + 1
  <2> DEFINE q == Queued(c)
             r == Queued(c)'
             i == InFlight(c)
             j == InFlight(c)'
             l == lost[c]
             m == lost'[c]
             t == OfChain(c, T)
             w == OfChain(c, W)
  <2>1. /\ q \in Nat /\ r \in Nat /\ i \in Nat /\ l \in Nat
        /\ t \in Nat /\ w \in Nat
    BY <1>4, <1>12, <1>13, <1>16
  <2>2. q = i + l + 1 /\ r - q = t - w /\ j = i - w /\ m = l + t
    BY <1>2, <1>13, <1>14, <1>15
  <2> HIDE DEF q, r, i, j, l, m, t, w
  <2>3. r = j + m + 1
    BY <2>1, <2>2
  <2> QED BY <2>3 DEF r, j, m
<1> QED BY <1>17 DEF Ledger

\* Who gets what a callback of a chain publishes.
LEMMA SubscriberFacts ==
  ASSUME TypeOK, HeldInv, NEW c \in Chains, NEW cb \in Callbacks,
         phase[cb] # "idle"
  PROVE  /\ \A s \in Subscribers(cb) : s[1] = c =>
              cb \in Path(c) /\ ~IsLast(cb) /\ s = <<c, cb[2] + 1>>
         /\ cb \in Path(c) /\ ~IsLast(cb) =>
              /\ <<c, cb[2] + 1>> \in Subscribers(cb)
              /\ <<c, cb[2] + 1>> \in Subscriptions
              /\ <<c, cb[2] + 1>> # cb
<1>1. ASSUME NEW s \in Subscribers(cb), s[1] = c
      PROVE  cb \in Path(c) /\ ~IsLast(cb) /\ s = <<c, cb[2] + 1>>
  <2>1. s \in Subscriptions /\ s[2] = cb[2] + 1
        /\ (s[1] = cb[1] \/ (cb \in Timers /\ s[1] \in Fed(cb[1])))
    BY DEF Subscribers
  <2>2. s = <<c, cb[2] + 1>> /\ cb[2] + 1 \in 2..Length[c]
    BY <1>1, <2>1, CallbackFacts
  <2>3. cb \in Path(c)
    BY <1>1, <2>1, CallbackFacts DEF Path, Fed
  <2>4. cb[2] \in Nat
    BY CallbackFacts, PlaceFacts DEF Callbacks
  <2>5. cb # Final(c)
    BY <2>2, <2>4, PlaceFacts DEF Final
  <2> QED BY <2>2, <2>3, <2>5, PathFacts
<1>2. ASSUME cb \in Path(c), ~IsLast(cb)
      PROVE  /\ <<c, cb[2] + 1>> \in Subscribers(cb)
             /\ <<c, cb[2] + 1>> \in Subscriptions
             /\ <<c, cb[2] + 1>> # cb
  <2> DEFINE s == <<c, cb[2] + 1>>
  <2>1. CASE cb \in Timers
    <3>1. cb = Trigger(c) /\ cb[2] = 1 /\ cb[1] = Triggered(c)
      <4>1. cb \in Path(c) \intersect Timers
        BY <1>2, <2>1
      <4>2. cb = Trigger(c)
        BY <4>1, PathFacts
      <4> QED BY <4>2 DEF Trigger
    <3>2. s = <<c, 2>> /\ s \in Subscriptions
      BY <3>1, PlaceFacts
    <3>3. c \in Fed(cb[1])
      BY <3>1 DEF Fed
    <3> QED BY <2>1, <3>1, <3>2, <3>3 DEF Subscribers
  <2>2. CASE cb \notin Timers
    <3>1. cb \in Subscriptions /\ cb[1] = c /\ cb = <<c, cb[2]>>
          /\ cb[2] \in 2..Length[c] /\ cb[2] # Length[c]
      BY <1>2, <2>2, PathFacts, CallbackFacts DEF IsLast
    <3>2. Length[c] \in Nat
      BY PlaceFacts
    <3>3. cb[2] + 1 \in 2..Length[c] /\ cb[2] + 1 # cb[2]
      BY <3>1, <3>2
    <3>4. s \in Subscriptions
      BY <3>3, PlaceFacts
    <3> QED BY <3>1, <3>3, <3>4 DEF Subscribers
  <2> QED BY <2>1, <2>2
<1> QED BY <1>1, <1>2

\* What a callback publishes waits at the next one, in place of what nobody
\* took, or is lost.
LEMMA FinishLedger ==
  ASSUME TypeOK, TypeOK', HeldInv, NEW c \in Chains, Ledger(c),
         NEW cb \in Callbacks, Finish(cb)
  PROVE  Ledger(c)'
<1> DEFINE U == Undelivered(cb)
           s0 == <<c, cb[2] + 1>>
<1>1. /\ phase[cb] = "running" /\ mailbox' = Published(cb)
      /\ phase' = [phase EXCEPT ![cb] = "idle"]
      /\ lost'[c] = lost[c] + OfChain(c, U)
      /\ UNCHANGED <<isF1tenth, deadlines>>
  BY DEF Finish, queueVars
<1>2. \A b \in Callbacks : phase'[b] = IF b = cb THEN "idle" ELSE phase[b]
  BY <1>1 DEF TypeOK
<1>3. \A s \in Subscriptions :
        mailbox'[s] = IF s \in Subscribers(cb) /\ Alive(s) THEN instance[cb]
                                                         ELSE mailbox[s]
  BY <1>1 DEF Published
<1>4. Path(c)' = Path(c)
  BY <1>1 DEF Path, Triggered
<1>5. Queued(c)' = Queued(c)
  BY <1>1 DEF Queued, Queues
<1>6. Released(c)' = Released(c)
  BY <1>1, <1>2, <1>4 DEF Released, Path
<1>7. U \in SUBSET Callbacks /\ {} \in SUBSET Callbacks /\ U \subseteq Subscribers(cb)
  BY CallbackFacts DEF Undelivered, Overwrites, Subscribers
<1>8. \A s \in Path(c) \ Timers : s \in Subscriptions /\ s \in Callbacks /\ s[1] = c
  BY PathFacts, CallbackFacts
<1>9. OfChain(c, {}) = 0
  BY FS_EmptySet DEF OfChain
<1>10. CASE cb \in Path(c) /\ ~IsLast(cb)
  <2>1. /\ s0 \in Subscribers(cb) /\ s0 \in Subscriptions /\ s0 # cb
        /\ \A s \in Subscribers(cb) : s[1] = c => s = s0
    BY <1>1, <1>10, SubscriberFacts
  <2>2. s0 \in Callbacks /\ s0[1] = c /\ s0 \notin Timers
    BY <2>1, CallbackFacts
  <2>3. cb \in Running(c) /\ Running(c)' = Running(c) \ {cb}
    BY <1>1, <1>2, <1>4, <1>10 DEF Running, Path
  <2>4. Cardinality(Running(c) \ {cb}) = Cardinality(Running(c)) - 1
    BY <2>3, LedgerTypes, CountCallbacks
  <2> HIDE DEF s0
  <2>5. \A s \in Callbacks : s[1] = c /\ s # s0 => s \notin U
    BY <1>7, <2>1
  <2>6. CASE s0 \in U
    <3>1. OfChain(c, U) = 1
      <4>1. \A s \in Callbacks : s[1] = c => (s \in U <=> s \in {} \/ s = s0)
        BY <2>5, <2>6
      <4> HIDE DEF U
      <4>2. OfChain(c, U) = OfChain(c, {}) + 1
        BY <1>7, <2>2, <4>1, OfChainChange
      <4> QED BY <1>9, <4>2
    <3>2. mailbox'[s0] # NoMessage <=> mailbox[s0] # NoMessage
      BY <1>1, <1>3, <2>1, <2>6 DEF Undelivered, Overwrites, HeldInv
    <3>3. ASSUME NEW s \in Path(c) \ Timers
          PROVE  /\ mailbox'[s] # NoMessage <=> mailbox[s] # NoMessage
                 /\ IsLast(s) => phase'[s] = phase[s]
      <4>1. s # s0 => s \notin Subscribers(cb)
        BY <1>8, <2>1
      <4>2. IsLast(s) => s # cb
        BY <1>10
      <4> QED BY <1>2, <1>3, <1>8, <3>2, <4>1, <4>2
    <3>4. Sent(c)' = Sent(c)
      BY <1>4, <3>3 DEF Sent
    <3> QED BY <1>1, <1>5, <1>6, <2>3, <2>4, <3>1, <3>4, LedgerTypes
               DEF Ledger, InFlight
  <2>7. CASE s0 \notin U
    <3>1. OfChain(c, U) = 0
      <4>1. \A s \in Callbacks : s[1] = c => (s \in U <=> s \in {})
        BY <2>5, <2>7
      <4> HIDE DEF U
      <4>2. OfChain(c, U) = OfChain(c, {})
        BY <1>7, <4>1, OfChainChange
      <4> QED BY <1>9, <4>2
    <3>2. mailbox[s0] = NoMessage /\ Alive(s0)
      BY <2>1, <2>7 DEF Undelivered, Overwrites
    <3>3. mailbox'[s0] # NoMessage
      BY <1>1, <1>3, <2>1, <3>2 DEF HeldInv
    <3>4. phase[s0] # "taken" /\ phase'[s0] # "taken"
      BY <1>2, <2>1, <2>2, <3>2 DEF HeldInv
    <3>5. s0 \notin Sent(c) /\ s0 \in Path(c) \ Timers
      BY <2>2, <3>2 DEF Sent, Path
    <3>6. ASSUME NEW s \in Path(c) \ Timers, s # s0
          PROVE  /\ mailbox'[s] # NoMessage <=> mailbox[s] # NoMessage
                 /\ IsLast(s) => phase'[s] = phase[s]
      <4>1. s \notin Subscribers(cb)
        BY <1>8, <2>1, <3>6
      <4>2. IsLast(s) => s # cb
        BY <1>10
      <4> QED BY <1>2, <1>3, <1>8, <4>1, <4>2
    <3>7. Sent(c)' = Sent(c) \union {s0}
      <4>1. ASSUME NEW s \in Path(c) \ Timers
            PROVE  s \in Sent(c)' <=> s \in Sent(c) \/ s = s0
        BY <1>4, <3>3, <3>4, <3>6 DEF Sent, IsLast
      <4>2. Sent(c)' \subseteq Path(c) \ Timers /\ Sent(c) \subseteq Path(c) \ Timers
        BY <1>4 DEF Sent
      <4> QED BY <3>5, <4>1, <4>2
    <3>8. Cardinality(Sent(c) \union {s0}) = Cardinality(Sent(c)) + 1
      BY <2>2, <3>5, LedgerTypes, CountCallbacks
    <3> QED BY <1>1, <1>5, <1>6, <2>3, <2>4, <3>1, <3>7, <3>8, LedgerTypes
               DEF Ledger, InFlight
  <2> QED BY <2>6, <2>7
<1>11. CASE ~(cb \in Path(c) /\ ~IsLast(cb))
  <2>1. \A s \in Subscribers(cb) : s[1] # c
    BY <1>1, <1>11, SubscriberFacts
  <2>2. OfChain(c, U) = 0
    <3>1. \A s \in Callbacks : s[1] = c => (s \in U <=> s \in {})
      BY <1>7, <2>1
    <3> HIDE DEF U
    <3>2. OfChain(c, U) = OfChain(c, {})
      BY <1>7, <3>1, OfChainChange
    <3> QED BY <1>9, <3>2
  <2>3. Running(c)' = Running(c)
    BY <1>2, <1>4, <1>11 DEF Running, Path
  <2>4. \A s \in Path(c) \ Timers :
          /\ mailbox'[s] = mailbox[s]
          /\ phase'[s] = "taken" <=> phase[s] = "taken"
    BY <1>1, <1>2, <1>3, <1>8, <2>1
  <2>5. Sent(c)' = Sent(c)
    BY <1>4, <2>4 DEF Sent
  <2>6. lost'[c] = lost[c]
    BY <1>1, <2>2, LedgerTypes
  <2> QED BY <1>5, <1>6, <2>3, <2>5, <2>6, LedgerFrame
<1> QED BY <1>10, <1>11

LEMMA StepLedger ==
  ASSUME ~MayOverrun, OrderedInv, TypeOK', DeadlineLedger, [Next]_vars
  PROVE  DeadlineLedger'
<1> SUFFICES ASSUME NEW c \in Chains PROVE Ledger(c)'
  BY DEF DeadlineLedger, Ledger
<1>1. Ledger(c) /\ BaseInv /\ TypeOK /\ HeldInv
  BY DEF DeadlineLedger, Ledger, OrderedInv, BaseInv
<1>2. ASSUME NEW cb \in Callbacks, Dispatch(cb) PROVE Ledger(c)'
  <2>1. Waiting(cb)
    BY <1>1, <1>2, DispatchFacts DEF Waiting
  <2> QED BY <1>1, <1>2, <2>1, ReadyFacts, DispatchLedger
<1>3. ASSUME NEW cb \in Callbacks, DispatchExpired(cb) PROVE Ledger(c)'
  <2>1. Waiting(cb)
    BY <1>1, <1>3, DispatchExpiredFacts DEF Waiting
  <2> QED BY <1>1, <1>3, <2>1, ReadyFacts, DispatchExpiredLedger
<1>4. ASSUME NEW cb \in Callbacks, CallTimer(cb) PROVE Ledger(c)'
  BY <1>1, <1>4, CallLedger
<1>5. ASSUME NEW cb \in Callbacks, TakeMessage(cb) PROVE Ledger(c)'
  BY <1>1, <1>5, TakeLedger
<1>6. ASSUME NEW cb \in Callbacks, Finish(cb) PROVE Ledger(c)'
  BY <1>1, <1>6, FinishLedger
<1>7. ASSUME NEW g \in Groups, NodeExpires(g) PROVE Ledger(c)'
  BY <1>1, <1>7, ExpireLedger
<1>8. ASSUME UNCHANGED <<isF1tenth, deadlines, phase, mailbox, lost>>
      PROVE  Ledger(c)'
  <2>1. Path(c)' = Path(c)
    BY <1>8 DEF Path, Triggered
  <2> QED BY <1>1, <1>8, <2>1
             DEF Ledger, InFlight, Queued, Queues, Released, Running, Sent
<1>9. ASSUME NEW cb \in Callbacks, Unschedule(cb) PROVE Ledger(c)'
  BY <1>8, <1>9 DEF Unschedule, queueVars, history
<1>10. CASE Tick \/ Collect \/ Wait \/ UNCHANGED vars
  BY <1>8, <1>10 DEF Tick, Collect, Wait, vars, queueVars, history
<1> QED BY <1>2, <1>3, <1>4, <1>5, <1>6, <1>7, <1>9, <1>10 DEF Next

\* The queues are a ledger of the instances: one deadline for the next release,
\* one for each instance whose last callback has not been taken, and one for
\* each that was lost, however messages are lost and nodes expire, as long as no
\* timer is skipped (priority_memory_strategy.hpp:814, 831, 951-952).
THEOREM QueuesAreALedger ==
  ASSUME ~MayOverrun
  PROVE  Spec => []DeadlineLedger
<1>1. Init => DeadlineLedger
  BY InitLedger DEF DeadlineLedger, Ledger
<1>2. OrderedInv /\ OrderedInv' /\ DeadlineLedger /\ [Next]_vars
        => DeadlineLedger'
  BY StepLedger DEF OrderedInv, BaseInv
<1> QED BY OrderedInvariant, <1>1, <1>2, PTL DEF Spec
===============================================================================
