------------------------ MODULE EarliestDeadlineProofs ------------------------
(***************************************************************************)
(* The order in which callbacks run, for any number of chains, of any      *)
(* length and period, with any number of deadline queues.                  *)
(*                                                                         *)
(* However late the chains are and whatever they lose, instances do not    *)
(* overtake each other (AgeInv), and so the counters, by which the         *)
(* comparator settles ties, put the older instance first.                  *)
(*                                                                         *)
(* While the chains are on time and nothing is lost, all callbacks of a    *)
(* chain count its instances alike (ExactInv), its instances are a period  *)
(* apart (PacedInv), each of them at hand is before its deadline           *)
(* (FreshInv), a timer's record is as far off its next call as it was at   *)
(* the start (TimerInv), and so is every deadline off the instance it is   *)
(* for (TrackInv).  So at most MaxChainNum instances are under way, no two *)
(* of them share a queue, and the front that a callback sees is that of    *)
(* its own instance: but for what the set-up was off, the executor is EDF. *)
(***************************************************************************)
EXTENDS ChainDeadlinesProofs

-----------------------------------------------------------------------------
(***************************************************************************)
(* Instances do not overtake each other.                                   *)
(***************************************************************************)
\* The instances a callback has at hand: the one it runs for, and what it is
\* to run for next.
Holds == [cb \in Callbacks |->
  (IF phase[cb] = "running" THEN {instance[cb]} ELSE {})
  \union (IF cb \in Timers THEN {nextCall[cb[1]]}
                           ELSE {mailbox[cb]} \ {NoMessage})]

AgeInv ==
  /\ \A c \in Chains : \A j, k \in 1..Length[c] : j < k =>
       \A x \in Holds[<<c, k>>] : \A y \in Holds[At(c, j)] : x <= y
  /\ \A cb \in Callbacks : phase[cb] = "running" =>
       \A y \in Holds[cb] : instance[cb] <= y

LEMMA HoldsType ==
  ASSUME TypeOK
  PROVE  \A cb \in Callbacks : Holds[cb] \subseteq Nat
<1> TAKE cb \in Callbacks
<1>1. instance[cb] \in Nat
  BY DEF TypeOK
<1>2. cb \in Timers => nextCall[cb[1]] \in Nat
  BY CallbackFacts DEF TypeOK
<1>3. cb \notin Timers => mailbox[cb] \in Nat
  BY DEF TypeOK, Callbacks
<1> QED BY <1>1, <1>2, <1>3 DEF Holds

LEMMA HoldsType2 ==
  ASSUME TypeOK'
  PROVE  \A cb \in Callbacks : Holds'[cb] \subseteq Nat
<1> SUFFICES ASSUME NEW cb \in Callbacks PROVE Holds'[cb] \subseteq Nat
  OBVIOUS
<1>1. instance'[cb] \in Nat
  BY DEF TypeOK
<1>2. cb \in Timers => nextCall'[cb[1]] \in Nat
  BY CallbackFacts DEF TypeOK
<1>3. cb \notin Timers => mailbox'[cb] \in Nat
  BY DEF TypeOK, Callbacks
<1> QED BY <1>1, <1>2, <1>3 DEF Holds

LEMMA InitAge == Init => AgeInv
<1> SUFFICES ASSUME Init PROVE AgeInv
  OBVIOUS
<1>1. TypeOK
  BY InitType
<1>2. \A cb \in Callbacks : phase[cb] = "idle"
  BY DEF Init
<1>3. ASSUME NEW s \in Subscriptions PROVE Holds[s] = {}
  <2>1. s \in Callbacks /\ s \notin Timers /\ mailbox[s] = NoMessage
    BY CallbackFacts DEF Init
  <2> QED BY <1>2, <2>1 DEF Holds
<1>4. ASSUME NEW c \in Chains, NEW j \in 1..Length[c], NEW k \in 1..Length[c],
             j < k
      PROVE  Holds[<<c, k>>] = {}
  <2>1. k \in 2..Length[c]
    BY <1>1, <1>4, PlaceFacts
  <2> QED BY <1>1, <1>3, <2>1, PlaceFacts
<1> QED BY <1>2, <1>4 DEF AgeInv

\* A step that gives nothing to a subscription, and to a timer nothing older.
LEMMA AgeFrame ==
  ASSUME TypeOK, TypeOK', AgeInv, isF1tenth' = isF1tenth,
         \A s \in Subscriptions : Holds'[s] \subseteq Holds[s],
         \A b \in Callbacks : \A y \in Holds'[b] : \E z \in Holds[b] : z <= y,
         \A b \in Callbacks : phase'[b] = "running" =>
           \A y \in Holds'[b] : instance'[b] <= y
  PROVE  AgeInv'
<1>1. ASSUME NEW c \in Chains, NEW j \in 1..Length[c], NEW k \in 1..Length[c],
             j < k, NEW x \in Holds'[<<c, k>>], NEW y \in Holds'[At(c, j)']
      PROVE  x <= y
  <2> DEFINE s == <<c, k>>
             b == At(c, j)
  <2>1. k \in 2..Length[c]
    BY <1>1, PlaceFacts
  <2>2. s \in Subscriptions /\ b \in Callbacks /\ s \in Callbacks
    BY <2>1, PlaceFacts
  <2>3. At(c, j)' = b
    BY DEF At, Trigger, Triggered
  <2>4. Holds'[At(c, j)'] = Holds'[b]
    BY <2>3
  <2>5. \A u \in Holds[s] : \A z \in Holds[b] : u <= z
    BY <1>1 DEF AgeInv
  <2> HIDE DEF s, b
  <2>6. y \in Holds'[b]
    BY <1>1, <2>4
  <2>7. PICK z \in Holds[b] : z <= y
    BY <2>2, <2>6
  <2>8. x \in Holds[s]
    BY <1>1, <2>2 DEF s
  <2>9. x \in Nat /\ z \in Nat /\ y \in Nat
    BY <2>2, <2>6, <2>7, <2>8, HoldsType, HoldsType2
  <2>10. x <= z
    BY <2>5, <2>7, <2>8
  <2> QED BY <2>7, <2>9, <2>10
<1> QED BY <1>1 DEF AgeInv

\* What is published goes down the chain and is no newer than what is behind it.
LEMMA FinishAge ==
  ASSUME TypeOK, TypeOK', HeldInv, AgeInv, NEW cb \in Callbacks, Finish(cb)
  PROVE  AgeInv'
<1> DEFINE i == instance[cb]
<1>1. /\ phase[cb] = "running"
      /\ mailbox' = Published(cb)
      /\ phase' = [phase EXCEPT ![cb] = "idle"]
      /\ instance' = [instance EXCEPT ![cb] = NoMessage]
      /\ nextCall' = nextCall /\ isF1tenth' = isF1tenth
  BY DEF Finish, timerVars
<1>2. \A b \in Callbacks :
        /\ phase'[b] = IF b = cb THEN "idle" ELSE phase[b]
        /\ b # cb => instance'[b] = instance[b]
  BY <1>1 DEF TypeOK
<1>3. \A s \in Subscriptions :
        mailbox'[s] \in {mailbox[s]} \union
          (IF s \in Subscribers(cb) THEN {i} ELSE {})
  BY <1>1 DEF Published
<1>4. i \in Holds[cb] /\ i \in Nat
  BY <1>1, HoldsType DEF Holds
<1>5. \A y \in Holds[cb] : i <= y
  BY <1>1 DEF AgeInv
<1>6. \A b \in Callbacks : Holds'[b] \subseteq Holds[b] \union
        (IF b \in Subscribers(cb) THEN {i} ELSE {})
  <2> TAKE b \in Callbacks
  <2>1. CASE b \in Timers
    BY <1>1, <1>2, <2>1 DEF Holds
  <2>2. CASE b \notin Timers
    <3>1. b \in Subscriptions
      BY <2>2 DEF Callbacks
    <3> HIDE DEF i
    <3> QED BY <1>2, <1>3, <2>2, <3>1 DEF Holds
  <2> QED BY <2>1, <2>2
<1> HIDE DEF i
\* Downstream of cb nothing is newer than i, and upstream nothing is older.
<1>7. ASSUME NEW c \in Chains, NEW k \in 2..Length[c],
             <<c, k>> \in Subscribers(cb)
      PROVE  /\ \A m \in 1..Length[c] : k <= m =>
                  \A x \in Holds[<<c, m>>] : x <= i
             /\ \A j \in 1..Length[c] : j < k =>
                  \A y \in Holds[At(c, j)] : i <= y
  <2>1. cb = At(c, k - 1)
    BY <1>1, <1>7, PredecessorFacts
  <2>2. k \in Nat /\ k - 1 \in 1..Length[c] /\ k \in 1..Length[c]
    BY PlaceFacts
  <2>3. ASSUME NEW m \in 1..Length[c], k <= m, NEW x \in Holds[<<c, m>>]
        PROVE  x <= i
    BY <1>4, <2>1, <2>2, <2>3 DEF AgeInv
  <2>4. ASSUME NEW j \in 1..Length[c], j < k, NEW y \in Holds[At(c, j)]
        PROVE  i <= y
    <3>1. CASE j = k - 1
      BY <1>5, <2>1, <2>4, <3>1
    <3>2. CASE j < k - 1
      <4>1. cb = <<c, k - 1>>
        BY <2>1, <2>2, <3>2 DEF At
      <4> QED BY <1>4, <2>2, <2>4, <3>2, <4>1 DEF AgeInv
    <3> QED BY <2>2, <2>4, <3>1, <3>2
  <2> QED BY <2>3, <2>4
<1>8. ASSUME NEW c \in Chains, NEW j \in 1..Length[c], NEW k \in 1..Length[c],
             j < k, NEW x \in Holds'[<<c, k>>], NEW y \in Holds'[At(c, j)']
      PROVE  x <= y
  <2> DEFINE s == <<c, k>>
             b == At(c, j)
  <2>1. k \in 2..Length[c] /\ j \in Nat /\ k \in Nat
    BY <1>8, PlaceFacts
  <2>2. s \in Subscriptions /\ b \in Callbacks /\ s \in Callbacks
    BY <2>1, PlaceFacts
  <2>3. At(c, j)' = b
    BY <1>1 DEF At, Trigger, Triggered
  <2>4. Holds'[At(c, j)'] = Holds'[b]
    BY <2>3
  <2>5. x \in Holds[s] \/ (s \in Subscribers(cb) /\ x = i)
    BY <1>6, <1>8, <2>2
  <2>6. y \in Holds[b] \/ (b \in Subscribers(cb) /\ y = i)
    <3> HIDE DEF b
    <3> QED BY <1>6, <1>8, <2>2, <2>4
  <2>7. b \in Subscribers(cb) => b = <<c, j>> /\ j \in 2..Length[c]
    <3>1. CASE j = 1
      <4>1. b[2] = 1
        BY <3>1 DEF At, Trigger
      <4> QED BY <4>1, CallbackFacts DEF Subscribers
    <3>2. CASE j # 1
      BY <2>1, <3>2 DEF At
    <3> QED BY <3>1, <3>2
  <2>8. CASE x \in Holds[s] /\ y \in Holds[b]
    BY <1>8, <2>8 DEF AgeInv
  <2>9. CASE s \in Subscribers(cb) /\ x = i /\ y \in Holds[b]
    BY <1>7, <1>8, <2>1, <2>9
  <2>10. CASE x \in Holds[s] /\ b \in Subscribers(cb) /\ y = i
    <3>1. j <= k
      BY <1>8, <2>1
    <3> QED BY <1>7, <2>7, <2>10, <3>1
  <2>11. CASE x = i /\ y = i
    BY <1>4, <2>11
  <2> QED BY <2>5, <2>6, <2>8, <2>9, <2>10, <2>11
<1>9. ASSUME NEW b \in Callbacks, phase'[b] = "running", NEW y \in Holds'[b]
      PROVE  instance'[b] <= y
  <2>1. b # cb /\ phase[b] = "running" /\ instance'[b] = instance[b]
    BY <1>2, <1>9
  <2>2. CASE y \in Holds[b]
    BY <2>1, <2>2 DEF AgeInv
  <2>3. CASE b \in Subscribers(cb) /\ y = i
    <3>1. b \in Subscriptions
      BY <2>3 DEF Subscribers
    <3>2. /\ b = <<b[1], b[2]>> /\ b[1] \in Chains /\ b[2] \in 2..Length[b[1]]
          /\ b[2] \in 1..Length[b[1]] /\ b[2] <= b[2]
      BY <3>1, CallbackFacts, PlaceFacts
    <3>3. instance[b] \in Holds[b]
      BY <2>1 DEF Holds
    <3> QED BY <1>7, <2>1, <2>3, <3>2, <3>3
  <2> QED BY <1>6, <1>9, <2>2, <2>3
<1> QED BY <1>8, <1>9 DEF AgeInv

LEMMA StepAge ==
  ASSUME ~MayOverrun, BaseInv, TypeOK', AgeInv, [Next]_vars
  PROVE  AgeInv'
<1>0. /\ \A b \in Callbacks : Holds[b] \subseteq Nat
      /\ \A b \in Callbacks : Holds'[b] \subseteq Nat
      /\ Subscriptions \subseteq Callbacks
      /\ \A b \in Callbacks : b \notin Timers <=> b \in Subscriptions
      /\ TypeOK /\ HeldInv
  BY HoldsType, HoldsType2, CallbackFacts DEF Callbacks, BaseInv
\* Nothing new, and nobody who starts to run.
<1>1. ASSUME UNCHANGED <<isF1tenth, instance, nextCall>>,
             \A b \in Callbacks : phase'[b] = "running" => phase[b] = "running",
             \A s \in Subscriptions : mailbox'[s] \in {mailbox[s], NoMessage}
      PROVE  AgeInv'
  <2>1. \A b \in Callbacks : Holds'[b] \subseteq Holds[b]
    BY <1>0, <1>1 DEF Holds
  <2>2. \A b \in Callbacks : \A y \in Holds'[b] : \E z \in Holds[b] : z <= y
    BY <1>0, <2>1
  <2>3. \A b \in Callbacks : phase'[b] = "running" =>
          \A y \in Holds'[b] : instance'[b] <= y
    BY <1>1, <2>1 DEF AgeInv
  <2> QED BY <1>0, <1>1, <2>1, <2>2, <2>3, AgeFrame
<1>2. ASSUME NEW cb \in Callbacks, Dispatch(cb) PROVE AgeInv'
  <2>1. /\ phase' = [phase EXCEPT ![cb] = "taken"]
        /\ UNCHANGED <<isF1tenth, nextCall, mailbox, instance>>
    BY <1>2, DispatchFacts
  <2> QED BY <1>1, <2>1 DEF TypeOK
<1>3. ASSUME NEW cb \in Callbacks, DispatchExpired(cb) PROVE AgeInv'
  <2>1. /\ UNCHANGED <<isF1tenth, nextCall, phase, instance>>
        /\ \A s \in Subscriptions : mailbox'[s] \in {mailbox[s], NoMessage}
    BY <1>3, DispatchExpiredFacts
  <2> QED BY <1>1, <2>1
<1>4. ASSUME NEW cb \in Callbacks, CallTimer(cb) PROVE AgeInv'
  <2> DEFINE c == cb[1]
             n == NextCall(nextCall[c], now, Ticks(Period[c]))
  <2>1. /\ cb \in Timers /\ phase[cb] = "taken"
        /\ phase' = [phase EXCEPT ![cb] = "running"]
        /\ instance' = [instance EXCEPT ![cb] = nextCall[c]]
        /\ nextCall' = [nextCall EXCEPT ![c] = n]
        /\ UNCHANGED <<isF1tenth, mailbox>>
    BY <1>4 DEF CallTimer
  <2>2. /\ c \in Chains /\ cb = <<c, 1>>
        /\ \A b \in Timers : b = <<b[1], 1>> /\ b[1] \in Chains
    BY <2>1, CallbackFacts
  <2>3. n > nextCall[c] /\ nextCall[c] \in Nat /\ n \in Nat
    BY <1>0, <2>2, CallIsLater DEF CallLater, TypeOK
  <2> HIDE DEF n
  <2>4. \A b \in Callbacks :
          /\ phase'[b] = IF b = cb THEN "running" ELSE phase[b]
          /\ instance'[b] = IF b = cb THEN nextCall[c] ELSE instance[b]
    BY <1>0, <2>1 DEF TypeOK
  <2>5. \A d \in Chains : nextCall'[d] = IF d = c THEN n ELSE nextCall[d]
    BY <1>0, <2>1 DEF TypeOK
  <2>6. \A b \in Callbacks : b # cb => Holds'[b] = Holds[b]
    BY <2>1, <2>2, <2>4, <2>5 DEF Holds
  <2>7. Holds'[cb] = {nextCall[c], n} /\ nextCall[c] \in Holds[cb]
    BY <2>1, <2>2, <2>4, <2>5 DEF Holds
  <2>8. \A s \in Subscriptions : Holds'[s] \subseteq Holds[s]
    BY <2>1, <2>6, CallbackFacts
  <2>9. \A b \in Callbacks : \A y \in Holds'[b] : \E z \in Holds[b] : z <= y
    BY <1>0, <2>3, <2>6, <2>7
  <2>10. \A b \in Callbacks : phase'[b] = "running" =>
          \A y \in Holds'[b] : instance'[b] <= y
    BY <2>3, <2>4, <2>6, <2>7 DEF AgeInv
  <2> QED BY <1>0, <2>1, <2>8, <2>9, <2>10, AgeFrame
<1>5. ASSUME NEW cb \in Callbacks, TakeMessage(cb) PROVE AgeInv'
  <2>1. /\ cb \in Subscriptions /\ cb \notin Timers /\ phase[cb] = "taken"
        /\ phase' = [phase EXCEPT ![cb] = "running"]
        /\ instance' = [instance EXCEPT ![cb] = mailbox[cb]]
        /\ mailbox' = [mailbox EXCEPT ![cb] = NoMessage]
        /\ UNCHANGED <<isF1tenth, nextCall>>
    BY <1>5, CallbackFacts DEF TakeMessage, timerVars
  <2>2. mailbox[cb] # NoMessage
    BY <1>0, <2>1 DEF HeldInv
  <2>3. /\ \A b \in Callbacks :
             /\ phase'[b] = IF b = cb THEN "running" ELSE phase[b]
             /\ instance'[b] = IF b = cb THEN mailbox[cb] ELSE instance[b]
        /\ \A s \in Subscriptions :
             mailbox'[s] = IF s = cb THEN NoMessage ELSE mailbox[s]
    BY <1>0, <2>1 DEF TypeOK
  <2>4. \A b \in Callbacks : b # cb => Holds'[b] = Holds[b]
    BY <1>0, <2>1, <2>3 DEF Holds
  <2>5. Holds'[cb] = {mailbox[cb]} /\ Holds'[cb] \subseteq Holds[cb]
    BY <2>1, <2>2, <2>3 DEF Holds
  <2>6. \A b \in Callbacks : Holds'[b] \subseteq Holds[b]
    BY <2>4, <2>5
  <2>7. \A b \in Callbacks : \A y \in Holds'[b] : \E z \in Holds[b] : z <= y
    BY <1>0, <2>6
  <2>8. mailbox[cb] \in Nat
    BY <1>0, <2>1 DEF TypeOK
  <2>9. \A b \in Callbacks : phase'[b] = "running" =>
          \A y \in Holds'[b] : instance'[b] <= y
    BY <2>3, <2>4, <2>5, <2>8 DEF AgeInv
  <2> QED BY <1>0, <2>1, <2>6, <2>7, <2>9, AgeFrame
<1>6. ASSUME NEW cb \in Callbacks, Finish(cb) PROVE AgeInv'
  BY <1>0, <1>6, FinishAge
<1>7. ASSUME NEW g \in Groups, NodeExpires(g) PROVE AgeInv'
  <2>1. /\ UNCHANGED <<isF1tenth, nextCall, phase, instance>>
        /\ \A s \in Subscriptions : mailbox'[s] \in {mailbox[s], NoMessage}
    BY <1>7 DEF NodeExpires, Expire, timerVars
  <2> QED BY <1>1, <2>1
<1>8. ASSUME NEW cb \in Callbacks, Unschedule(cb) PROVE AgeInv'
  BY <1>1, <1>8 DEF Unschedule, timerVars
<1>9. CASE Tick \/ Collect \/ Wait
  BY <1>1, <1>9 DEF Tick, Collect, Wait, timerVars
<1>10. CASE UNCHANGED vars
  BY <1>1, <1>10 DEF vars, timerVars
<1> QED BY <1>2, <1>3, <1>4, <1>5, <1>6, <1>7, <1>8, <1>9, <1>10 DEF Next

-----------------------------------------------------------------------------
(***************************************************************************)
(* The order within a chain.                                               *)
(***************************************************************************)
AgedInv == OrderedInv /\ AgeInv

LEMMA AgedInvariant ==
  ASSUME ~MayOverrun
  PROVE  Spec => []AgedInv
<1>1. Init => AgeInv
  BY InitAge
<1>2. OrderedInv /\ OrderedInv' /\ AgeInv /\ [Next]_vars => AgeInv'
  BY StepAge DEF OrderedInv, BaseInv
<1>3. OrderedInv /\ AgeInv <=> AgedInv
  BY DEF AgedInv
<1> QED BY <1>1, <1>2, <1>3, OrderedInvariant, PTL DEF Spec

\* What is taken is chosen, among what was collected and ready.
LEMMA TakenFacts ==
  ASSUME ~MayOverrun, BaseInv, [Next]_vars, NEW cb \in Callbacks, Taken(cb)
  PROVE  /\ IsNext(cb) /\ cb \in candidates
         /\ \A d \in candidates : d \in Callbacks /\ Waiting(d)
<1>1. counter[cb] \in Nat /\ counter' # counter /\ TypeOK /\ RoundInv
  BY DEF Taken, TypeOK, BaseInv
<1>2. PICK b \in Callbacks : Dispatch(b) \/ DispatchExpired(b)
  BY <1>1 DEF Next, vars, queueVars, CallTimer, TakeMessage, Finish, Unschedule,
              NodeExpires, Tick, Collect, Wait
<1>3. Choose(b) /\ counter' = [counter EXCEPT ![b] = @ + 1]
  BY <1>2, DispatchFacts, DispatchExpiredFacts
<1>4. cb = b
  BY <1>1, <1>3 DEF Taken, TypeOK
<1>5. IsNext(cb) /\ cb \in candidates /\ round = "choosing"
  BY <1>3, <1>4 DEF Choose, IsNext
<1>6. ASSUME NEW d \in candidates PROVE d \in Callbacks /\ Waiting(d)
  <2>1. d \in Callbacks /\ Ready(d) /\ GroupFree(d)
    BY <1>1, <1>5 DEF TypeOK, RoundInv, ChoiceIsFresh
  <2> QED BY <2>1 DEF Waiting, GroupFree, Busy
<1> QED BY <1>5, <1>6

\* Where a callback that waits is in its chain, and what it is to run for.
LEMMA CandidateFacts ==
  ASSUME AgedInv, NEW cb \in Callbacks, Waiting(cb)
  PROVE  /\ Pending(cb) \in Holds[cb] /\ Pending(cb) \in Nat
         /\ cb[1] \in Chains /\ cb[2] \in 1..Length[cb[1]]
         /\ cb = At(cb[1], cb[2])
         /\ cb[2] # 1 => cb = <<cb[1], cb[2]>> /\ cb \in Subscriptions
         /\ Done[cb] = counter[cb]
         /\ cb \in Subscriptions => Given[cb] = counter[cb] + 1
<1>1. TypeOK /\ cb \in Callbacks /\ phase[cb] = "idle" /\ Ready(cb)
  BY DEF AgedInv, OrderedInv, BaseInv, Waiting
<1>2. CASE cb \in Timers
  <2>1. /\ cb = <<cb[1], 1>> /\ cb[1] \in Chains /\ HasTimer(cb[1])
        /\ cb \notin Subscriptions
    BY <1>1, <1>2, CallbackFacts DEF Ready
  <2>2. cb = Trigger(cb[1]) /\ cb[2] = 1
    BY <2>1 DEF Trigger, HasTimer
  <2>3. cb[2] \in 1..Length[cb[1]]
    BY <1>1, <2>1, <2>2, PlaceFacts
  <2>4. Pending(cb) = nextCall[cb[1]] /\ Pending(cb) \in Holds[cb]
    BY <1>1, <1>2 DEF Pending, Holds
  <2> QED BY <1>1, <2>1, <2>2, <2>3, <2>4, HoldsType
          DEF Waiting, At, Done
<1>3. CASE cb \notin Timers
  <2>1. /\ cb \in Subscriptions /\ cb = <<cb[1], cb[2]>> /\ cb[1] \in Chains
        /\ cb[2] \in 2..Length[cb[1]] /\ mailbox[cb] # NoMessage
    BY <1>1, <1>3, CallbackFacts DEF Ready, Callbacks
  <2>2. cb[2] # 1 /\ cb[2] \in 1..Length[cb[1]]
    BY <1>1, <2>1, PlaceFacts
  <2>3. cb = At(cb[1], cb[2])
    BY <2>1, <2>2 DEF At
  <2>4. Pending(cb) = mailbox[cb] /\ Pending(cb) \in Holds[cb]
    BY <1>1, <1>3, <2>1 DEF Pending, Holds
  <2> QED BY <1>1, <2>1, <2>2, <2>3, <2>4, HoldsType
          DEF Waiting, Done, Given
<1> QED BY <1>2, <1>3

\* Of two callbacks of a chain that look at the same queue the one of the older
\* instance goes first: callbacks further down the chain run for older
\* instances and have smaller counters (priority_memory_strategy.hpp:227-232:
\* "settle the difference with the counter").
THEOREM OlderRunsFirst ==
  ASSUME ~MayOverrun
  PROVE  Spec => OlderInstanceFirst
<1>1. ASSUME AgedInv, [Next]_vars, NEW cb \in Callbacks, Taken(cb),
             NEW d \in candidates, d[1] = cb[1], curIndex[d] = curIndex[cb]
      PROVE  Pending(cb) <= Pending(d)
  <2> DEFINE c == cb[1]
  <2>1. /\ IsNext(cb) /\ cb \in candidates /\ Waiting(cb)
        /\ d \in Callbacks /\ Waiting(d)
    BY <1>1, TakenFacts DEF AgedInv, OrderedInv
  <2>2. SeenDeadline(cb) > 0 /\ SeenDeadline(d) = SeenDeadline(cb)
    BY <1>1, <2>1, CandidateFacts, ReadyFacts DEF AgedInv, SeenDeadline
  <2>3. ~(counter[cb] > counter[d])
    <3> SUFFICES ASSUME counter[cb] > counter[d] PROVE FALSE
      OBVIOUS
    <3>1. RunsAfter(cb, d)
      BY <2>2 DEF RunsAfter
    <3>2. RunsAfter(d, cb)
      BY <1>1, <2>1, <3>1 DEF IsNext
    <3>3. /\ counter[cb] \in Nat /\ counter[d] \in Nat
          /\ SeenDeadline(cb) \in Nat /\ SeenDeadline(cb) # 0
      <4>1. TypeOK /\ d \in Callbacks
        BY <1>1, <2>1 DEF AgedInv, OrderedInv, BaseInv
      <4>2. SeenDeadline(cb) \in Nat
        BY <4>1, SeenType
      <4> QED BY <2>2, <4>1, <4>2 DEF TypeOK
    <3>4. counter[d] > counter[cb]
      BY <2>2, <3>2, <3>3 DEF RunsAfter
    <3> QED BY <3>3, <3>4
  <2>4. /\ cb = At(c, cb[2]) /\ d = At(c, d[2]) /\ c \in Chains
        /\ cb[2] \in 1..Length[c] /\ d[2] \in 1..Length[c]
        /\ Pending(cb) \in Holds[cb] /\ Pending(d) \in Holds[d]
        /\ Pending(cb) \in Nat /\ Pending(d) \in Nat
    BY <1>1, <2>1, CandidateFacts
  <2>5. CASE cb[2] = d[2]
    BY <2>4, <2>5
  <2>6. CASE d[2] < cb[2]
    <3>1. cb[2] # 1 /\ cb = <<c, cb[2]>>
      BY <2>1, <2>4, <2>6, <1>1, CandidateFacts
    <3> QED BY <1>1, <2>4, <2>6, <3>1 DEF AgedInv, AgeInv
  <2>7. CASE cb[2] < d[2]
    <3>1. d[2] # 1 /\ d = <<c, d[2]>> /\ d \in Subscriptions
      BY <1>1, <2>1, <2>4, <2>7, CandidateFacts
    <3>2. Given[d] <= Done[cb]
      BY <1>1, <2>4, <2>7, <3>1 DEF AgedInv, OrderedInv, OrderInv
    <3>3. Given[d] = counter[d] + 1 /\ Done[cb] = counter[cb]
      BY <1>1, <2>1, <3>1, CandidateFacts
    <3>4. counter[cb] \in Nat /\ counter[d] \in Nat
      BY <1>1, <3>1, CallbackFacts DEF AgedInv, OrderedInv, BaseInv, TypeOK
    <3> QED BY <2>3, <3>2, <3>3, <3>4
  <2>8. cb[2] \in Int /\ d[2] \in Int
    BY <1>1, <2>4, PlaceFacts DEF AgedInv, OrderedInv, BaseInv
  <2> QED BY <2>5, <2>6, <2>7, <2>8
<1>2. AgedInv /\ [Next]_vars =>
        [\A cb \in Callbacks : Taken(cb) =>
           \A d \in candidates : d[1] = cb[1] /\ curIndex[d] = curIndex[cb]
             => Pending(cb) <= Pending(d)]_vars
  BY <1>1
<1> QED BY <1>2, AgedInvariant, PTL DEF Spec, OlderInstanceFirst

-----------------------------------------------------------------------------
(***************************************************************************)
(* While deadlines are met and nothing is lost.                            *)-----------------------------------------------------------------------------
(***************************************************************************)
(* While the chains are on time and nothing is lost.                       *)
(***************************************************************************)
LEMMA StillCalm ==
  ASSUME TypeOK, Undisturbed', late' = late, NEW S \in SUBSET Callbacks,
         lost' = [c \in Chains |-> lost[c] + OfChain(c, S)]
  PROVE  Undisturbed /\ S = {}
<1>1. ASSUME NEW c \in Chains PROVE lost[c] = 0 /\ OfChain(c, S) = 0
  <2>1. lost'[c] = lost[c] + OfChain(c, S) /\ lost'[c] = 0
    BY DEF Undisturbed
  <2>2. lost[c] \in Nat /\ OfChain(c, S) \in Nat
    BY OfChainFacts DEF TypeOK
  <2> QED BY <2>1, <2>2
<1>2. ASSUME NEW s \in S PROVE FALSE
  <2>1. s[1] \in Chains
    BY CallbackFacts
  <2> QED BY <1>1, <2>1, OfChainFacts
<1> QED BY <1>1, <1>2 DEF Undisturbed

\* A callback that expires as it is chosen is the last of its chain, and the
\* only one of its node with a message.
LEMMA CalmExpiry ==
  ASSUME BaseInv, Undisturbed', NEW cb \in Callbacks, DispatchExpired(cb)
  PROVE  /\ Undisturbed
         /\ cb \in Subscriptions /\ IsLast(cb)
         /\ \A s \in Subscriptions : s # cb => mailbox'[s] = mailbox[s]
<1> DEFINE g == GroupOf[cb]
           popped == {l \in Waiters(g) : l = cb /\ IsLast(l)}
           pushed == IF cb \in Timers THEN {<<c, 1>> : c \in Fed(cb[1])} ELSE {}
           S == (Waiters(g) \ popped) \union pushed
<1>0. TypeOK
  BY DEF BaseInv
<1>1. /\ late' = late /\ Ready(cb)
      /\ lost' = [c \in Chains |-> lost[c] + OfChain(c, S)]
      /\ mailbox' = [s \in Subscriptions |->
           IF s \in Waiters(g) THEN NoMessage ELSE mailbox[s]]
  BY DispatchExpiredFacts DEF DispatchExpired, Expire
<1>2. S \in SUBSET Callbacks
  BY CallbackFacts DEF Waiters, Fed
<1> HIDE DEF S
<1>3. Undisturbed /\ S = {}
  BY <1>0, <1>1, <1>2, StillCalm
<1>4. cb \notin Timers
  <2> SUFFICES ASSUME cb \in Timers PROVE FALSE
    OBVIOUS
  <2>1. cb[1] \in Chains /\ HasTimer(cb[1])
    BY <1>1, CallbackFacts DEF Ready
  <2>2. cb[1] \in Fed(cb[1])
    BY <2>1 DEF Fed, HasTimer
  <2> QED BY <1>3, <2>2 DEF S
<1>5. cb \in Subscriptions /\ mailbox[cb] # NoMessage
  BY <1>1, <1>4 DEF Callbacks, Ready
<1>6. cb \in Waiters(g) /\ \A s \in Waiters(g) : s = cb /\ IsLast(s)
  BY <1>3, <1>5 DEF S, Waiters
<1> QED BY <1>1, <1>3, <1>5, <1>6

\* Every message that is sent arrives at an empty topic.
LEMMA CalmFinish ==
  ASSUME TypeOK, HeldInv, Undisturbed', NEW cb \in Callbacks, Finish(cb)
  PROVE  /\ Undisturbed
         /\ \A s \in Subscriptions :
              IF s \in Subscribers(cb)
              THEN /\ mailbox[s] = NoMessage /\ phase[s] # "taken"
                   /\ mailbox'[s] = instance[cb] /\ instance[cb] # NoMessage
              ELSE mailbox'[s] = mailbox[s]
<1>1. /\ late' = late /\ phase[cb] = "running"
      /\ lost' = [c \in Chains |-> lost[c] + OfChain(c, Undelivered(cb))]
      /\ mailbox' = Published(cb)
  BY DEF Finish
<1>2. Undelivered(cb) \in SUBSET Callbacks
  BY CallbackFacts DEF Undelivered, Overwrites, Subscribers
<1>3. Undisturbed /\ Undelivered(cb) = {}
  BY <1>1, <1>2, StillCalm
<1>4. \A s \in Subscribers(cb) : mailbox[s] = NoMessage /\ Alive(s)
  BY <1>3 DEF Undelivered, Overwrites
<1> QED BY <1>1, <1>3, <1>4 DEF Published, HeldInv

\* A node that expires takes no message with it.
LEMMA CalmNode ==
  ASSUME TypeOK, Undisturbed', NEW g \in Groups, NodeExpires(g)
  PROVE  Undisturbed /\ mailbox' = mailbox
<1>1. Waiters(g) \in SUBSET Callbacks
  BY CallbackFacts DEF Waiters
<1>2. Undisturbed /\ Waiters(g) = {}
  BY <1>1, StillCalm DEF NodeExpires
<1>3. mailbox' = [s \in Subscriptions |-> mailbox[s]]
  BY <1>2 DEF NodeExpires, Expire
<1> QED BY <1>2, <1>3 DEF TypeOK

LEMMA CalmBefore ==
  ASSUME ~MayOverrun, BaseInv, [Next]_vars, Undisturbed'
  PROVE  Undisturbed
<1>1. CASE UNCHANGED <<lost, late>>
  BY <1>1 DEF Undisturbed
<1>2. CASE Tick
  BY <1>2 DEF Tick, Undisturbed
<1>3. ASSUME NEW g \in Groups, NodeExpires(g) PROVE Undisturbed
  BY <1>3, CalmNode DEF BaseInv
<1>4. TypeOK /\ HeldInv
  BY DEF BaseInv
<1> QED BY <1>1, <1>2, <1>3, <1>4, CalmExpiry, CalmFinish
        DEF Next, vars, history, Dispatch, CallTimer, TakeMessage, Unschedule,
            Collect, Wait

-----------------------------------------------------------------------------
(***************************************************************************)
(* Then the instances of a chain are counted by its callbacks alike.       *)
(***************************************************************************)
\* Every run of a callback gives its successor a message.
ExactInv ==
  Undisturbed => \A c \in Chains : \A k \in 2..Length[c] :
    Given[<<c, k>>] = Done[At(c, k - 1)]

\* The instances a callback has at hand, with their numbers, but for those a
\* timer has not been chosen for.
Numbered == [cb \in Callbacks |->
  {p \in Int \X Nat :
     \/ phase[cb] = "running" /\ p = <<counter[cb] - 1, instance[cb]>>
     \/ /\ cb \in Subscriptions /\ mailbox[cb] # NoMessage
        /\ p = <<Given[cb] - 1, mailbox[cb]>>
     \/ /\ cb \in Timers /\ phase[cb] = "taken"
        /\ p = <<counter[cb] - 1, nextCall[cb[1]]>>}]

\* Who is fed by whom.
LEMMA SuccessorFacts ==
  ASSUME TypeOK, HeldInv, NEW cb \in Callbacks, phase[cb] # "idle",
         NEW c \in Chains, NEW k \in 2..Length[c]
  PROVE  <<c, k>> \in Subscribers(cb) <=> cb = At(c, k - 1)
<1>1. ASSUME cb = At(c, k - 1) PROVE <<c, k>> \in Subscribers(cb)
  <2>1. k \in Nat /\ <<c, k>> \in Subscriptions
    BY PlaceFacts
  <2>2. CASE k = 2
    <3>1. cb = Trigger(c) /\ cb \in Timers /\ cb[2] = 1 /\ cb[1] = Triggered(c)
      BY <1>1, <2>2, PlaceFacts DEF At, Trigger
    <3> QED BY <2>1, <2>2, <3>1 DEF Subscribers, Fed
  <2>3. CASE k # 2
    <3>1. cb = <<c, k - 1>> /\ cb[1] = c /\ cb[2] = k - 1
      BY <1>1, <2>1, <2>3 DEF At
    <3> QED BY <2>1, <3>1 DEF Subscribers
  <2> QED BY <2>2, <2>3
<1> QED BY <1>1, PredecessorFacts

\* The last callback of a chain feeds nobody.
LEMMA FinalFacts ==
  ASSUME TypeOK, NEW cb \in Subscriptions, IsLast(cb),
         NEW c \in Chains, NEW k \in 2..Length[c]
  PROVE  cb # At(c, k - 1)
<1>1. /\ cb = <<cb[1], cb[2]>> /\ cb[2] = Length[cb[1]]
      /\ Trigger(c) \notin Subscriptions /\ k \in Nat /\ Length[c] \in Nat
      /\ k <= Length[c]
  BY CallbackFacts, PlaceFacts DEF IsLast
<1> QED BY <1>1 DEF At

LEMMA InitExact == Init => ExactInv
<1> SUFFICES ASSUME Init, NEW c \in Chains, NEW k \in 2..Length[c]
             PROVE  Given[<<c, k>>] = Done[At(c, k - 1)]
  BY DEF ExactInv
<1>1. TypeOK
  BY InitType
<1>2. /\ k - 1 \in 1..Length[c] /\ <<c, k>> \in Subscriptions
      /\ At(c, k - 1) \in Callbacks /\ <<c, k>> \in Callbacks
  BY <1>1, PlaceFacts
<1> QED BY <1>2 DEF Init, Given, Done

LEMMA ExactFrame ==
  ASSUME TypeOK, ExactInv, Undisturbed, isF1tenth' = isF1tenth,
         \A s \in Subscriptions : Given'[s] = Given[s],
         \A c \in Chains : \A k \in 2..Length[c] :
           Done'[At(c, k - 1)] = Done[At(c, k - 1)]
  PROVE  ExactInv'
<1> SUFFICES ASSUME NEW c \in Chains, NEW k \in 2..Length[c]
             PROVE  Given'[<<c, k>>] = Done'[At(c, k - 1)']
  BY DEF ExactInv
<1>1. At(c, k - 1)' = At(c, k - 1)
  BY DEF At, Trigger, Triggered
<1>2. Done'[At(c, k - 1)'] = Done'[At(c, k - 1)]
  BY <1>1
<1>3. <<c, k>> \in Subscriptions
  BY PlaceFacts
<1> QED BY <1>2, <1>3 DEF ExactInv

LEMMA FinishExact ==
  ASSUME TypeOK, TypeOK', HeldInv, ExactInv, Undisturbed',
         NEW cb \in Callbacks, Finish(cb)
  PROVE  ExactInv'
<1> SUFFICES ASSUME NEW c \in Chains, NEW k \in 2..Length[c]
             PROVE  Given'[<<c, k>>] = Done'[At(c, k - 1)']
  BY DEF ExactInv
<1> DEFINE s == <<c, k>>
           b == At(c, k - 1)
<1>1. /\ phase[cb] = "running" /\ phase' = [phase EXCEPT ![cb] = "idle"]
      /\ counter' = counter /\ isF1tenth' = isF1tenth
  BY DEF Finish, queueVars
<1>2. b' = b
  BY <1>1 DEF At, Trigger, Triggered
<1>3. Done'[At(c, k - 1)'] = Done'[b]
  BY <1>2
<1>4. /\ s \in Subscriptions /\ s \in Callbacks /\ b \in Callbacks
      /\ counter[s] \in Nat /\ counter[b] \in Nat
  BY PlaceFacts, CountType
<1>5. Given[s] = Done[b]
  BY CalmFinish DEF ExactInv
<1>6. s \in Subscribers(cb) <=> cb = b
  BY <1>1, SuccessorFacts
<1>7. IF s \in Subscribers(cb)
      THEN /\ mailbox[s] = NoMessage /\ phase[s] # "taken"
           /\ mailbox'[s] # NoMessage
      ELSE mailbox'[s] = mailbox[s]
  BY <1>4, CalmFinish
<1> HIDE DEF s, b
<1>8. \A x \in Callbacks : phase'[x] = IF x = cb THEN "idle" ELSE phase[x]
  BY <1>1 DEF TypeOK
<1>9. Done'[b] = IF b = cb THEN Done[b] + 1 ELSE Done[b]
  BY <1>1, <1>4, <1>8 DEF Done
<1>10. Given'[s] = IF s \in Subscribers(cb) THEN Given[s] + 1 ELSE Given[s]
  BY <1>1, <1>4, <1>7, <1>8 DEF Given
<1> QED BY <1>3, <1>5, <1>6, <1>9, <1>10 DEF s

LEMMA StepExact ==
  ASSUME ~MayOverrun, BaseInv, TypeOK', ExactInv, [Next]_vars
  PROVE  ExactInv'
<1> SUFFICES ASSUME Undisturbed' PROVE ExactInv'
  BY DEF ExactInv
<1>0. TypeOK /\ HeldInv
  BY DEF BaseInv
<1>1. Undisturbed
  BY CalmBefore
<1>2. /\ \A c \in Chains : \A k \in 2..Length[c] :
           /\ At(c, k - 1) \in Callbacks
           /\ <<c, k>> \in Subscriptions
      /\ \A b \in Callbacks : counter[b] \in Nat
      /\ Subscriptions \subseteq Callbacks
  <2>1. ASSUME NEW c \in Chains, NEW k \in 2..Length[c]
        PROVE  At(c, k - 1) \in Callbacks
    <3>1. k - 1 \in 1..Length[c]
      BY <1>0, PlaceFacts
    <3> QED BY <1>0, <3>1, PlaceFacts
  <2> QED BY <1>0, <2>1, PlaceFacts, CountType, CallbackFacts
<1>3. ASSUME UNCHANGED <<isF1tenth, counter, phase, mailbox>> PROVE ExactInv'
  <2>1. Given' = Given /\ Done' = Done
    BY <1>3 DEF Given, Done
  <2> QED BY <1>0, <1>1, <1>3, <2>1, ExactFrame
<1>4. ASSUME NEW cb \in Callbacks, Dispatch(cb) PROVE ExactInv'
  <2>1. /\ phase[cb] = "idle" /\ Ready(cb)
        /\ phase' = [phase EXCEPT ![cb] = "taken"]
        /\ counter' = [counter EXCEPT ![cb] = @ + 1]
        /\ isF1tenth' = isF1tenth /\ mailbox' = mailbox
    BY <1>4, DispatchFacts
  <2>2. \A b \in Callbacks :
          /\ phase'[b] = IF b = cb THEN "taken" ELSE phase[b]
          /\ counter'[b] = IF b = cb THEN counter[b] + 1 ELSE counter[b]
    BY <1>0, <2>1 DEF TypeOK
  <2>3. cb \in Subscriptions => mailbox[cb] # NoMessage
    BY <2>1, CallbackFacts DEF Ready
  <2>4. \A s \in Subscriptions : Given'[s] = Given[s]
    BY <1>2, <2>1, <2>2, <2>3 DEF Given
  <2>5. \A b \in Callbacks : Done'[b] = Done[b]
    BY <1>2, <2>1, <2>2 DEF Done
  <2> QED BY <1>0, <1>1, <1>2, <2>1, <2>4, <2>5, ExactFrame
<1>5. ASSUME NEW cb \in Callbacks, DispatchExpired(cb) PROVE ExactInv'
  <2>1. /\ phase[cb] = "idle" /\ phase' = phase
        /\ counter' = [counter EXCEPT ![cb] = @ + 1]
        /\ isF1tenth' = isF1tenth
        /\ cb \in Subscriptions /\ mailbox[cb] # NoMessage
        /\ mailbox'[cb] = NoMessage /\ IsLast(cb)
        /\ \A s \in Subscriptions : s # cb => mailbox'[s] = mailbox[s]
    BY <1>5, DispatchExpiredFacts, CalmExpiry
  <2>2. \A b \in Callbacks :
          counter'[b] = IF b = cb THEN counter[b] + 1 ELSE counter[b]
    BY <1>0, <2>1 DEF TypeOK
  <2>3. \A s \in Subscriptions : Given'[s] = Given[s]
    BY <1>2, <2>1, <2>2 DEF Given
  <2>4. \A b \in Callbacks : b # cb => Done'[b] = Done[b]
    BY <1>2, <2>1, <2>2 DEF Done
  <2>5. \A c \in Chains : \A k \in 2..Length[c] : At(c, k - 1) # cb
    BY <1>0, <2>1, FinalFacts
  <2> QED BY <1>0, <1>1, <1>2, <2>1, <2>3, <2>4, <2>5, ExactFrame
<1>6. ASSUME NEW cb \in Callbacks, CallTimer(cb) PROVE ExactInv'
  <2>1. /\ cb \notin Subscriptions /\ phase[cb] = "taken"
        /\ phase' = [phase EXCEPT ![cb] = "running"]
        /\ UNCHANGED <<isF1tenth, counter, mailbox>>
    BY <1>6, CallbackFacts DEF CallTimer, queueVars
  <2>2. \A b \in Callbacks :
          phase'[b] = IF b = cb THEN "running" ELSE phase[b]
    BY <1>0, <2>1 DEF TypeOK
  <2>3. \A s \in Subscriptions : Given'[s] = Given[s]
    BY <1>2, <2>1, <2>2 DEF Given
  <2>4. \A b \in Callbacks : Done'[b] = Done[b]
    BY <1>2, <2>1, <2>2 DEF Done
  <2> QED BY <1>0, <1>1, <1>2, <2>1, <2>3, <2>4, ExactFrame
<1>7. ASSUME NEW cb \in Callbacks, TakeMessage(cb) PROVE ExactInv'
  <2>1. /\ cb \in Subscriptions /\ phase[cb] = "taken"
        /\ phase' = [phase EXCEPT ![cb] = "running"]
        /\ mailbox' = [mailbox EXCEPT ![cb] = NoMessage]
        /\ UNCHANGED <<isF1tenth, counter>>
    BY <1>7 DEF TakeMessage, queueVars
  <2>2. /\ \A b \in Callbacks :
             phase'[b] = IF b = cb THEN "running" ELSE phase[b]
        /\ \A s \in Subscriptions :
             mailbox'[s] = IF s = cb THEN NoMessage ELSE mailbox[s]
    BY <1>0, <2>1 DEF TypeOK
  <2>3. \A s \in Subscriptions : Given'[s] = Given[s]
    BY <1>2, <2>1, <2>2 DEF Given
  <2>4. \A b \in Callbacks : Done'[b] = Done[b]
    BY <1>2, <2>1, <2>2 DEF Done
  <2> QED BY <1>0, <1>1, <1>2, <2>1, <2>3, <2>4, ExactFrame
<1>8. ASSUME NEW cb \in Callbacks, Finish(cb) PROVE ExactInv'
  BY <1>0, <1>8, FinishExact
<1>9. ASSUME NEW g \in Groups, NodeExpires(g) PROVE ExactInv'
  BY <1>0, <1>3, <1>9, CalmNode DEF NodeExpires, queueVars
<1>10. ASSUME NEW cb \in Callbacks, Unschedule(cb) PROVE ExactInv'
  BY <1>3, <1>10 DEF Unschedule, queueVars
<1>11. CASE Tick \/ Collect \/ Wait \/ UNCHANGED vars
  BY <1>3, <1>11 DEF Tick, Collect, Wait, vars, queueVars
<1> QED BY <1>4, <1>5, <1>6, <1>7, <1>8, <1>9, <1>10, <1>11 DEF Next

\* Where the instances a callback has at hand come from: it has had them
\* before, or it is a timer that was chosen, or they were published to it.
LEMMA StepNumbered ==
  ASSUME ~MayOverrun, BaseInv, TypeOK', ExactInv, [Next]_vars, Undisturbed', NEW b \in Callbacks, NEW p \in Numbered'[b]
  PROVE  \/ p \in Numbered[b]
         \/ b \in Timers /\ Dispatch(b) /\ p = <<counter[b], nextCall[b[1]]>>
         \/ \E cb \in Callbacks :
              Finish(cb) /\ b \in Subscribers(cb) /\ p \in Numbered[cb]
<1>0. /\ counter[b] \in Nat
      /\ b \notin Timers <=> b \in Subscriptions
      /\ p \in Int \X Nat /\ TypeOK /\ HeldInv
  BY CountType, CallbackFacts DEF Callbacks, Numbered, BaseInv
<1>1. ASSUME UNCHANGED <<counter, phase, mailbox, instance, nextCall>>
      PROVE  p \in Numbered[b]
  <2>1. Numbered' = Numbered
    BY <1>1 DEF Numbered, Given
  <2> QED BY <2>1
<1>2. ASSUME NEW cb \in Callbacks, Dispatch(cb)
      PROVE  \/ p \in Numbered[b]
             \/ b \in Timers /\ b = cb /\ p = <<counter[b], nextCall[b[1]]>>
  <2>1. /\ phase[cb] = "idle" /\ Ready(cb)
        /\ phase' = [phase EXCEPT ![cb] = "taken"]
        /\ counter' = [counter EXCEPT ![cb] = @ + 1]
        /\ UNCHANGED <<mailbox, instance, nextCall>>
    BY <1>2, DispatchFacts
  <2>2. /\ phase'[b] = IF b = cb THEN "taken" ELSE phase[b]
        /\ counter'[b] = IF b = cb THEN counter[b] + 1 ELSE counter[b]
    BY <1>0, <2>1 DEF TypeOK
  <2>3. b \in Subscriptions => (b = cb => mailbox[b] # NoMessage)
    BY <2>1, CallbackFacts DEF Ready
  <2>4. b \in Subscriptions => Given'[b] = Given[b]
    BY <1>0, <2>1, <2>2, <2>3 DEF Given
  <2>5. CASE b # cb
    BY <1>0, <2>1, <2>2, <2>4, <2>5 DEF Numbered
  <2>6. CASE b = cb
    <3>1. phase'[b] = "taken" /\ counter'[b] - 1 = counter[b]
      BY <1>0, <2>2, <2>6
    <3>2. CASE b \in Timers
      <4>1. p = <<counter'[b] - 1, nextCall[b[1]]>>
        BY <1>0, <2>1, <3>1, <3>2, CallbackFacts DEF Numbered
      <4> QED BY <2>6, <3>1, <3>2, <4>1
    <3>3. CASE b \in Subscriptions
      <4>1. p = <<Given[b] - 1, mailbox[b]>> /\ mailbox[b] # NoMessage
        BY <1>0, <2>1, <2>4, <3>1, <3>3 DEF Numbered
      <4> QED BY <1>0, <3>3, <4>1 DEF Numbered
    <3> QED BY <1>0, <3>2, <3>3
  <2> QED BY <2>5, <2>6
<1>3. ASSUME NEW cb \in Callbacks, DispatchExpired(cb) PROVE p \in Numbered[b]
  <2>1. /\ phase[cb] = "idle"
        /\ counter' = [counter EXCEPT ![cb] = @ + 1]
        /\ cb \in Subscriptions /\ mailbox'[cb] = NoMessage
        /\ \A s \in Subscriptions : s # cb => mailbox'[s] = mailbox[s]
        /\ UNCHANGED <<phase, instance, nextCall>>
    BY <1>3, DispatchExpiredFacts, CalmExpiry
  <2>2. counter'[b] = IF b = cb THEN counter[b] + 1 ELSE counter[b]
    BY <1>0, <2>1 DEF TypeOK
  <2>3. b \in Subscriptions /\ b # cb => Given'[b] = Given[b]
    BY <1>0, <2>1, <2>2 DEF Given
  <2> QED BY <1>0, <2>1, <2>2, <2>3 DEF Numbered
<1>4. ASSUME NEW cb \in Callbacks, CallTimer(cb) PROVE p \in Numbered[b]
  <2>1. /\ cb \in Timers /\ cb \notin Subscriptions /\ phase[cb] = "taken"
        /\ phase' = [phase EXCEPT ![cb] = "running"]
        /\ instance' = [instance EXCEPT ![cb] = nextCall[cb[1]]]
        /\ \A t \in Timers : t # cb => nextCall'[t[1]] = nextCall[t[1]]
        /\ UNCHANGED <<counter, mailbox>>
    <3> DEFINE n == NextCall(nextCall[cb[1]], now, Ticks(Period[cb[1]]))
    <3>1. nextCall' = [nextCall EXCEPT ![cb[1]] = n]
      BY <1>4 DEF CallTimer
    <3>2. cb \in Timers
      BY <1>4 DEF CallTimer
    <3> HIDE DEF n
    <3>3. \A t \in Timers : t # cb => nextCall'[t[1]] = nextCall[t[1]]
      <4> TAKE t \in Timers
      <4> HAVE t # cb
      <4>1. t[1] # cb[1] /\ t[1] \in Chains
        BY <3>2, CallbackFacts
      <4> QED BY <1>0, <3>1, <4>1 DEF TypeOK
    <3> QED BY <1>4, <3>2, <3>3, CallbackFacts DEF CallTimer, queueVars
  <2>2. /\ phase'[b] = IF b = cb THEN "running" ELSE phase[b]
        /\ instance'[b] = IF b = cb THEN nextCall[cb[1]] ELSE instance[b]
    BY <1>0, <2>1 DEF TypeOK
  <2>3. b \in Subscriptions => Given'[b] = Given[b]
    BY <1>0, <2>1, <2>2 DEF Given
  <2> QED BY <1>0, <2>1, <2>2, <2>3 DEF Numbered
<1>5. ASSUME NEW cb \in Callbacks, TakeMessage(cb) PROVE p \in Numbered[b]
  <2>1. /\ cb \in Subscriptions /\ phase[cb] = "taken"
        /\ phase' = [phase EXCEPT ![cb] = "running"]
        /\ instance' = [instance EXCEPT ![cb] = mailbox[cb]]
        /\ mailbox' = [mailbox EXCEPT ![cb] = NoMessage]
        /\ UNCHANGED <<counter, nextCall>>
    BY <1>5 DEF TakeMessage, queueVars, timerVars
  <2>2. /\ phase'[b] = IF b = cb THEN "running" ELSE phase[b]
        /\ instance'[b] = IF b = cb THEN mailbox[cb] ELSE instance[b]
        /\ b \in Subscriptions =>
             mailbox'[b] = IF b = cb THEN NoMessage ELSE mailbox[b]
    BY <1>0, <2>1 DEF TypeOK
  <2>3. /\ mailbox[cb] # NoMessage
        /\ b \in Subscriptions => Given'[b] = Given[b]
        /\ Given[cb] = counter[cb]
    BY <1>0, <2>1, <2>2 DEF Given, HeldInv
  <2> QED BY <1>0, <2>1, <2>2, <2>3 DEF Numbered
<1>6. ASSUME NEW cb \in Callbacks, Finish(cb)
      PROVE  \/ p \in Numbered[b]
             \/ b \in Subscribers(cb) /\ p \in Numbered[cb]
  <2>1. /\ phase[cb] = "running" /\ phase' = [phase EXCEPT ![cb] = "idle"]
        /\ instance' = [instance EXCEPT ![cb] = NoMessage]
        /\ UNCHANGED <<counter, nextCall>>
    BY <1>6 DEF Finish, queueVars, timerVars
  <2>2. /\ phase'[b] = IF b = cb THEN "idle" ELSE phase[b]
        /\ b # cb => instance'[b] = instance[b]
    BY <1>0, <2>1 DEF TypeOK
  <2>3. CASE b \in Subscribers(cb)
    <3>1. /\ b \in Subscriptions /\ mailbox[b] = NoMessage
          /\ phase[b] # "taken" /\ mailbox'[b] = instance[cb]
          /\ instance[cb] # NoMessage
      BY <1>0, <1>6, <2>3, CalmFinish DEF Subscribers
    <3>2. Given[b] = counter[b] /\ Given'[b] = counter[b] + 1
      BY <2>1, <2>2, <3>1 DEF Given
    <3>3. Given[b] = counter[cb] - 1
      <4>1. /\ b = <<b[1], b[2]>> /\ b[1] \in Chains
            /\ b[2] \in 2..Length[b[1]]
        BY <3>1, CallbackFacts
      <4>2. cb = At(b[1], b[2] - 1)
        BY <1>0, <2>1, <2>3, <4>1, SuccessorFacts
      <4>3. Given[b] = Done[cb]
        BY <1>0, <1>6, <4>1, <4>2, CalmFinish DEF ExactInv
      <4> QED BY <2>1, <4>3 DEF Done
    <3>4. <<counter[cb] - 1, instance[cb]>> \in Numbered[cb]
      <4>1. counter[cb] - 1 \in Int /\ instance[cb] \in Nat
        BY <1>0, CountType DEF TypeOK
      <4> QED BY <2>1, <4>1 DEF Numbered
    <3>5. \/ phase[b] = "running" /\ p = <<counter[b] - 1, instance[b]>>
          \/ p = <<counter[b], instance[cb]>>
      BY <1>0, <2>1, <2>2, <2>3, <3>1, <3>2, CallbackFacts DEF Numbered
    <3> QED BY <1>0, <2>3, <3>2, <3>3, <3>4, <3>5 DEF Numbered
  <2>4. CASE b \notin Subscribers(cb)
    <3>1. b \in Subscriptions => mailbox'[b] = mailbox[b]
      BY <1>0, <1>6, <2>4, CalmFinish
    <3>2. b \in Subscriptions => Given'[b] = Given[b]
      BY <1>0, <2>1, <2>2, <3>1 DEF Given
    <3> QED BY <1>0, <2>1, <2>2, <3>1, <3>2 DEF Numbered
  <2> QED BY <2>3, <2>4
<1>7. ASSUME NEW g \in Groups, NodeExpires(g) PROVE p \in Numbered[b]
  BY <1>0, <1>1, <1>7, CalmNode DEF NodeExpires, queueVars, timerVars
<1>8. ASSUME NEW cb \in Callbacks, Unschedule(cb) PROVE p \in Numbered[b]
  BY <1>1, <1>8 DEF Unschedule, queueVars, timerVars
<1>9. CASE Tick \/ Collect \/ Wait \/ UNCHANGED vars
  BY <1>1, <1>9 DEF Tick, Collect, Wait, vars, queueVars, timerVars
<1> QED BY <1>2, <1>3, <1>4, <1>5, <1>6, <1>7, <1>8, <1>9 DEF Next

-----------------------------------------------------------------------------
(***************************************************************************)
(* A timer and its record.                                                 *)
(***************************************************************************)
\* The instance that a timer is to be dispatched for next.
Due(t) ==
  IF phase[<<t, 1>>] = "taken" THEN nextCall[t] + Ticks(Period[t])
                               ELSE nextCall[t]

\* How far its record is off.
Offset(t) == Due(t) - Ticks(releaseTime[t])

NotOverdue(t) ==
  /\ now < nextCall[t] + Ticks(Deadline[t])
  /\ now <= nextCall[t] + Ticks(Period[t])
  /\ IF phase[<<t, 1>>] = "taken"
     THEN Millis(now, TicksPerMs) <= releaseTime[t]
     ELSE Millis(now, TicksPerMs) <= releaseTime[t] + Period[t]

TimerInv ==
  Undisturbed => \A t \in Chains : HasTimer(t) =>
    /\ Offset(t) \in -Late .. Early
    /\ Alive(<<t, 1>>) => NotOverdue(t)

\* What being on time means for a timer.
LEMMA OnTimeFacts ==
  ASSUME TypeOK, AgeInv, NEW t \in Chains, HasTimer(t), Alive(<<t, 1>>),
         NEW x \in Nat, x <= now + 1, OnTime(x)
  PROVE  /\ phase[<<t, 1>>] # "taken"
         /\ x < nextCall[t] + Ticks(Deadline[t])
         /\ x <= nextCall[t] + Ticks(Period[t])
         /\ Millis(x, TicksPerMs) <= releaseTime[t] + Period[t]
<1> DEFINE cb == <<t, 1>>
<1>1. /\ cb \in Timers /\ cb \in Callbacks /\ cb[1] = t
      /\ now \in Nat /\ nextCall[t] \in Nat /\ instance[cb] \in Nat
      /\ Ticks(Deadline[t]) \in Nat \ {0}
  BY CallbackFacts, ClockTypes, TicksFacts DEF TypeOK
<1>2. /\ phase[cb] # "taken" /\ x <= nextCall[t] + Ticks(Period[t])
      /\ Millis(x, TicksPerMs) <= releaseTime[t] + Period[t]
  BY <1>1 DEF OnTime
<1>3. RelativeDeadline(cb) = Deadline[t]
  BY <1>1 DEF RelativeDeadline, HasTimer
<1>4. phase[cb] # "idle" \/ Ready(cb) => x < DueBy(cb)
  BY <1>1 DEF OnTime
<1> HIDE DEF cb
<1>5. CASE phase[cb] = "running"
  <2>1. DueBy(cb) = instance[cb] + Ticks(Deadline[t])
    BY <1>3, <1>5 DEF DueBy, Pending
  <2>2. instance[cb] <= nextCall[t]
    BY <1>1, <1>5 DEF AgeInv, Holds
  <2>3. x < nextCall[t] + Ticks(Deadline[t])
    BY <1>1, <1>4, <1>5, <2>1, <2>2
  <2> QED BY <1>2, <2>3 DEF cb
<1>6. CASE phase[cb] # "running" /\ now >= nextCall[t]
  <2>1. Ready(cb)
    BY <1>1, <1>6 DEF Ready, cb
  <2>2. DueBy(cb) = nextCall[t] + Ticks(Deadline[t])
    BY <1>1, <1>3, <1>6 DEF DueBy, Pending
  <2> QED BY <1>2, <1>4, <2>1, <2>2 DEF cb
<1>7. CASE ~(now >= nextCall[t])
  <2>1. x < nextCall[t] + Ticks(Deadline[t])
    BY <1>1, <1>7
  <2> QED BY <1>2, <2>1 DEF cb
<1> QED BY <1>5, <1>6, <1>7

LEMMA InitTimer == Init => TimerInv
<1> SUFFICES ASSUME Init, Undisturbed, NEW t \in Chains, HasTimer(t)
             PROVE  /\ Offset(t) \in -Late .. Early
                    /\ Alive(<<t, 1>>) => NotOverdue(t)
  BY DEF TimerInv
<1>1. TypeOK /\ AgeInv
  BY InitType, InitAge
<1>2. PICK first \in [Chains -> Nat] : FirstDeadlines(first)
  BY InitFacts
<1>3. phase[<<t, 1>>] = "idle"
  BY CallbackFacts DEF Init
<1>4. Offset(t) \in -Late .. Early
  <2>1. LastFed(t) \in Fed(t) /\ releaseTime[t] = first[LastFed(t)]
    BY <1>2 DEF FirstDeadlines
  <2>2. PICK d \in Chains : d = LastFed(t) /\ Triggered(d) = t
    BY <2>1 DEF Fed
  <2>3. nextCall[Triggered(d)] - Ticks(first[d]) \in -Late .. Early
    BY <1>2 DEF FirstDeadlines
  <2>4. Due(t) = nextCall[t]
    BY <1>3 DEF Due
  <2> QED BY <2>1, <2>2, <2>3, <2>4 DEF Offset
<1>5. ASSUME Alive(<<t, 1>>) PROVE NotOverdue(t)
  <2>1. OnTime(now)
    BY DEF Init, Undisturbed
  <2>2. now \in Nat /\ now <= now + 1
    BY <1>1, ClockTypes
  <2> QED BY <1>1, <1>3, <1>5, <2>1, <2>2, OnTimeFacts DEF NotOverdue
<1> QED BY <1>4, <1>5

\* What the strategy does to the record of a timer that is on time.
LEMMA RecordOnTime ==
  ASSUME TypeOK, NEW t \in Chains, nextCall[t] <= now,
         Ticks(releaseTime[t]) < nextCall[t] + Ticks(Period[t]),
         Millis(now, TicksPerMs) <= releaseTime[t] + Period[t]
  PROVE  NextRelease(releaseTime[t], Millis(now, TicksPerMs), Period[t])
           = releaseTime[t] + Period[t]
<1> DEFINE K == TicksPerMs
           p == Period[t]
           x == releaseTime[t]
           n == nextCall[t]
           r == NextRelease(x, Millis(now, K), p)
<1>1. /\ p \in Nat \ {0} /\ K \in Nat \ {0} /\ now \in Nat /\ n \in Nat
      /\ x \in Int
  BY ClockTypes
<1>2. x * K < n + p * K /\ n <= now /\ Millis(now, K) <= x + p
  BY DEF Ticks
<1>3. r = NextRelease(x, Millis(now, K), p)
  OBVIOUS
<1> HIDE DEF K, p, x, n, r
<1>4. r = x + p
  BY <1>1, <1>2, <1>3, RecordAfterDispatch, Zenon
<1> QED BY <1>4 DEF K, p, x, n, r

\* A timer that is on time is moved on by one period, and so is its record.
LEMMA TimerMoves ==
  ASSUME ~MayOverrun, BaseInv, TypeOK', ReleaseInv, TimerInv, [Next]_vars,
         Undisturbed', NEW t \in Chains, HasTimer(t)
  PROVE  \/ /\ counter'[<<t, 1>>] = counter[<<t, 1>>]
            /\ Due(t)' = Due(t) /\ releaseTime'[t] = releaseTime[t]
         \/ /\ Dispatch(<<t, 1>>)
            /\ counter'[<<t, 1>>] = counter[<<t, 1>>] + 1
            /\ Due(t)' = Due(t) + Ticks(Period[t])
            /\ releaseTime'[t] = releaseTime[t] + Period[t]
<1> DEFINE b == <<t, 1>>
<1>1. /\ TypeOK /\ HeldInv /\ RoundInv
      /\ b \in Timers /\ b \in Callbacks /\ b \notin Subscriptions /\ b[1] = t
      /\ nextCall[t] \in Nat /\ now \in Nat /\ releaseTime[t] \in Nat
      /\ Period[t] \in Nat \ {0} /\ TicksPerMs \in Nat \ {0}
      /\ Ticks(Period[t]) \in Nat \ {0}
  BY CallbackFacts, ClockTypes DEF BaseInv
<1>2. Undisturbed
  BY CalmBefore
<1>3. ASSUME counter'[b] = counter[b], nextCall'[t] = nextCall[t],
             releaseTime'[t] = releaseTime[t],
             (phase'[b] = "taken") <=> (phase[b] = "taken")
      PROVE  /\ counter'[b] = counter[b]
             /\ Due(t)' = Due(t) /\ releaseTime'[t] = releaseTime[t]
  BY <1>3 DEF Due
<1>4. ASSUME Dispatch(b)
      PROVE  /\ counter'[b] = counter[b] + 1
             /\ Due(t)' = Due(t) + Ticks(Period[t])
             /\ releaseTime'[t] = releaseTime[t] + Period[t]
  <2>1. /\ Account(b) /\ phase[b] = "idle" /\ Ready(b) /\ Alive(b)
        /\ phase' = [phase EXCEPT ![b] = "taken"]
        /\ counter' = [counter EXCEPT ![b] = @ + 1]
        /\ nextCall' = nextCall
    BY <1>1, <1>4, DispatchFacts
  <2>2. /\ phase'[b] = "taken" /\ counter'[b] = counter[b] + 1
        /\ nextCall[t] <= now
    BY <1>1, <2>1 DEF TypeOK, Ready
  <2>3. Millis(now, TicksPerMs) <= releaseTime[t] + Period[t]
    BY <1>2, <2>1 DEF TimerInv, NotOverdue
  <2>4. Ticks(releaseTime[t]) < nextCall[t] + Ticks(Period[t])
    BY <2>1 DEF ReleaseInv, Ahead
  <2> DEFINE r == NextRelease(releaseTime[t], Millis(now, TicksPerMs), Period[t])
  <2>5. r = releaseTime[t] + Period[t]
    BY <1>1, <2>2, <2>3, <2>4, RecordOnTime
  <2>6. releaseTime'[t] = r
    <3>1. releaseTime' = [releaseTime EXCEPT ![t] = r]
      BY <1>1, <2>1 DEF Account, TakeTimer
    <3> HIDE DEF r
    <3> QED BY <1>1, <3>1 DEF TypeOK
  <2>7. Due(t)' = Due(t) + Ticks(Period[t])
    BY <2>1, <2>2 DEF Due
  <2> QED BY <2>2, <2>5, <2>6, <2>7
<1>5. ASSUME NEW cb \in Callbacks, cb # b, Dispatch(cb) \/ DispatchExpired(cb)
      PROVE  /\ counter'[b] = counter[b]
             /\ Due(t)' = Due(t) /\ releaseTime'[t] = releaseTime[t]
  <2>1. /\ Account(cb) /\ counter' = [counter EXCEPT ![cb] = @ + 1]
        /\ nextCall' = nextCall
        /\ phase' = phase \/ phase' = [phase EXCEPT ![cb] = "taken"]
    BY <1>1, <1>5, DispatchFacts, DispatchExpiredFacts
  <2>2. counter'[b] = counter[b] /\ phase'[b] = phase[b]
    BY <1>1, <1>5, <2>1 DEF TypeOK
  <2>3. releaseTime'[t] = releaseTime[t]
    <3>1. CASE cb \in Timers
      <4> DEFINE h == cb[1]
                 r == NextRelease(releaseTime[h], Millis(now, TicksPerMs), Period[h])
      <4>1. releaseTime' = [releaseTime EXCEPT ![h] = r]
        BY <2>1, <3>1 DEF Account, TakeTimer
      <4>2. h # t
        BY <1>5, <3>1, CallbackFacts
      <4> HIDE DEF r
      <4> QED BY <1>1, <4>1, <4>2 DEF TypeOK
    <3>2. CASE cb \notin Timers
      BY <2>1, <3>2 DEF Account, TakeSubscription
    <3> QED BY <3>1, <3>2
  <2> QED BY <1>3, <2>1, <2>2, <2>3
<1>6. ASSUME DispatchExpired(b) PROVE FALSE
  BY <1>1, <1>6, CalmExpiry
<1>7. ASSUME NEW cb \in Callbacks, CallTimer(cb)
      PROVE  /\ counter'[b] = counter[b]
             /\ Due(t)' = Due(t) /\ releaseTime'[t] = releaseTime[t]
  <2> DEFINE h == cb[1]
             n == NextCall(nextCall[h], now, Ticks(Period[h]))
  <2>1. /\ cb \in Timers /\ phase[cb] = "taken"
        /\ phase' = [phase EXCEPT ![cb] = "running"]
        /\ nextCall' = [nextCall EXCEPT ![h] = n]
        /\ UNCHANGED <<releaseTime, counter>>
    BY <1>7 DEF CallTimer, queueVars
  <2>2. CASE cb = b
    <3>1. Alive(b)
      BY <1>1, <2>1, <2>2 DEF HeldInv
    <3>2. now <= nextCall[t] + Ticks(Period[t])
      BY <1>2, <3>1 DEF TimerInv, NotOverdue
    <3>3. n = nextCall[t] + Ticks(Period[t])
      BY <1>1, <2>2, <3>2 DEF NextCall
    <3> HIDE DEF n
    <3>4. nextCall'[t] = n /\ phase'[b] = "running"
      BY <1>1, <2>1, <2>2 DEF TypeOK
    <3> QED BY <2>1, <2>2, <3>3, <3>4 DEF Due
  <2>3. CASE cb # b
    <3>1. h # t
      BY <2>1, <2>3, CallbackFacts
    <3> HIDE DEF n
    <3>2. nextCall'[t] = nextCall[t] /\ phase'[b] = phase[b]
      BY <1>1, <2>1, <2>3, <3>1 DEF TypeOK
    <3> QED BY <1>3, <2>1, <3>2
  <2> QED BY <2>2, <2>3
<1>8. ASSUME NEW cb \in Callbacks, TakeMessage(cb) \/ Finish(cb)
      PROVE  /\ counter'[b] = counter[b]
             /\ Due(t)' = Due(t) /\ releaseTime'[t] = releaseTime[t]
  <2>1. /\ UNCHANGED <<counter, nextCall, releaseTime>>
        /\ \/ cb # b /\ phase' = [phase EXCEPT ![cb] = "running"]
           \/ phase[cb] = "running" /\ phase' = [phase EXCEPT ![cb] = "idle"]
    BY <1>1, <1>8 DEF TakeMessage, Finish, timerVars, queueVars
  <2>2. (phase'[b] = "taken") <=> (phase[b] = "taken")
    BY <1>1, <2>1 DEF TypeOK
  <2> QED BY <1>3, <2>1, <2>2
<1>9. CASE UNCHANGED <<counter, nextCall, releaseTime, phase>>
  BY <1>3, <1>9
<1> HIDE DEF b
<1>10. CASE UNCHANGED vars
  BY <1>9, <1>10 DEF vars, timerVars, queueVars
<1>11. CASE Next
  <2>1. ASSUME NEW cb \in Callbacks, Dispatch(cb) \/ DispatchExpired(cb)
        PROVE  \/ /\ counter'[b] = counter[b]
                  /\ Due(t)' = Due(t) /\ releaseTime'[t] = releaseTime[t]
               \/ /\ Dispatch(b) /\ counter'[b] = counter[b] + 1
                  /\ Due(t)' = Due(t) + Ticks(Period[t])
                  /\ releaseTime'[t] = releaseTime[t] + Period[t]
    BY <1>4, <1>5, <1>6, <2>1
  <2>2. ASSUME NEW cb \in Callbacks, Unschedule(cb)
        PROVE  UNCHANGED <<counter, nextCall, releaseTime, phase>>
    BY <2>2 DEF Unschedule, timerVars, queueVars
  <2>3. ASSUME NEW g \in Groups, NodeExpires(g)
        PROVE  UNCHANGED <<counter, nextCall, releaseTime, phase>>
    BY <2>3 DEF NodeExpires, timerVars, queueVars
  <2>4. CASE Tick \/ Collect \/ Wait
    BY <1>9, <2>4 DEF Tick, Collect, Wait, timerVars, queueVars, b
  <2> QED BY <1>7, <1>8, <1>9, <1>11, <2>1, <2>2, <2>3, <2>4 DEF Next, b
<1> QED BY <1>10, <1>11 DEF b

\* Whatever else happens, a timer is on time as long as time does not pass.
LEMMA StepTimer ==
  ASSUME ~MayOverrun, BaseInv, TypeOK', ReleaseInv, AgeInv, TimerInv,
         [Next]_vars
  PROVE  TimerInv'
<1> SUFFICES ASSUME Undisturbed', NEW t \in Chains, HasTimer(t)'
             PROVE  /\ Offset(t)' \in -Late .. Early
                    /\ Alive(<<t, 1>>)' => NotOverdue(t)'
  BY DEF TimerInv, Late, Early
<1>1. /\ Undisturbed /\ TypeOK /\ HasTimer(t)
      /\ <<t, 1>> \in Timers /\ <<t, 1>> \in Callbacks
  <2>1. isF1tenth' = isF1tenth
    BY DEF Next, vars, Dispatch, DispatchExpired, CallTimer, TakeMessage,
           Finish, Unschedule, NodeExpires, Tick, Collect, Wait
  <2> QED BY <2>1, CalmBefore, CallbackFacts DEF BaseInv, HasTimer, Triggered
<1>2. /\ now \in Nat /\ nextCall[t] \in Nat /\ releaseTime[t] \in Nat
      /\ Period[t] \in Nat \ {0} /\ Ticks(Period[t]) \in Nat \ {0}
      /\ TicksPerMs \in Nat \ {0}
      /\ nextCall'[t] \in Nat /\ releaseTime'[t] \in Nat
      /\ Ticks(Deadline[t]) \in Nat
      /\ Millis(now, TicksPerMs) \in Int
      /\ Due(t) \in Nat
      /\ Ticks(releaseTime[t] + Period[t])
           = Ticks(releaseTime[t]) + Ticks(Period[t])
      /\ Ticks(releaseTime[t]) \in Nat
  <2>1. /\ now \in Nat /\ nextCall[t] \in Nat /\ releaseTime[t] \in Nat
        /\ Period[t] \in Nat \ {0} /\ Ticks(Period[t]) \in Nat \ {0}
        /\ TicksPerMs \in Nat \ {0}
    BY <1>1, ClockTypes
  <2>2. nextCall'[t] \in Nat /\ releaseTime'[t] \in Nat
    BY ClockTypes2
  <2>3. Millis(now, TicksPerMs) \in Int
    <3>1. now \in Int
      BY <2>1
    <3> QED BY <2>1, <3>1, MillisFacts
  <2>4. Due(t) \in Nat
    BY <2>1 DEF Due
  <2>5. /\ Ticks(releaseTime[t]) \in Nat /\ Ticks(Deadline[t]) \in Nat
        /\ Ticks(releaseTime[t] + Period[t])
             = Ticks(releaseTime[t]) + Ticks(Period[t])
    <3>1. releaseTime[t] \in Int /\ Period[t] \in Int
      BY <2>1
    <3> QED BY <2>1, <3>1, TicksFacts
  <2> QED BY <2>1, <2>2, <2>3, <2>4, <2>5
<1>3. \/ /\ counter'[<<t, 1>>] = counter[<<t, 1>>]
         /\ Due(t)' = Due(t) /\ releaseTime'[t] = releaseTime[t]
      \/ /\ Dispatch(<<t, 1>>)
         /\ Due(t)' = Due(t) + Ticks(Period[t])
         /\ releaseTime'[t] = releaseTime[t] + Period[t]
  BY <1>1, TimerMoves
<1>4. Offset(t)' \in -Late .. Early
  <2>1. Offset(t) \in -Late .. Early
    BY <1>1 DEF TimerInv
  <2>2. Offset(t)' = Offset(t)
    <3> DEFINE x == Due(t)
               y == Ticks(releaseTime[t])
               q == Ticks(Period[t])
    <3>1. Due(t)' - Ticks(releaseTime'[t]) = x - y
      <4>1. CASE Due(t)' = x /\ releaseTime'[t] = releaseTime[t]
        BY <4>1
      <4>2. CASE /\ Due(t)' = x + q
                 /\ releaseTime'[t] = releaseTime[t] + Period[t]
        <5>1. Ticks(releaseTime'[t]) = y + q
          BY <1>2, <4>2
        <5>2. x \in Nat /\ y \in Nat /\ q \in Nat
          BY <1>2
        <5> HIDE DEF x, y, q
        <5>3. (x + q) - (y + q) = x - y
          BY <5>2
        <5> QED BY <4>2, <5>1, <5>3
      <4> QED BY <1>3, <4>1, <4>2
    <3> QED BY <3>1 DEF Offset, Ticks
  <2> QED BY <2>1, <2>2
<1>5. ASSUME Alive(<<t, 1>>)' PROVE NotOverdue(t)'
  <2>1. Alive(<<t, 1>>)
    <3>1. gone \subseteq gone'
      BY DEF Next, vars, Dispatch, DispatchExpired, CallTimer, TakeMessage,
             Finish, Unschedule, NodeExpires, Expire, Tick, Collect, Wait
    <3> QED BY <1>5, <3>1 DEF Alive
  <2>2. NotOverdue(t)
    BY <1>1, <2>1 DEF TimerInv
  <2>3. CASE Tick
    <3>1. /\ OnTime(now') /\ now' = now + 1
          /\ UNCHANGED <<nextCall, releaseTime, phase>>
      BY <2>3 DEF Tick, Undisturbed, timerVars
    <3>2. PICK x \in Nat : x = now'
      BY <1>2, <3>1
    <3>3. OnTime(x) /\ x <= now + 1
      BY <1>2, <3>1, <3>2
    <3>4. /\ phase[<<t, 1>>] # "taken"
          /\ x < nextCall[t] + Ticks(Deadline[t])
          /\ x <= nextCall[t] + Ticks(Period[t])
          /\ Millis(x, TicksPerMs) <= releaseTime[t] + Period[t]
      BY <1>1, <2>1, <3>3, OnTimeFacts DEF BaseInv
    <3> QED BY <3>1, <3>2, <3>4 DEF NotOverdue, Ticks
  <2>4. CASE ~Tick
    <3>1. now' = now
      BY <2>4 DEF Next, vars, Dispatch, DispatchExpired, CallTimer, TakeMessage,
                  Finish, Unschedule, NodeExpires, Collect, Wait
    <3>2. Due(t)' = Due(t) \/ Due(t)' = Due(t) + Ticks(Period[t])
      BY <1>3
    <3>3. nextCall'[t] >= nextCall[t]
      <4>1. CASE \E cb \in Callbacks : CallTimer(cb)
        <5>1. PICK cb \in Callbacks : CallTimer(cb)
          BY <4>1
        <5> DEFINE n == NextCall(nextCall[cb[1]], now, Ticks(Period[cb[1]]))
        <5>2. cb[1] \in Chains /\ nextCall' = [nextCall EXCEPT ![cb[1]] = n]
          BY <5>1, CallbackFacts DEF CallTimer
        <5>3. n > nextCall[cb[1]]
          BY <1>1, <5>2, CallIsLater DEF CallLater
        <5> HIDE DEF n
        <5>4. nextCall'[t] = IF cb[1] = t THEN n ELSE nextCall[t]
          BY <1>1, <5>2 DEF TypeOK
        <5> QED BY <1>2, <5>3, <5>4
      <4>2. CASE ~\E cb \in Callbacks : CallTimer(cb)
        <5>1. nextCall' = nextCall
          BY <2>4, <4>2 DEF Next, vars, Dispatch, DispatchExpired, TakeMessage,
                  Finish, Unschedule, NodeExpires, Collect, Wait, timerVars
        <5> QED BY <1>2, <5>1
      <4> QED BY <4>1, <4>2
    <3>4. /\ now < nextCall'[t] + Ticks(Deadline[t])
          /\ now <= nextCall'[t] + Ticks(Period[t])
      BY <1>2, <2>2, <3>3 DEF NotOverdue
    <3>5. IF phase'[<<t, 1>>] = "taken"
          THEN Millis(now, TicksPerMs) <= releaseTime'[t]
          ELSE Millis(now, TicksPerMs) <= releaseTime'[t] + Period[t]
      <4>1. CASE Dispatch(<<t, 1>>)
        <5>1. phase[<<t, 1>>] = "idle" /\ phase' = [phase EXCEPT ![<<t, 1>>] = "taken"]
              /\ counter' = [counter EXCEPT ![<<t, 1>>] = @ + 1]
          BY <1>1, <4>1, DispatchFacts
        <5>2. phase'[<<t, 1>>] = "taken" /\ counter'[<<t, 1>>] # counter[<<t, 1>>]
          BY <1>1, <5>1 DEF TypeOK
        <5>3. releaseTime'[t] = releaseTime[t] + Period[t]
          BY <1>3, <5>2
        <5> QED BY <1>2, <2>2, <5>1, <5>2, <5>3 DEF NotOverdue
      <4>2. CASE ~Dispatch(<<t, 1>>)
        <5>1. releaseTime'[t] = releaseTime[t]
          BY <1>3, <4>2
        <5>2. phase'[<<t, 1>>] = "taken" => phase[<<t, 1>>] = "taken"
          <6>1. ASSUME NEW cb \in Callbacks, Dispatch(cb), cb # <<t, 1>>
                PROVE  phase'[<<t, 1>>] = phase[<<t, 1>>]
            <7>1. phase' = [phase EXCEPT ![cb] = "taken"]
              BY <6>1, DispatchFacts
            <7> QED BY <1>1, <6>1, <7>1 DEF TypeOK
          <6>2. ASSUME NEW cb \in Callbacks,
                       CallTimer(cb) \/ TakeMessage(cb) \/ Finish(cb)
                PROVE  phase'[<<t, 1>>] = "taken" => phase[<<t, 1>>] = "taken"
            <7>1. \/ phase' = [phase EXCEPT ![cb] = "running"]
                  \/ phase' = [phase EXCEPT ![cb] = "idle"]
              BY <6>2 DEF CallTimer, TakeMessage, Finish
            <7> QED BY <1>1, <7>1 DEF TypeOK
          <6>3. CASE phase' = phase
            BY <6>3
          <6> QED BY <2>4, <4>2, <6>1, <6>2, <6>3
                  DEF Next, vars, DispatchExpired, Unschedule, NodeExpires,
                      Collect, Wait
        <5> QED BY <1>2, <2>2, <5>1, <5>2 DEF NotOverdue
      <4> QED BY <4>1, <4>2
    <3> QED BY <3>1, <3>4, <3>5 DEF NotOverdue, Ticks
  <2> QED BY <2>3, <2>4
<1> QED BY <1>4, <1>5

-----------------------------------------------------------------------------
(***************************************************************************)
(* The instances of a chain are a period apart, and none is old.           *)
(***************************************************************************)
\* The instance with number i: that the timer is to be dispatched for next has
\* the number of its dispatches so far.
Instance(c, i) ==
  Due(Triggered(c))
    - (counter[Trigger(c)] - i) * Ticks(Period[Triggered(c)])

PacedInv ==
  Undisturbed => \A c \in Chains : \A k \in 1..Length[c] :
    \A p \in Numbered[At(c, k)] : p[2] = Instance(c, p[1])

FreshInv ==
  Undisturbed => \A cb \in Callbacks : \A p \in Numbered[cb] :
    p[2] <= now /\ now < p[2] + Ticks(Deadline[cb[1]])

LEMMA DueType ==
  ASSUME TypeOK, NEW c \in Chains
  PROVE  /\ Triggered(c) \in Chains /\ HasTimer(Triggered(c))
         /\ Due(Triggered(c)) \in Nat /\ counter[Trigger(c)] \in Nat
         /\ Ticks(Period[Triggered(c)]) \in Nat \ {0}
         /\ \A i \in Int : Instance(c, i) \in Int
         /\ Instance(c, counter[Trigger(c)]) = Due(Triggered(c))
<1>1. Triggered(c) \in Chains /\ HasTimer(Triggered(c))
  BY TriggeredFacts DEF TypeOK
<1>2. /\ counter[Trigger(c)] \in Nat
      /\ Ticks(Period[Triggered(c)]) \in Nat \ {0}
      /\ nextCall[Triggered(c)] \in Nat
  BY <1>1, PlaceFacts, ClockTypes DEF TypeOK
<1>3. Due(Triggered(c)) \in Nat
  BY <1>2 DEF Due
<1> DEFINE x == Due(Triggered(c))
           a == counter[Trigger(c)]
           q == Ticks(Period[Triggered(c)])
<1>4. x \in Nat /\ a \in Nat /\ q \in Nat
  BY <1>2, <1>3
<1> HIDE DEF x, a, q
<1>5. \A i \in Int : x - (a - i) * q \in Int
  BY <1>4
<1>6. x - (a - a) * q = x
  BY <1>4
<1> QED BY <1>1, <1>2, <1>3, <1>5, <1>6 DEF x, a, q, Instance

\* The instances of a chain stay what they are.
LEMMA InstancesStay ==
  ASSUME ~MayOverrun, BaseInv, TypeOK', ReleaseInv, TimerInv, [Next]_vars,
         Undisturbed', NEW c \in Chains, NEW i \in Int
  PROVE  Instance(c, i)' = Instance(c, i)
<1> DEFINE t == Triggered(c)
           x == Due(t)
           a == counter[<<t, 1>>]
           q == Ticks(Period[t])
<1>1. /\ t \in Chains /\ HasTimer(t) /\ x \in Nat /\ a \in Nat /\ q \in Nat
      /\ Trigger(c) = <<t, 1>>
  BY DueType DEF BaseInv, Trigger
<1>2. isF1tenth' = isF1tenth
  BY DEF Next, vars, Dispatch, DispatchExpired, CallTimer, TakeMessage,
         Finish, Unschedule, NodeExpires, Tick, Collect, Wait
<1>3. t' = t /\ Trigger(c)' = <<t, 1>>
  BY <1>2 DEF Triggered, Trigger
<1>4. PICK u \in Chains : u = t
  BY <1>1
<1>5. \/ counter'[<<u, 1>>] = a /\ Due(u)' = x
      \/ counter'[<<u, 1>>] = a + 1 /\ Due(u)' = x + q
  BY <1>1, <1>4, TimerMoves
<1>6. Due(t)' = Due(u)' /\ Ticks(Period[t])' = q
  BY <1>3, <1>4 DEF Ticks, Due
<1>7. Instance(c, i) = x - (a - i) * q
  BY <1>1 DEF Instance
<1>8. Instance(c, i)' = Due(u)' - (counter'[<<u, 1>>] - i) * q
  BY <1>3, <1>4, <1>6 DEF Instance
<1> HIDE DEF x, a, q
<1>9. x - (a - i) * q = (x + q) - ((a + 1) - i) * q
  <2> DEFINE y == (a - i) * q
  <2>1. ((a + 1) - i) * q = y + q /\ y \in Int
    BY <1>1
  <2> HIDE DEF y
  <2>2. x - y = (x + q) - (y + q)
    BY <1>1, <2>1
  <2> QED BY <2>1, <2>2 DEF y
<1> QED BY <1>5, <1>7, <1>8, <1>9

LEMMA InitPaced == Init => PacedInv /\ FreshInv
<1> SUFFICES ASSUME Init PROVE PacedInv /\ FreshInv
  OBVIOUS
<1>1. \A cb \in Callbacks : Numbered[cb] = {}
  BY DEF Init, Numbered
<1>2. \A c \in Chains : \A k \in 1..Length[c] : At(c, k) \in Callbacks
  BY InitType, PlaceFacts
<1> QED BY <1>1, <1>2 DEF PacedInv, FreshInv

LEMMA StepPaced ==
  ASSUME ~MayOverrun, BaseInv, TypeOK', ReleaseInv, ExactInv, TimerInv,
         PacedInv, [Next]_vars
  PROVE  PacedInv'
<1> SUFFICES ASSUME Undisturbed', NEW c \in Chains, NEW k \in 1..Length[c],
                    NEW p \in Numbered'[At(c, k)']
             PROVE  p[2] = Instance(c, p[1])'
  BY DEF PacedInv
<1> DEFINE b == At(c, k)
<1>1. isF1tenth' = isF1tenth
  BY DEF Next, vars, Dispatch, DispatchExpired, CallTimer, TakeMessage,
         Finish, Unschedule, NodeExpires, Tick, Collect, Wait
<1>2. b' = b
  BY <1>1 DEF At, Trigger, Triggered
<1>3. p \in Numbered'[b]
  BY <1>2
<1>4. b \in Callbacks /\ k \in Nat /\ TypeOK /\ HeldInv /\ Undisturbed
  BY PlaceFacts, CalmBefore DEF BaseInv
<1>5. p \in Int \X Nat
  BY <1>3, <1>4 DEF Numbered
<1>6. PICK i \in Int : i = p[1] /\ Instance(c, i)' = Instance(c, i)
  BY <1>5, InstancesStay
<1>7. Instance(c, p[1])' = Instance(c, p[1])
  <2>1. Instance(c, p[1])' = Instance(c, i)' /\ Instance(c, p[1]) = Instance(c, i)
    BY <1>6 DEF Instance
  <2> QED BY <1>6, <2>1
<1>8. ASSUME NEW j \in 1..Length[c], p \in Numbered[At(c, j)]
      PROVE  p[2] = Instance(c, p[1])
  BY <1>4, <1>8 DEF PacedInv
<1>9. CASE b \in Timers /\ Dispatch(b) /\ p = <<counter[b], nextCall[b[1]]>>
  <2>1. b = Trigger(c) /\ b = <<Triggered(c), 1>>
    <3>1. k # 1 => b \in Subscriptions
      BY <1>4, PlaceFacts DEF At
    <3>2. k = 1
      BY <1>9, <3>1, CallbackFacts
    <3> QED BY <3>2 DEF At, Trigger
  <2>2. phase[b] = "idle"
    BY <1>4, <1>9, DispatchFacts
  <2>3. Due(Triggered(c)) = nextCall[Triggered(c)]
    BY <2>1, <2>2 DEF Due
  <2>4. Instance(c, counter[Trigger(c)]) = Due(Triggered(c))
    BY <1>4, DueType
  <2>5. p[1] = counter[Trigger(c)] /\ p[2] = nextCall[Triggered(c)]
    BY <1>9, <2>1
  <2> QED BY <1>7, <2>3, <2>4, <2>5
<1>10. ASSUME NEW cb \in Callbacks, Finish(cb), b \in Subscribers(cb),
              p \in Numbered[cb]
       PROVE  p[2] = Instance(c, p[1])
  <2>1. k # 1 /\ b = <<c, k>>
    <3>1. b \in Subscriptions
      BY <1>10 DEF Subscribers
    <3>2. k = 1 => b \in Timers
      BY <1>4, PlaceFacts DEF At
    <3>3. k # 1
      BY <3>1, <3>2, CallbackFacts
    <3> QED BY <3>3 DEF At
  <2>2. k \in 2..Length[c] /\ k - 1 \in 1..Length[c] /\ phase[cb] # "idle"
    BY <1>4, <1>10, <2>1, PlaceFacts DEF Finish
  <2>3. cb = At(c, k - 1)
    BY <1>4, <1>10, <2>1, <2>2, SuccessorFacts
  <2> QED BY <1>8, <1>10, <2>2, <2>3
<1> HIDE DEF b
<1>11. p \in Numbered[b] => p[2] = Instance(c, p[1])
  BY <1>8 DEF b
<1> QED BY <1>3, <1>4, <1>7, <1>9, <1>10, <1>11, StepNumbered

LEMMA StepFresh ==
  ASSUME ~MayOverrun, BaseInv, TypeOK', AgeInv, ExactInv, FreshInv, TimerInv,
         [Next]_vars
  PROVE  FreshInv'
<1> SUFFICES ASSUME Undisturbed', NEW b \in Callbacks, NEW p \in Numbered'[b]
             PROVE  p[2] <= now' /\ now' < p[2] + Ticks(Deadline[b[1]])
  BY DEF FreshInv, Ticks
<1>1. Undisturbed /\ TypeOK /\ HeldInv
  BY CalmBefore DEF BaseInv
<1>2. /\ isF1tenth \in F1tenth
      /\ \A cb \in Callbacks :
           cb[1] \in Chains /\ RelativeDeadline(cb) = Deadline[cb[1]]
  BY <1>1, CallbackFacts, TriggeredFacts DEF RelativeDeadline, TypeOK
<1>3. CASE Tick
  <2>1. Numbered' = Numbered /\ now' = now + 1 /\ now \in Nat /\ OnTime(now')
    <3>1. /\ now' = now + 1 /\ OnTime(now')
          /\ UNCHANGED <<counter, phase, mailbox, instance, nextCall>>
      BY <1>3 DEF Tick, timerVars, queueVars, Undisturbed
    <3>2. now \in Nat
      BY <1>1, ChainAssumption DEF TypeOK
    <3> QED BY <3>1, <3>2 DEF Numbered, Given
  <2>2. p \in Numbered[b] /\ p[2] <= now /\ p[2] \in Nat
    BY <1>1, <2>1 DEF FreshInv, Numbered
  <2>3. now' < p[2] + Ticks(Deadline[b[1]])
    <3>1. CASE phase[b] = "running" /\ p[2] = instance[b]
      <4>1. DueBy(b) = p[2] + Ticks(Deadline[b[1]])
        BY <1>2, <3>1 DEF DueBy, Pending
      <4>2. now' < DueBy(b)
        BY <2>1, <3>1 DEF OnTime
      <4> QED BY <4>1, <4>2
    <3>2. CASE /\ b \in Subscriptions /\ mailbox[b] # NoMessage
               /\ p[2] = mailbox[b]
      <4>1. now' < mailbox[b] + Ticks(RelativeDeadline(b))
        BY <2>1, <3>2 DEF OnTime
      <4> QED BY <1>2, <3>2, <4>1
    <3>3. ~(b \in Timers /\ phase[b] = "taken")
      <4> SUFFICES ASSUME b \in Timers, phase[b] = "taken" PROVE FALSE
        OBVIOUS
      <4>1. b = <<b[1], 1>> /\ b[1] \in Chains
        BY CallbackFacts
      <4>2. HasTimer(b[1]) /\ Alive(b)
        BY <1>1, <4>1 DEF HeldInv
      <4> QED BY <2>1, <4>2 DEF OnTime
    <3> QED BY <2>2, <3>1, <3>2, <3>3 DEF Numbered
  <2>4. p[2] <= now'
    BY <2>1, <2>2
  <2> QED BY <2>3, <2>4
<1>4. CASE now' = now
  <2>1. CASE p \in Numbered[b]
    BY <1>1, <1>4, <2>1 DEF FreshInv
  <2>2. CASE b \in Timers /\ Dispatch(b) /\ p = <<counter[b], nextCall[b[1]]>>
    <3>1. Ready(b) /\ Alive(b) /\ b = <<b[1], 1>> /\ b[1] \in Chains
      BY <2>2, DispatchFacts, CallbackFacts
    <3>2. HasTimer(b[1]) /\ now >= nextCall[b[1]]
      BY <2>2, <3>1 DEF Ready
    <3>3. now < nextCall[b[1]] + Ticks(Deadline[b[1]])
      BY <1>1, <3>1, <3>2 DEF TimerInv, NotOverdue
    <3>4. now \in Nat /\ nextCall[b[1]] \in Nat
      BY <1>1, <3>1, ClockTypes
    <3> QED BY <1>4, <2>2, <3>2, <3>3, <3>4
  <2>3. ASSUME NEW cb \in Callbacks, Finish(cb), b \in Subscribers(cb),
               p \in Numbered[cb]
        PROVE  p[2] <= now' /\ now' < p[2] + Ticks(Deadline[b[1]])
    <3>1. p[2] <= now /\ now < p[2] + Ticks(Deadline[cb[1]])
      BY <1>1, <2>3 DEF FreshInv
    <3>2. b[1] = cb[1] \/ b[1] \in Fed(cb[1])
      BY <2>3 DEF Subscribers
    <3>3. Deadline[cb[1]] = Deadline[b[1]]
      BY <1>2, <3>2, TriggeredFacts DEF Fed
    <3> QED BY <1>4, <3>1, <3>3
  <2> QED BY <2>1, <2>2, <2>3, StepNumbered
<1>5. now' = now \/ Tick
  BY DEF Next, vars, Dispatch, DispatchExpired, CallTimer, TakeMessage, Finish,
         Unschedule, NodeExpires, Collect, Wait
<1> QED BY <1>3, <1>4, <1>5

-----------------------------------------------------------------------------
(***************************************************************************)
(* The deadlines of a chain (Line) are as far off its instances as they    *)
(* were at the start.                                                      *)
(***************************************************************************)
Within(x) == x \in -Late .. Early

Tracks(c, e) ==
  \A i \in 0 .. counter[Trigger(c)] :
    Within((Instance(c, i) + Ticks(Deadline[c])) - Ticks(e[i]))

TrackInv ==
  \A c \in Chains : \E e \in [Int -> Nat] :
    Line(c, e) /\ (Undisturbed => Tracks(c, e))

LEMMA InitTrack == Init => TrackInv
<1> SUFFICES ASSUME Init, NEW c \in Chains
             PROVE  \E e \in [Int -> Nat] : Line(c, e) /\ Tracks(c, e)
  BY DEF TrackInv
<1>1. TypeOK
  BY InitType
<1>2. PICK first \in [Chains -> Nat] : FirstDeadlines(first)
  BY InitFacts
<1> DEFINE w == first[c] + Deadline[c]
           e == [i \in Int |-> w]
<1>3. w \in Nat /\ first[c] \in Nat /\ Deadline[c] \in Nat
  BY ChainAssumption
<1>4. e \in [Int -> Nat] /\ \A i \in Int : e[i] = first[c] + Deadline[c]
  BY <1>3
<1>5. Line(c, e)
  <2> HIDE DEF e, w
  <2> QED BY <1>2, <1>4, InitLine
<1>6. counter[Trigger(c)] = 0 /\ phase[Trigger(c)] = "idle"
  BY <1>1, PlaceFacts DEF Init
<1>7. Instance(c, 0) = nextCall[Triggered(c)]
  <2>1. Due(Triggered(c)) = nextCall[Triggered(c)]
    BY <1>6 DEF Due, Trigger
  <2> QED BY <1>1, <1>6, <2>1, DueType
<1>8. Within((Instance(c, 0) + Ticks(Deadline[c])) - Ticks(w))
  <2>0. first[c] \in Int /\ Deadline[c] \in Int
    BY <1>3
  <2>1. /\ Ticks(w) = Ticks(first[c]) + Ticks(Deadline[c])
        /\ Ticks(first[c]) \in Int /\ Ticks(Deadline[c]) \in Int
    BY <2>0, TicksFacts
  <2>2. nextCall[Triggered(c)] \in Int
    <3>1. Triggered(c) \in Chains
      BY <1>1, DueType
    <3>2. nextCall[Triggered(c)] \in Nat
      BY <1>1, <3>1, ClockTypes
    <3> QED BY <3>2
  <2>3. nextCall[Triggered(c)] - Ticks(first[c]) \in -Late .. Early
    BY <1>2 DEF FirstDeadlines
  <2> DEFINE x == nextCall[Triggered(c)]
             y == Ticks(first[c])
             z == Ticks(Deadline[c])
  <2> HIDE DEF x, y, z
  <2>4. (x + z) - (y + z) = x - y
    BY <2>1, <2>2 DEF x, y, z
  <2> QED BY <1>7, <2>1, <2>3, <2>4 DEF x, y, z, Within
<1>9. Tracks(c, e)
  <2> SUFFICES ASSUME NEW i \in 0 .. counter[Trigger(c)]
               PROVE  Within((Instance(c, i) + Ticks(Deadline[c])) - Ticks(e[i]))
    BY DEF Tracks
  <2>1. i = 0 /\ e[i] = w
    BY <1>6
  <2> HIDE DEF e, w
  <2> QED BY <1>8, <2>1
<1> HIDE DEF e
<1> QED BY <1>4, <1>5, <1>9

\* Whatever the step, the deadlines up to now stay, and one is added with every
\* dispatch of the timer.
LEMMA StepLine ==
  ASSUME ~MayOverrun, BaseInv, ReleaseInv, OrderInv, IndexInv, [Next]_vars,
         NEW c \in Chains, NEW e \in [Int -> Nat], Line(c, e)
  PROVE  \E d \in [Int -> Nat] :
           /\ Line(c, d)' /\ Continues(c, e, d)
           /\ \/ counter'[Trigger(c)] = counter[Trigger(c)]
              \/ /\ counter'[Trigger(c)] = counter[Trigger(c)] + 1
                 /\ d[counter[Trigger(c)] + 1]
                      = releaseTime'[Triggered(c)] + Deadline[c]
<1>1. ASSUME NEW cb \in Callbacks, Dispatch(cb) \/ DispatchExpired(cb)
      PROVE  \E d \in [Int -> Nat] :
           /\ Line(c, d)' /\ Continues(c, e, d)
           /\ \/ counter'[Trigger(c)] = counter[Trigger(c)]
              \/ /\ counter'[Trigger(c)] = counter[Trigger(c)] + 1
                 /\ d[counter[Trigger(c)] + 1]
                      = releaseTime'[Triggered(c)] + Deadline[c]
  <2>1. Choose(cb) /\ isF1tenth' = isF1tenth
    BY <1>1, DispatchFacts, DispatchExpiredFacts
  <2> QED BY <2>1, AccountLine
<1>2. CASE ~\E cb \in Callbacks : Dispatch(cb) \/ DispatchExpired(cb)
  <2>1. UNCHANGED <<isF1tenth, counter, deadlines>>
    BY <1>2
       DEF Next, vars, CallTimer, TakeMessage, Finish, Unschedule, NodeExpires,
           Tick, Collect, Wait, queueVars
  <2>2. Line(c, e)'
    BY <2>1, LineFrame
  <2> QED BY <2>1, <2>2 DEF Continues
<1> QED BY <1>1, <1>2

LEMMA StepTrack ==
  ASSUME ~MayOverrun, BaseInv, TypeOK', ReleaseInv, OrderInv, IndexInv,
         TimerInv, TimerInv', TrackInv, [Next]_vars
  PROVE  TrackInv'
<1> SUFFICES ASSUME NEW c \in Chains
             PROVE  \E e \in [Int -> Nat] :
                      Line(c, e)' /\ (Undisturbed' => Tracks(c, e)')
  BY DEF TrackInv
<1>1. PICK e \in [Int -> Nat] : Line(c, e) /\ (Undisturbed => Tracks(c, e))
  BY DEF TrackInv
<1>2. PICK d \in [Int -> Nat] :
        /\ Line(c, d)' /\ Continues(c, e, d)
        /\ \/ counter'[Trigger(c)] = counter[Trigger(c)]
           \/ /\ counter'[Trigger(c)] = counter[Trigger(c)] + 1
              /\ d[counter[Trigger(c)] + 1]
                   = releaseTime'[Triggered(c)] + Deadline[c]
  BY <1>1, StepLine
<1>3. isF1tenth' = isF1tenth
  BY DEF Next, vars, Dispatch, DispatchExpired, CallTimer, TakeMessage,
         Finish, Unschedule, NodeExpires, Tick, Collect, Wait
<1>4. ASSUME Undisturbed' PROVE Tracks(c, d)'
  <2>1. Tracks(c, e) /\ TypeOK
    BY <1>1, <1>4, CalmBefore DEF BaseInv
  <2>2. PICK t \in Chains : t = Triggered(c) /\ HasTimer(t)
    BY <2>1, DueType
  <2>3. PICK T \in Timers : T = <<t, 1>> /\ T = Trigger(c)
    BY <2>2, CallbackFacts DEF Trigger
  <2>4. t = Triggered(c)' /\ T = Trigger(c)' /\ HasTimer(t)'
    BY <1>3, <2>2, <2>3 DEF Trigger, Triggered, HasTimer
  <2>5. counter[T] \in Nat /\ counter'[T] \in Nat
    BY <2>1, <2>3, CallbackFacts DEF TypeOK
  <2> SUFFICES ASSUME NEW i \in 0 .. counter'[T]
               PROVE  Within((Instance(c, i)' + Ticks(Deadline[c])) - Ticks(d[i]))
    BY <2>4 DEF Tracks, Ticks, Within, Late, Early
  <2>6. CASE i <= counter[T]
    <3>1. i \in 0 .. counter[T] /\ i \in Int
      BY <2>5, <2>6
    <3>2. d[i] = e[i]
      BY <1>2, <2>3, <2>6, <3>1 DEF Continues
    <3>3. Instance(c, i)' = Instance(c, i)
      BY <1>4, <3>1, InstancesStay
    <3>4. Within((Instance(c, i) + Ticks(Deadline[c])) - Ticks(e[i]))
      BY <2>1, <2>3, <3>1 DEF Tracks
    <3> QED BY <3>2, <3>3, <3>4
  <2>7. CASE ~(i <= counter[T])
    <3>1. counter'[T] = counter[T] + 1 /\ i = counter[T] + 1
      BY <1>2, <2>3, <2>5, <2>7
    <3>2. d[i] = releaseTime'[t] + Deadline[c]
      BY <1>2, <2>2, <2>3, <2>5, <3>1
    <3>3. Instance(c, i)' = Due(t)' /\ Due(t)' \in Nat
      <4>1. Due(Triggered(c))' = Due(t)'
        BY <2>4 DEF Due, Ticks
      <4>2. Instance(c, i)' = Due(Triggered(c))'
              - (counter'[Trigger(c)'] - i) * Ticks(Period[Triggered(c)'])
        BY DEF Instance, Ticks
      <4>3. counter'[Trigger(c)'] - i = 0
        BY <2>4, <2>5, <3>1
      <4>4. Ticks(Period[Triggered(c)']) \in Int
        BY <2>1, <2>4, ClockTypes
      <4>5. nextCall'[t] \in Nat /\ Ticks(Period[t]) \in Nat
        BY <2>1, ClockTypes, ClockTypes2
      <4>6. Due(t)' \in Nat
        BY <4>5 DEF Due, Ticks
      <4> QED BY <4>1, <4>2, <4>3, <4>4, <4>6
    <3>4. Within(Due(t)' - Ticks(releaseTime'[t]))
      BY <1>4, <2>4 DEF TimerInv, Offset, Within, Ticks, Late, Early
    <3>5. /\ releaseTime'[t] \in Nat /\ Deadline[c] \in Nat
          /\ Ticks(d[i]) = Ticks(releaseTime'[t]) + Ticks(Deadline[c])
          /\ Ticks(releaseTime'[t]) \in Int /\ Ticks(Deadline[c]) \in Int
      <4>1. releaseTime'[t] \in Nat /\ Deadline[c] \in Nat
        BY ClockTypes2, ChainAssumption
      <4>2. releaseTime'[t] \in Int /\ Deadline[c] \in Int
        BY <4>1
      <4> QED BY <3>2, <4>1, <4>2, TicksFacts
    <3> DEFINE x == Due(t)'
               y == Ticks(releaseTime'[t])
               z == Ticks(Deadline[c])
    <3>6. x \in Int /\ y \in Int /\ z \in Int
      BY <3>3, <3>5
    <3>7. Ticks(d[i]) = y + z /\ Instance(c, i)' = x /\ Within(x - y)
      BY <3>3, <3>4, <3>5
    <3> HIDE DEF x, y, z
    <3>8. (x + z) - (y + z) = x - y
      BY <3>6
    <3> QED BY <3>7, <3>8 DEF z
  <2> QED BY <2>6, <2>7
<1> QED BY <1>2, <1>4

-----------------------------------------------------------------------------
CalmInv ==
  AgedInv /\ ExactInv /\ TimerInv /\ PacedInv /\ FreshInv /\ TrackInv

LEMMA CalmInvariant ==
  ASSUME ~MayOverrun
  PROVE  Spec => []CalmInv
<1>1. Init => ExactInv /\ TimerInv /\ PacedInv /\ FreshInv /\ TrackInv
  BY InitExact, InitTimer, InitPaced, InitTrack
<1>2. CalmInv /\ AgedInv' /\ [Next]_vars => CalmInv'
  <2> SUFFICES ASSUME CalmInv, AgedInv', [Next]_vars PROVE CalmInv'
    OBVIOUS
  <2>1. /\ BaseInv /\ TypeOK' /\ ReleaseInv /\ OrderInv /\ IndexInv /\ AgeInv
        /\ ExactInv /\ TimerInv /\ PacedInv /\ FreshInv /\ TrackInv
    BY DEF CalmInv, AgedInv, OrderedInv, BaseInv
  <2>2. ExactInv' /\ TimerInv'
    BY <2>1, StepExact, StepTimer
  <2>3. PacedInv' /\ FreshInv' /\ TrackInv'
    BY <2>1, <2>2, StepPaced, StepFresh, StepTrack
  <2> QED BY <2>2, <2>3 DEF CalmInv
<1>3. Init /\ AgedInv => CalmInv
  BY <1>1 DEF CalmInv
<1> QED BY <1>2, <1>3, AgedInvariant, PTL DEF Spec

-----------------------------------------------------------------------------
(***************************************************************************)
(* What a callback that is ready sees.                                     *)
(***************************************************************************)
\* An instance that was released and not finished is at hand somewhere.
LEMMA SomebodyHas ==
  ASSUME CalmInv, Undisturbed, NEW c \in Chains, NEW i \in Int,
         counter[Final(c)] <= i, i < counter[Trigger(c)]
  PROVE  \E k \in 1..Length[c] : \E p \in Numbered[At(c, k)] : p[1] = i
<1> DEFINE K == {k \in 1..Length[c] : Done[At(c, k)] <= i}
<1>0. /\ TypeOK /\ HeldInv /\ ExactInv
      /\ Length[c] \in Nat /\ Length[c] >= 2
  BY PlaceFacts DEF CalmInv, AgedInv, OrderedInv, BaseInv
<1>1. Length[c] \in K
  <2>1. At(c, Length[c]) = Final(c) /\ Final(c) \in Callbacks
    BY <1>0, PlaceFacts DEF At, Final
  <2>2. Done[Final(c)] <= counter[Final(c)] /\ Done[Final(c)] \in Int
        /\ counter[Final(c)] \in Nat
    BY <1>0, <2>1, CountType
  <2> QED BY <1>0, <2>1, <2>2
<1>2. PICK k \in K : \A j \in K : k <= j
  <2>1. K \in SUBSET Nat
    OBVIOUS
  <2> HIDE DEF K
  <2> QED BY <1>1, <2>1, LeastFacts
<1> DEFINE b == At(c, k)
<1>3. /\ k \in 1..Length[c] /\ Done[b] <= i /\ b \in Callbacks
      /\ counter[b] \in Nat /\ instance[b] \in Nat
  BY <1>0, <1>2, PlaceFacts, CountType DEF TypeOK
<1>4. CASE k = 1
  <2>1. b = Trigger(c) /\ b \in Timers /\ b \notin Subscriptions
        /\ b[1] \in Chains
    BY <1>0, <1>4, PlaceFacts, CallbackFacts DEF At
  <2>2. phase[b] # "idle" /\ i = counter[b] - 1
    BY <1>3, <2>1 DEF Done
  <2>3. phase[b] \in {"taken", "running"} /\ nextCall[b[1]] \in Nat
    BY <1>0, <1>3, <2>1, <2>2 DEF TypeOK
  <2> HIDE DEF b
  <2>4. CASE phase[b] = "taken"
    <3>1. <<counter[b] - 1, nextCall[b[1]]>> \in Numbered[b]
      BY <1>3, <2>1, <2>3, <2>4 DEF Numbered
    <3> QED BY <1>3, <2>2, <3>1 DEF b
  <2>5. CASE phase[b] = "running"
    <3>1. <<counter[b] - 1, instance[b]>> \in Numbered[b]
      BY <1>3, <2>5 DEF Numbered
    <3> QED BY <1>3, <2>2, <3>1 DEF b
  <2> QED BY <2>3, <2>4, <2>5
<1>5. CASE k # 1
  <2>1. /\ k \in 2..Length[c] /\ k - 1 \in 1..Length[c]
        /\ b = <<c, k>> /\ b \in Subscriptions
    BY <1>0, <1>3, <1>5, PlaceFacts DEF At
  <2>2. Given[b] > i
    <3>1. ~(Done[At(c, k - 1)] <= i)
      BY <1>2, <2>1
    <3>2. Done[At(c, k - 1)] \in Int
      BY <1>0, <2>1, PlaceFacts, CountType
    <3>3. Given[b] = Done[At(c, k - 1)]
      BY <1>0, <2>1 DEF ExactInv
    <3> QED BY <3>1, <3>2, <3>3
  <2>3. mailbox[b] \in Nat /\ phase[b] \in {"idle", "taken", "running"}
    BY <1>0, <1>3, <2>1 DEF TypeOK
  <2> HIDE DEF b
  <2>4. CASE phase[b] = "running" /\ i = counter[b] - 1
    <3>1. <<counter[b] - 1, instance[b]>> \in Numbered[b]
      BY <1>3, <2>4 DEF Numbered
    <3> QED BY <1>3, <2>4, <3>1 DEF b
  <2>5. CASE mailbox[b] # NoMessage /\ i = Given[b] - 1
    <3>1. <<Given[b] - 1, mailbox[b]>> \in Numbered[b]
      BY <1>3, <2>1, <2>3, <2>5 DEF Numbered
    <3> QED BY <1>3, <2>5, <3>1 DEF b
  <2>6. phase[b] = "taken" => mailbox[b] # NoMessage
    BY <1>0, <2>1 DEF HeldInv
  <2>7. \/ phase[b] = "running" /\ i = counter[b] - 1
        \/ mailbox[b] # NoMessage /\ i = Given[b] - 1
    BY <1>3, <2>1, <2>2, <2>3, <2>6 DEF Given, Done
  <2> QED BY <2>4, <2>5, <2>7
<1> QED BY <1>4, <1>5

\* As many periods as a chain has queues are no less than its deadline.
LEMMA TurnFacts ==
  ASSUME NEW D \in Nat \ {0}, NEW p \in Nat \ {0}, NEW n, n = CeilDiv(D, p)
  PROVE  n \in Nat /\ n * Ticks(p) >= Ticks(D)
<1>1. n \in Nat /\ n * p >= D /\ n * p \in Int
  BY CeilDivFacts
<1>2. TicksPerMs \in Nat \ {0}
  BY ChainAssumption
<1>3. Ticks(n * p) >= Ticks(D)
  <2>1. D \in Int /\ D <= n * p
    BY <1>1
  <2>2. Ticks(D) <= Ticks(n * p) /\ Ticks(D) \in Int /\ Ticks(n * p) \in Int
    BY <1>1, <2>1, TicksFacts
  <2> QED BY <2>2
<1>4. Ticks(n * p) = n * Ticks(p)
  <2>1. (n * p) * TicksPerMs = n * (p * TicksPerMs)
    BY <1>1, <1>2
  <2> QED BY <2>1 DEF Ticks
<1> QED BY <1>1, <1>3, <1>4

\* The instances that are under way are less than a turn of the queues.
LEMMA WithinATurn ==
  ASSUME CalmInv, Undisturbed, NEW c \in Chains, NEW m \in Nat,
         m <= counter[Trigger(c)], counter[Final(c)] <= m, Instance(c, m) <= now
  PROVE  m < counter[Final(c)] + MaxChainNum(c)
<1> DEFINE l == counter[Final(c)]
           a == counter[Trigger(c)]
           t == Triggered(c)
           q == Ticks(Period[t])
           D == Ticks(Deadline[c])
           n == MaxChainNum(c)
           x == Due(t)
<1>1. TypeOK /\ FreshInv /\ PacedInv
  BY DEF CalmInv, AgedInv, OrderedInv, BaseInv
<1>2. /\ l \in Nat /\ a \in Nat /\ q \in Nat /\ x \in Nat /\ now \in Nat
      /\ t \in Chains
  BY <1>1, CountType, PlaceFacts, DueType, ClockTypes
<1>3. n \in Nat /\ n * q >= D /\ D \in Nat \ {0}
  <2>1. n = CeilDiv(Deadline[c], Period[t])
    <3>1. n = MaxChainNum(t) /\ Deadline[t] = Deadline[c]
      BY <1>1, TriggeredFacts DEF TypeOK
    <3> QED BY <3>1 DEF MaxChainNum
  <2>2. Deadline[c] \in Nat \ {0} /\ Period[t] \in Nat \ {0}
    BY <1>2, ChainAssumption
  <2> HIDE DEF n, t
  <2>3. n \in Nat /\ n * Ticks(Period[t]) >= Ticks(Deadline[c])
    BY <2>1, <2>2, TurnFacts
  <2> QED BY <2>3, TicksFacts
<1>4. SUFFICES ASSUME m >= l + n PROVE FALSE
  BY <1>2, <1>3
<1>5. n >= 1
  BY <1>2, <1>3
<1>6. l < a /\ l < m
  BY <1>2, <1>3, <1>4, <1>5
\* The oldest of them is still before its deadline.
<1>7. now < Instance(c, l) + D
  <2>1. PICK k \in 1..Length[c] : \E p \in Numbered[At(c, k)] : p[1] = l
    BY <1>2, <1>6, SomebodyHas
  <2>2. PICK p \in Numbered[At(c, k)] : p[1] = l
    BY <2>1
  <2>3. At(c, k) \in Callbacks /\ p[2] = Instance(c, p[1])
    BY <1>1, PlaceFacts DEF PacedInv
  <2>4. now < p[2] + Ticks(Deadline[At(c, k)[1]])
    BY <1>1, <2>3 DEF FreshInv
  <2>5. Deadline[At(c, k)[1]] = Deadline[c]
    BY <1>1, TriggeredFacts DEF At, Trigger, TypeOK
  <2>6. Instance(c, p[1]) = Instance(c, l)
    BY <2>2
  <2> QED BY <2>3, <2>4, <2>5, <2>6
<1>8. /\ Instance(c, l) = x - (a - l) * q
      /\ Instance(c, m) = x - (a - m) * q
  BY DEF Instance
<1> HIDE DEF l, a, q, D, n, x
<1>9. PICK j \in Nat : m = l + n + j
  <2>1. m - (l + n) \in Nat /\ m = l + n + (m - (l + n))
    BY <1>2, <1>3, <1>4
  <2> QED BY <2>1
<1> DEFINE y == (a - m) * q
           u == n * q
           v == j * q
<1>10. y \in Int /\ u \in Int /\ v \in Int /\ v >= 0 /\ u >= D
  BY <1>2, <1>3, <1>9
<1>11. (a - l) * q = y + u + v
  <2>1. a - l = (a - m) + n + j
    BY <1>2, <1>3, <1>9
  <2>2. ((a - m) + n + j) * q = (a - m) * q + n * q + j * q
    BY <1>2, <1>3, <1>9
  <2> QED BY <2>1, <2>2
<1>12. x - y <= now /\ now < (x - (y + u + v)) + D
  BY <1>7, <1>8, <1>11
<1> HIDE DEF y, u, v
<1> QED BY <1>2, <1>3, <1>10, <1>12

\* The instance that a callback is ready for.
LEMMA PendingFacts ==
  ASSUME CalmInv, Undisturbed, NEW cb \in Callbacks, Waiting(cb)
  PROVE  /\ Pending(cb) = Instance(cb[1], counter[cb]) /\ Pending(cb) <= now
         /\ DueBy(cb) = Instance(cb[1], counter[cb]) + Ticks(Deadline[cb[1]])
<1> DEFINE c == cb[1]
           m == counter[cb]
<1>1. /\ TypeOK /\ OrderInv /\ FreshInv /\ PacedInv
      /\ phase[cb] = "idle" /\ Ready(cb) /\ c \in Chains /\ m \in Nat
      /\ cb \in Callbacks
  BY CallbackFacts, CountType
     DEF CalmInv, AgedInv, OrderedInv, BaseInv, Waiting
<1>2. RelativeDeadline(cb) = Deadline[c]
  BY <1>1, TriggeredFacts DEF RelativeDeadline, TypeOK
<1>3. CASE cb \in Timers
  <2>1. cb = <<c, 1>> /\ HasTimer(c) /\ nextCall[c] <= now
    <3>1. cb = <<c, 1>> /\ HasTimer(c) /\ now >= nextCall[c]
      BY <1>1, <1>3, CallbackFacts DEF Ready
    <3> QED BY <1>1, <3>1, ClockTypes
  <2>2. cb = Trigger(c) /\ Triggered(c) = c
    BY <2>1 DEF Trigger, HasTimer
  <2>3. Instance(c, m) = Due(c) /\ Due(c) = nextCall[c]
    BY <1>1, <2>1, <2>2, DueType DEF Due
  <2> QED BY <1>1, <1>2, <1>3, <2>1, <2>3 DEF Pending, DueBy
<1>4. CASE cb \notin Timers
  <2>1. /\ cb \in Subscriptions /\ mailbox[cb] # NoMessage
        /\ cb = <<c, cb[2]>> /\ cb[2] \in 2..Length[c]
    BY <1>1, <1>4, CallbackFacts DEF Callbacks, Ready
  <2>2. Given[cb] - 1 = m /\ mailbox[cb] \in Nat
    <3>1. Given[cb] = m + 1
      BY <1>1, <2>1, WaitingBounds
    <3>2. mailbox[cb] \in Nat
      BY <1>1, <2>1 DEF TypeOK
    <3> QED BY <1>1, <3>1, <3>2
  <2>3. <<m, mailbox[cb]>> \in Numbered[cb]
    BY <1>1, <2>1, <2>2 DEF Numbered
  <2>4. cb[2] \in 1..Length[c] /\ At(c, cb[2]) = cb
    BY <1>1, <2>1, PlaceFacts DEF At
  <2>5. mailbox[cb] = Instance(c, m)
    <3>1. PICK p \in Numbered[cb] : p = <<m, mailbox[cb]>>
      BY <2>3
    <3>2. p[2] = Instance(c, p[1])
      BY <1>1, <2>4 DEF PacedInv
    <3> QED BY <3>1, <3>2
  <2>6. mailbox[cb] <= now
    BY <1>1, <2>3 DEF FreshInv
  <2> QED BY <1>1, <1>2, <1>4, <2>5, <2>6 DEF Pending, DueBy
<1> QED BY <1>3, <1>4

LEMMA SeenIsOwn ==
  ASSUME CalmInv, Undisturbed, NEW cb \in Callbacks, Waiting(cb)
  PROVE  /\ SeenDeadline(cb) \in Nat /\ SeenDeadline(cb) > 0
         /\ DueBy(cb) \in Int
         /\ DueBy(cb) - Ticks(SeenDeadline(cb)) \in -Late .. Early
<1> DEFINE c == cb[1]
           m == counter[cb]
           l == counter[Final(c)]
           a == counter[Trigger(c)]
           n == MaxChainNum(c)
<1>1. /\ TypeOK /\ OrderInv /\ IndexInv /\ TrackInv
      /\ c \in Chains /\ OrderedInv
  BY CallbackFacts DEF CalmInv, AgedInv, OrderedInv, BaseInv
<1>2. PICK e \in [Int -> Nat] : Line(c, e) /\ Tracks(c, e)
  BY <1>1 DEF TrackInv
<1>3. /\ m \in Nat /\ l \in Nat /\ a \in Nat /\ l <= m /\ m <= a
      /\ n \in Nat \ {0}
  BY <1>1, WaitingBounds, CountType, PlaceFacts, QueueCount
<1>4. Instance(c, m) <= now /\ DueBy(cb) = Instance(c, m) + Ticks(Deadline[c])
  BY PendingFacts
<1>5. Within(DueBy(cb) - Ticks(e[m]))
  <2>1. m \in 0 .. a
    BY <1>3
  <2> QED BY <1>2, <1>4, <2>1 DEF Tracks
\* So few instances are unfinished that no two of them share a queue.
<1>6. m < l + n
  BY <1>1, <1>3, <1>4, WithinATurn
\* The callback looks at the queue whose first deadline it is.
<1> DEFINE q == curIndex[cb]
           queue == deadlines[c][q]
<1>7. q \in Queues(c) /\ q \in Int /\ OnGrid(m, q, n)
  BY <1>1 DEF TypeOK, IndexInv, Queues
<1>8. queue \in Seq(Nat)
  BY <1>1, <1>7 DEF TypeOK
<1>9. PICK g \in Int : Dealt(queue, g, q, n, l, a, e)
  BY <1>2, <1>7 DEF Line
<1>10. SeenDeadline(cb) = IF queue = <<>> THEN 0 ELSE Head(queue)
  BY DEF SeenDeadline
<1>11. DueBy(cb) \in Int /\ SeenDeadline(cb) \in Nat /\ SeenDeadline(cb) > 0
  <2>1. m \in Int
    BY <1>3
  <2>2. Instance(c, m) \in Int /\ Ticks(Deadline[c]) \in Nat
    BY <1>1, <2>1, DueType, TicksFacts
  <2> QED BY <1>1, <1>4, <2>2, SeenType, ReadyFacts
<1> HIDE DEF c, m, l, a, n, q, queue
<1>12. g = m
  <2>1. OnGrid(g, q, n) /\ l <= g /\ g < l + n /\ m \in Int
    BY <1>3, <1>9 DEF Dealt
  <2>2. g < m + n /\ m < g + n
    BY <1>3, <1>6, <2>1
  <2>3. g <= m
    BY <1>3, <1>7, <2>1, <2>2, GridOrder
  <2>4. m <= g
    BY <1>3, <1>7, <2>1, <2>2, GridOrder
  <2> QED BY <2>1, <2>3, <2>4
<1>13. queue # <<>> /\ Head(queue) = e[g]
  <2>1. g <= a /\ l \in Int /\ a \in Int
    BY <1>3, <1>12
  <2> QED BY <1>3, <1>7, <1>8, <1>9, <2>1, FrontFacts
<1> QED BY <1>5, <1>10, <1>11, <1>12, <1>13 DEF Within

-----------------------------------------------------------------------------
(***************************************************************************)
(* The theorems.                                                           *)
(***************************************************************************)
\* While the chains are on time and no message is lost, a callback that is
\* ready is seen with the deadline of the instance it will run for, but for
\* what the set-up was off, however many instances of its chain are under way
\* (priority_memory_strategy.hpp:207-218, muex_test.cpp:236-247).
THEOREM SeenDeadlineIsDue ==
  ASSUME ~MayOverrun
  PROVE  Spec => []SeenIsDue
<1>1. CalmInv => SeenIsDue
  BY SeenIsOwn DEF SeenIsDue
<1> QED BY CalmInvariant, <1>1, PTL

\* ... and so the executor is earliest deadline first, but for what two set-ups
\* were off: of the callbacks whose group was free when they were collected and
\* that were ready when the wait was over, the one taken belongs to an instance
\* with an earliest deadline, although time passes, groups are freed and
\* messages arrive before it is taken (priority_memory_strategy.hpp:219-234).
THEOREM EarliestDeadlineRunsFirst ==
  ASSUME ~MayOverrun
  PROVE  Spec => EarliestDeadlineFirst
<1>1. ASSUME CalmInv, [Next]_vars, Undisturbed, NEW cb \in Callbacks, Taken(cb),
             NEW d \in candidates
      PROVE  DueBy(cb) <= DueBy(d) + Early + Late
  <2>1. IsNext(cb) /\ Waiting(cb) /\ d \in Callbacks /\ Waiting(d)
    <3>1. BaseInv
      BY <1>1 DEF CalmInv, AgedInv, OrderedInv
    <3> QED BY <1>1, <3>1, TakenFacts
  <2> DEFINE x == SeenDeadline(cb)
             y == SeenDeadline(d)
  <2>2. /\ x \in Nat /\ x > 0 /\ DueBy(cb) - Ticks(x) \in -Late .. Early
        /\ y \in Nat /\ y > 0 /\ DueBy(d) - Ticks(y) \in -Late .. Early
        /\ DueBy(cb) \in Int /\ DueBy(d) \in Int
    BY <1>1, <2>1, SeenIsOwn
  <2>3. RunsAfter(cb, d) => RunsAfter(d, cb)
    BY <1>1, <2>1 DEF IsNext
  <2>4. x > y => RunsAfter(cb, d)
    BY <2>2 DEF RunsAfter
  <2>5. RunsAfter(d, cb) => y >= x
    BY <2>2 DEF RunsAfter
  <2> HIDE DEF x, y
  <2>6. x <= y
    BY <2>2, <2>3, <2>4, <2>5
  <2>7. Ticks(x) <= Ticks(y) /\ Ticks(x) \in Int /\ Ticks(y) \in Int
    BY <2>2, <2>6, TicksFacts
  <2>8. Late \in Int /\ Early \in Int
    BY ChainAssumption DEF Late, Early
  <2> QED BY <2>2, <2>7, <2>8
<1>2. CalmInv /\ [Next]_vars =>
        [Undisturbed => \A cb \in Callbacks : Taken(cb) =>
           \A d \in candidates : DueBy(cb) <= DueBy(d) + Early + Late]_vars
  BY <1>1
<1> QED BY <1>2, CalmInvariant, PTL DEF Spec, EarliestDeadlineFirst
===============================================================================
