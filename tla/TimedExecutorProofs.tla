-------------------------- MODULE TimedExecutorProofs --------------------------
(***************************************************************************)
(* Proofs about TimedExecutor, for any nodes and entities: the lists of    *)
(* nodes and guard conditions stay in step, the wait set is fresh and no   *)
(* group is left marked as taken, whenever nodes expire and however spin() *)
(* is cancelled.                                                           *)
(*                                                                         *)
(* The list lemmas come first.  Then there is one lemma for the steps that *)
(* change the lists (AddNode, CleanNode), one for the collection, and one  *)
(* for all others, and the theorems follow from IInv.                      *)
(***************************************************************************)
EXTENDS TimedExecutor, SequenceTheorems, TLAPS

\* What erasing a list element does, by position (std::list::erase).
LEMMA RemoveAtFacts ==
  ASSUME NEW S, NEW s \in Seq(S), NEW i \in 1..Len(s)
  PROVE  /\ RemoveAt(s, i) \in Seq(S)
         /\ Len(RemoveAt(s, i)) = Len(s) - 1
         /\ \A j \in 1..Len(s) - 1 :
              RemoveAt(s, i)[j] = IF j < i THEN s[j] ELSE s[j + 1]
<1> DEFINE head == SubSeq(s, 1, i - 1)
           rest == SubSeq(s, i + 1, Len(s))
<1>1. head \in Seq(S) /\ Len(head) = i - 1 /\ \A j \in 1..i - 1 : head[j] = s[j]
  OBVIOUS
<1>2. /\ rest \in Seq(S)
      /\ Len(rest) = Len(s) - i
      /\ \A j \in 1..Len(s) - i : rest[j] = s[i + j]
  OBVIOUS
<1>3. RemoveAt(s, i) = head \o rest
  BY DEF RemoveAt
<1>4. Len(s) \in Nat /\ i \in 1..Len(s)
  OBVIOUS
<1> HIDE DEF head, rest
<1>5. /\ head \o rest \in Seq(S)
      /\ Len(head \o rest) = Len(head) + Len(rest)
      /\ \A j \in 1..Len(head) + Len(rest) : (head \o rest)[j] =
           IF j <= Len(head) THEN head[j] ELSE rest[j - Len(head)]
  BY ONLY <1>1, <1>2, ConcatProperties, Zenon
<1>6. Len(head) + Len(rest) = Len(s) - 1
  BY ONLY <1>1, <1>2, <1>4
<1>7. ASSUME NEW j \in 1..Len(s) - 1
      PROVE  (head \o rest)[j] = IF j < i THEN s[j] ELSE s[j + 1]
  <2>1. (head \o rest)[j] = IF j <= i - 1 THEN head[j] ELSE rest[j - (i - 1)]
    BY ONLY <1>1, <1>5, <1>6, <1>7, Zenon
  <2>2. CASE j < i
    BY <1>1, <1>4, <2>1, <2>2
  <2>3. CASE j >= i
    <3>1. j - (i - 1) \in 1..Len(s) - i /\ i + (j - (i - 1)) = j + 1
      BY <1>4, <2>3
    <3> QED BY <1>2, <1>4, <2>1, <2>3, <3>1
  <2>4. j < i \/ j >= i
    BY <1>4
  <2> QED BY <2>2, <2>3, <2>4
<1>8. /\ head \o rest \in Seq(S)
      /\ Len(head \o rest) = Len(s) - 1
  BY <1>5, <1>6, Zenon
<1> QED BY <1>3, <1>7, <1>8, Zenon

\* Erasing the only place of an element takes it, and nothing else, away.
LEMMA RemoveAtOnce ==
  ASSUME NEW S, NEW s \in Seq(S), NEW i \in 1..Len(s),
         \A j, k \in DOMAIN s : s[j] = s[k] => j = k
  PROVE  /\ Range(RemoveAt(s, i)) = Range(s) \ {s[i]}
         /\ \A j, k \in DOMAIN RemoveAt(s, i) :
              RemoveAt(s, i)[j] = RemoveAt(s, i)[k] => j = k
<1> DEFINE r == RemoveAt(s, i)
<1>1. /\ r \in Seq(S) /\ DOMAIN r = 1..Len(s) - 1 /\ DOMAIN s = 1..Len(s)
      /\ \A j \in DOMAIN r : r[j] = IF j < i THEN s[j] ELSE s[j + 1]
  <2>1. r \in Seq(S) /\ Len(r) = Len(s) - 1
    BY RemoveAtFacts, Zenon
  <2>2. \A j \in 1..Len(s) - 1 : r[j] = IF j < i THEN s[j] ELSE s[j + 1]
    BY RemoveAtFacts, Zenon
  <2> HIDE DEF r
  <2>3. DOMAIN r = 1..Len(s) - 1 /\ DOMAIN s = 1..Len(s)
    BY <2>1
  <2> QED BY <2>1, <2>2, <2>3
<1> HIDE DEF r
<1>2. Range(r) \subseteq Range(s) \ {s[i]}
  BY <1>1 DEF Range
<1>3. ASSUME NEW k \in 1..Len(s), k # i PROVE s[k] \in Range(r)
  <2>1. CASE k < i
    BY <1>1, <2>1 DEF Range
  <2>2. CASE k > i
    <3>1. k - 1 \in DOMAIN r /\ r[k - 1] = s[k]
      BY <1>1, <2>2
    <3> QED BY <3>1 DEF Range
  <2> QED BY <1>3, <2>1, <2>2
<1>4. Range(s) \ {s[i]} \subseteq Range(r)
  BY <1>1, <1>3 DEF Range
<1>5. \A j, k \in DOMAIN r : r[j] = r[k] => j = k
  BY <1>1
<1> QED BY <1>2, <1>4, <1>5 DEF r

-----------------------------------------------------------------------------
\* add_node puts a node and its guard condition at the end of all lists.
LEMMA AddNodePreserves ==
  ASSUME NEW n \in Nodes, IInv, AddNode(n)
  PROVE  IInv'
<1>1. /\ weakNodes' = Append(weakNodes, n) /\ weakNodes \in Seq(Nodes)
      /\ n \notin Range(weakNodes) /\ guards' = Append(guards, n)
      /\ strategyGuards' = strategyGuards \union {n}
      /\ UNCHANGED <<pc, flags, alive, next, invalid, handles, taken, busy,
                     ready, seen>>
      /\ pc = "idle"
  BY DEF AddNode, AddGuardCondition, IInv, TypeOK
<1>2. /\ Append(weakNodes, n) \in Seq(Nodes)
      /\ DOMAIN weakNodes = 1..Len(weakNodes)
      /\ Len(weakNodes') = Len(weakNodes) + 1
      /\ DOMAIN weakNodes' = 1..Len(weakNodes) + 1
      /\ \A i \in 1..Len(weakNodes) : weakNodes'[i] = weakNodes[i]
      /\ weakNodes'[Len(weakNodes) + 1] = n
  BY <1>1
<1>3. \A i \in DOMAIN weakNodes : weakNodes[i] # n
  BY <1>1 DEF Range
<1>4. NodesOnce'
  BY <1>2, <1>3 DEF IInv, NodesOnce
<1>5. Range(weakNodes') = Range(weakNodes) \union {n}
  BY <1>2 DEF Range
<1>6. TypeOK'
  BY <1>1, <1>2 DEF IInv, TypeOK, GuardsInStep, flags
<1>7. GuardsInStep'
  BY <1>1, <1>5 DEF IInv, GuardsInStep
<1>8. CollectInv' /\ TakenInv'
  BY <1>1 DEF IInv, CollectInv, TakenInv
<1> QED BY <1>4, <1>6, <1>7, <1>8 DEF IInv

\* An expired node is erased at `next'; what follows moves up.
LEMMA CleanNodePreserves ==
  ASSUME IInv, CleanNode
  PROVE  IInv'
<1>1. /\ pc = "clean" /\ next <= Len(weakNodes) /\ next \in 1..Len(weakNodes)
      /\ weakNodes \in Seq(Nodes) /\ DOMAIN weakNodes = 1..Len(weakNodes)
      /\ UNCHANGED <<flags, pc, alive, invalid, handles, taken, busy, ready,
                     seen>>
  BY DEF CleanNode, IInv, TypeOK
<1>2. CASE weakNodes[next] \notin alive
  <2>1. /\ weakNodes' = RemoveAt(weakNodes, next) /\ guards' = weakNodes'
        /\ strategyGuards' = strategyGuards \ {weakNodes[next]}
        /\ next' = next
    BY <1>2 DEF CleanNode, RemoveGuardCondition, IInv, GuardsInStep
  <2>2. /\ Range(weakNodes') = Range(weakNodes) \ {weakNodes[next]}
        /\ NodesOnce'
    <3>1. \A j, k \in DOMAIN weakNodes : weakNodes[j] = weakNodes[k] => j = k
      BY DEF IInv, NodesOnce
    <3>2. /\ Range(RemoveAt(weakNodes, next))
               = Range(weakNodes) \ {weakNodes[next]}
          /\ \A j, k \in DOMAIN RemoveAt(weakNodes, next) :
               RemoveAt(weakNodes, next)[j] = RemoveAt(weakNodes, next)[k]
                 => j = k
      BY ONLY <1>1, <3>1, RemoveAtOnce
    <3> QED BY <2>1, <3>2 DEF NodesOnce
  <2>3. /\ weakNodes' \in Seq(Nodes) /\ Len(weakNodes') = Len(weakNodes) - 1
        /\ DOMAIN weakNodes' = 1..Len(weakNodes) - 1
        /\ \A j \in 1..Len(weakNodes) - 1 : weakNodes'[j] =
             IF j < next THEN weakNodes[j] ELSE weakNodes[j + 1]
    <3>1. /\ RemoveAt(weakNodes, next) \in Seq(Nodes)
          /\ Len(RemoveAt(weakNodes, next)) = Len(weakNodes) - 1
          /\ \A j \in 1..Len(weakNodes) - 1 :
               RemoveAt(weakNodes, next)[j] =
                 IF j < next THEN weakNodes[j] ELSE weakNodes[j + 1]
      BY ONLY <1>1, RemoveAtFacts, Zenon
    <3>2. /\ weakNodes' \in Seq(Nodes) /\ Len(weakNodes') = Len(weakNodes) - 1
          /\ \A j \in 1..Len(weakNodes) - 1 : weakNodes'[j] =
               IF j < next THEN weakNodes[j] ELSE weakNodes[j + 1]
      BY ONLY <2>1, <3>1, Zenon
    <3>3. DOMAIN weakNodes' = 1..Len(weakNodes')
      BY <3>2
    <3> QED BY <3>2, <3>3
  <2>4. TypeOK'
    BY <1>1, <2>1, <2>3 DEF IInv, TypeOK, flags
  <2>5. GuardsInStep'
    BY <2>1, <2>2 DEF IInv, GuardsInStep
  <2>6. CollectInv' /\ TakenInv'
    <3>1. \A i \in DOMAIN weakNodes : weakNodes[i] \in seen
            \/ (invalid /\ weakNodes[i] \notin alive /\ i >= next)
      BY <1>1 DEF IInv, CollectInv, Seen, Noticed
    <3>2. ASSUME NEW i \in DOMAIN weakNodes'
          PROVE  weakNodes'[i] \in seen
                   \/ (invalid /\ weakNodes'[i] \notin alive /\ i >= next)
      BY <1>1, <2>3, <3>1
    <3> QED BY <1>1, <2>1, <3>2 DEF IInv, CollectInv, TakenInv, Seen, Noticed
  <2> QED BY <2>2, <2>4, <2>5, <2>6 DEF IInv
<1>3. CASE weakNodes[next] \in alive
  <2>1. next' = next + 1 /\ UNCHANGED lists
    BY <1>3 DEF CleanNode
  <2>2. TypeOK' /\ GuardsInStep' /\ NodesOnce' /\ TakenInv'
    BY <1>1, <2>1 DEF IInv, TypeOK, GuardsInStep, NodesOnce, TakenInv, lists,
       flags
  <2>3. CollectInv'
    BY <1>1, <1>3, <2>1 DEF IInv, CollectInv, Seen, Noticed, lists
  <2> QED BY <2>2, <2>3 DEF IInv
<1> QED BY <1>2, <1>3

\* collect_entities notices every node that is not there any more.
LEMMA CollectPreserves ==
  ASSUME IInv, BeginWait \/ CollectNode \/ StartCleanUp \/ FillWaitSet
  PROVE  IInv'
<1>1. TypeOK'
  <2>1. CASE BeginWait
    <3>1. 1 \in 1..Len(weakNodes) + 1
      BY DEF IInv, TypeOK
    <3> QED BY <2>1, <3>1 DEF IInv, TypeOK, BeginWait, ShouldRun, lists,
       flags
  <2>2. CASE CollectNode
    <3>1. seen' \subseteq Nodes /\ handles' \subseteq Entities
      BY <2>2 DEF IInv, TypeOK, CollectNode
    <3>2. next' \in 1..Len(weakNodes) + 1 /\ invalid' \in BOOLEAN
      BY <2>2 DEF IInv, TypeOK, CollectNode
    <3> QED BY <2>2, <3>1, <3>2 DEF IInv, TypeOK, CollectNode, lists, flags
  <2>3. CASE StartCleanUp
    BY <2>3 DEF IInv, TypeOK, StartCleanUp, lists, flags
  <2>4. CASE FillWaitSet
    BY <2>4 DEF IInv, TypeOK, FillWaitSet, lists, flags
  <2> QED BY <2>1, <2>2, <2>3, <2>4
<1>2. GuardsInStep' /\ NodesOnce' /\ TakenInv'
  BY DEF IInv, GuardsInStep, NodesOnce, TakenInv, BeginWait, CollectNode,
         StartCleanUp, FillWaitSet, lists
<1>3. weakNodes \in Seq(Nodes) /\ DOMAIN weakNodes = 1..Len(weakNodes)
  BY DEF IInv, TypeOK
<1>4. CASE BeginWait
  BY <1>1, <1>2, <1>4 DEF IInv, TypeOK, CollectInv, BeginWait
<1>5. CASE CollectNode
  <2>1. /\ pc = "collect" /\ pc' = "collect" /\ next \in 1..Len(weakNodes)
        /\ next' = next + 1
        /\ UNCHANGED <<weakNodes, alive>>
    BY <1>5 DEF IInv, TypeOK, CollectNode, lists
  <2>2. weakNodes[next] \in seen' \/ (invalid' /\ weakNodes[next] \notin alive)
    BY <1>5 DEF CollectNode
  <2>3. seen \subseteq seen' /\ (invalid => invalid')
    BY <1>5 DEF CollectNode
  <2>4. \A i \in 1..next - 1 :
          weakNodes[i] \in seen \/ (invalid /\ weakNodes[i] \notin alive)
    BY <2>1 DEF IInv, CollectInv, Seen, Noticed
  <2>5. \A i \in 1..next' - 1 :
          weakNodes[i] \in seen' \/ (invalid' /\ weakNodes[i] \notin alive)
    BY <2>1, <2>2, <2>3, <2>4
  <2>6. CollectInv'
    BY <2>1, <2>5 DEF CollectInv, Seen, Noticed
  <2> QED BY <1>1, <1>2, <2>6 DEF IInv
<1>6. CASE StartCleanUp
  BY <1>1, <1>2, <1>3, <1>6
     DEF IInv, TypeOK, CollectInv, Seen, Noticed, StartCleanUp, lists
<1>7. CASE FillWaitSet
  BY <1>1, <1>2, <1>3, <1>7
     DEF IInv, TypeOK, CollectInv, Seen, Noticed, FillWaitSet, lists
<1> QED BY <1>4, <1>5, <1>6, <1>7

\* Choosing and executing change no list; the group of what is taken is the
\* only one marked, and Destruct frees it.
LEMMA ExecutionPreserves ==
  ASSUME IInv,
         \/ SpinEnter \/ SpinReturn \/ Wait \/ ChooseNone
         \/ \E e \in Entities : Take(e) \/ Skip(e) \/ TakeNothing(e)
         \/ SkipCancelled \/ Execute \/ EndCallback
  PROVE  IInv'
<1>1. TypeOK'
  <2>1. CASE \E e \in Entities : Take(e) \/ Skip(e) \/ TakeNothing(e)
    BY <2>1, EntityAssumption
       DEF IInv, TypeOK, Take, Skip, TakeNothing, lists, flags
  <2>2. CASE SkipCancelled \/ Execute \/ EndCallback
    BY <2>2, EntityAssumption
       DEF IInv, TypeOK, SkipCancelled, Execute, EndCallback, Destruct, lists,
           flags
  <2>3. CASE SpinEnter \/ SpinReturn \/ Wait \/ ChooseNone
    <3>1. handles' \subseteq Entities
      BY <2>3 DEF IInv, TypeOK, SpinEnter, SpinReturn, Wait, ChooseNone
    <3>2. CASE SpinEnter
      BY <3>1, <3>2 DEF IInv, TypeOK, SpinEnter, lists, flags
    <3>3. CASE SpinReturn
      BY <3>1, <3>3 DEF IInv, TypeOK, SpinReturn, ShouldRun, lists,
         flags
    <3>4. CASE Wait
      BY <3>1, <3>4 DEF IInv, TypeOK, Wait, lists, flags
    <3>5. CASE ChooseNone
      BY <3>1, <3>5 DEF IInv, TypeOK, ChooseNone, lists, flags
    <3> QED BY <2>3, <3>2, <3>3, <3>4, <3>5
  <2> QED BY <2>1, <2>2, <2>3
<1>2. /\ UNCHANGED <<weakNodes, guards, strategyGuards>>
      /\ pc' \notin {"collect", "clean", "wait"}
  BY DEF IInv, TypeOK, SpinEnter, SpinReturn, Wait, ChooseNone, Take, Skip,
     TakeNothing, SkipCancelled, Execute, EndCallback, Destruct, lists
<1>3. GuardsInStep' /\ NodesOnce' /\ CollectInv'
  BY <1>2 DEF IInv, GuardsInStep, NodesOnce, CollectInv
<1>4. TakenInv'
  <2>1. CASE \E e \in Entities : Take(e)
    BY <2>1, EntityAssumption DEF IInv, TypeOK, TakenInv, Take
  <2>2. CASE SkipCancelled \/ Execute \/ EndCallback
    BY <2>2 DEF IInv, TypeOK, TakenInv, SkipCancelled, Execute, EndCallback,
       Destruct
  <2>3. CASE \/ SpinEnter \/ SpinReturn \/ Wait \/ ChooseNone
             \/ \E e \in Entities : Skip(e) \/ TakeNothing(e)
    BY <2>3 DEF IInv, TakenInv, SpinEnter, SpinReturn, Wait, ChooseNone, Skip,
       TakeNothing
  <2> QED BY <2>1, <2>2, <2>3
<1> QED BY <1>1, <1>3, <1>4 DEF IInv

\* A node that expires stays noticed; no other outside step is seen.
LEMMA EnvironmentPreserves ==
  ASSUME IInv,
         \/ \E n \in Nodes : NodeExpires(n)
         \/ \E e \in Entities : BecomeReady(e)
         \/ Cancel \/ Shutdown
  PROVE  IInv'
<1>1. TypeOK'
  BY DEF IInv, TypeOK, NodeExpires, BecomeReady, Cancel, Shutdown, lists, flags
<1>2. GuardsInStep' /\ NodesOnce' /\ TakenInv'
  BY DEF IInv, GuardsInStep, NodesOnce, TakenInv, NodeExpires, BecomeReady,
     Cancel, Shutdown, lists
<1>3. CollectInv'
  <2>1. UNCHANGED <<pc, weakNodes, next, seen, invalid>> /\ alive' \subseteq alive
    BY DEF NodeExpires, BecomeReady, Cancel, Shutdown, lists
  <2> QED BY <2>1 DEF IInv, CollectInv, Seen, Noticed
<1> QED BY <1>1, <1>2, <1>3 DEF IInv

-----------------------------------------------------------------------------
LEMMA InitInv ==
  ASSUME Init PROVE IInv
<1>1. TypeOK /\ CollectInv /\ TakenInv
  <2>1. weakNodes = <<>> /\ guards = <<>> /\ Len(weakNodes) = 0
        /\ weakNodes \in Seq(Nodes) /\ guards \in Seq(Nodes)
    BY DEF Init
  <2>2. next \in 1..Len(weakNodes) + 1
    BY <2>1 DEF Init
  <2>3. CollectInv /\ TakenInv
    BY DEF Init, CollectInv, TakenInv
  <2> QED BY <2>1, <2>2, <2>3, EntityAssumption DEF Init, TypeOK
<1>2. GuardsInStep /\ NodesOnce
  BY DEF Init, GuardsInStep, NodesOnce, Range
<1> QED BY <1>1, <1>2 DEF IInv

LEMMA NextPreserves ==
  ASSUME IInv, [Next]_vars PROVE IInv'
<1>1. CASE UNCHANGED vars
  BY <1>1 DEF IInv, TypeOK, GuardsInStep, NodesOnce, CollectInv, TakenInv, Seen,
     Noticed, vars
<1>2. CASE SpinEnter \/ SpinStep
  BY <1>2, CleanNodePreserves, CollectPreserves, ExecutionPreserves DEF SpinStep
<1>3. CASE Environment
  BY <1>3, AddNodePreserves, EnvironmentPreserves DEF Environment
<1> QED BY <1>1, <1>2, <1>3 DEF Next

\* The inductive invariant of the single-threaded executor holds for any nodes
\* and entities, whenever nodes expire.
THEOREM InductiveInvariant == Spec => []IInv
<1> QED BY InitInv, NextPreserves, PTL DEF Spec

\* The state of the single-threaded executor is well typed.
THEOREM TypeCorrect == Spec => []TypeOK
<1>1. IInv => TypeOK
  BY DEF IInv
<1> QED BY <1>1, InductiveInvariant, PTL

\* The clean-up loop keeps weak_nodes_, guard_conditions_ and the strategy's
\* guard conditions in step.
THEOREM ListsStayInStep == Spec => []GuardsInStep
<1>1. IInv => GuardsInStep
  BY DEF IInv
<1> QED BY <1>1, InductiveInvariant, PTL

\* No guard condition of a node that this collection did not find alive gets
\* into the wait set, whenever nodes expire.
THEOREM NoStaleGuardInWaitSet == Spec => []WaitSetIsFresh
<1>1. IInv => WaitSetIsFresh
  BY DEF IInv, CollectInv, GuardsInStep, WaitSetIsFresh, Seen, Range
<1> QED BY <1>1, InductiveInvariant, PTL

\* The executor chooses with all groups free: none was left marked by an
\* execution, a failed take or a cancel.
THEOREM NoGroupIsLost == Spec => []GroupsFreeWhenChoosing
<1>1. IInv => GroupsFreeWhenChoosing
  BY DEF IInv, TypeOK, TakenInv, GroupsFreeWhenChoosing
<1> QED BY <1>1, InductiveInvariant, PTL
===============================================================================
