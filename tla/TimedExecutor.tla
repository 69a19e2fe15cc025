----------------------------- MODULE TimedExecutor -----------------------------
(***************************************************************************)
(* The single-threaded TimedExecutor (priority_executor.cpp:40-337) and    *)
(* what its memory strategy knows of nodes and their entities              *)
(* (priority_memory_strategy.hpp): which entities are collected, the lists *)
(* of nodes and guard conditions, and the two ways to choose what to run,  *)
(* by the comparator (use_priorities) or kind by kind.                     *)
(*                                                                         *)
(* Nodes are held by weak pointers: the application may let go of one at   *)
(* any time, also between two steps of the executor.  Deadlines are        *)
(* ChainDeadlines' concern, several threads MultiThreadExecutor's.         *)
(***************************************************************************)
EXTENDS Naturals, Sequences, SequencesExt

CONSTANTS
  Nodes,
  Entities,      \* handles of the nodes' entities
  Kind,          \* "timer", "subscription", "service", "client", "waitable"
  NodeOf,        \* the node of an entity; its group is the node's default one
  Configured,    \* entities set_executable_priority or _deadline was called for
  SetSchedule,   \* their schedule type
  SetPriority,   \* their priority
  NoEntity       \* any_executable is empty

Kinds == {"timer", "subscription", "service", "client", "waitable"}

Schedules == {"DEADLINE", "CHAIN_INDEPENDENT_PRIORITY", "CHAIN_AWARE_PRIORITY"}

ASSUME EntityAssumption ==
  /\ Kind \in [Entities -> Kinds]
  /\ NodeOf \in [Entities -> Nodes]
  /\ Configured \subseteq Entities
  /\ SetSchedule \in [Configured -> Schedules]
  /\ SetPriority \in [Configured -> Nat]
  /\ NoEntity \notin Entities

VARIABLES
  pc,              \* where spin() is
  usePriorities,   \* use_priorities
  alive,           \* nodes somebody still holds
  weakNodes,       \* weak_nodes_
  guards,          \* guard_conditions_ of the executor, named by their node
  strategyGuards,  \* guard_conditions_ of the strategy, those of nodes
  next,            \* index in weakNodes of collect_entities, of the clean-up
  invalid,         \* has_invalid_weak_nodes
  handles,         \* entities collected, then those that are ready
  taken,           \* any_executable
  busy,            \* groups marked as taken
  ready,           \* entities with something to run for
  spinning,        \* Executor::spinning
  ok,              \* rclcpp::ok(context_)
  seen             \* (history) nodes found alive in this collection

vars == <<pc, usePriorities, alive, weakNodes, guards, strategyGuards, next,
          invalid, handles, taken, busy, ready, spinning, ok, seen>>

lists == <<weakNodes, guards, strategyGuards>>
flags == <<usePriorities, spinning, ok>>

TypeOK ==
  /\ pc \in {"idle", "loop", "collect", "clean", "wait", "choose", "execute",
            "running"}
  /\ usePriorities \in BOOLEAN
  /\ alive \subseteq Nodes
  /\ weakNodes \in Seq(Nodes) /\ guards \in Seq(Nodes)
  /\ strategyGuards \subseteq Nodes
  /\ next \in 1..Len(weakNodes) + 1
  /\ invalid \in BOOLEAN
  /\ handles \subseteq Entities
  /\ taken \in Entities \union {NoEntity}
  /\ taken # NoEntity <=> pc \in {"execute", "running"}
  /\ busy \subseteq Nodes
  /\ ready \subseteq Entities
  /\ spinning \in BOOLEAN /\ ok \in BOOLEAN
  /\ seen \subseteq Nodes

Init ==
  /\ pc = "idle"
  /\ usePriorities \in BOOLEAN
  /\ alive = Nodes
  /\ weakNodes = <<>> /\ guards = <<>> /\ strategyGuards = {}
  /\ next = 1
  /\ invalid = FALSE
  /\ handles = {}
  /\ taken = NoEntity
  /\ busy = {}
  /\ ready = {}
  /\ spinning = FALSE
  /\ ok = TRUE
  /\ seen = {}

\* The strategy keeps a guard condition once.
AddGuardCondition(g) == strategyGuards' = strategyGuards \union {g}
RemoveGuardCondition(g) == strategyGuards' = strategyGuards \ {g}

\* Executor::add_node, which the experiments call before spin().
AddNode(n) ==
  /\ pc = "idle"
  /\ n \in alive \ Range(weakNodes)
  /\ weakNodes' = Append(weakNodes, n)
  /\ guards' = Append(guards, n)
  /\ AddGuardCondition(n)
  /\ UNCHANGED <<pc, flags, alive, next, invalid, handles, taken, busy, ready,
                 seen>>

-----------------------------------------------------------------------------
(***************************************************************************)
(* spin() and wait_for_work().                                             *)
(***************************************************************************)
ShouldRun == ok /\ spinning

SpinEnter ==
  /\ pc = "idle"
  /\ pc' = "loop"
  /\ spinning' = TRUE
  /\ UNCHANGED <<lists, usePriorities, ok, alive, next, invalid, handles,
                 taken, busy, ready, seen>>

SpinReturn ==
  /\ pc = "loop"
  /\ ~ShouldRun
  /\ pc' = "idle"
  /\ spinning' = FALSE
  /\ UNCHANGED <<lists, usePriorities, ok, alive, next, invalid, handles,
                 taken, busy, ready, seen>>

\* clear_handles; collect_entities begins.
BeginWait ==
  /\ pc = "loop"
  /\ ShouldRun
  /\ pc' = "collect"
  /\ next' = 1
  /\ invalid' = FALSE
  /\ handles' = {}
  /\ seen' = {}
  /\ UNCHANGED <<lists, flags, alive, taken, busy, ready>>

\* Subscriptions and services nobody configured are left out; the other kinds
\* get default settings.
IsCollected(e) == Kind[e] \in {"subscription", "service"} => e \in Configured

\* Mutant: has_invalid_weak_nodes tells of the last node only.
CollectNode_lastOnly ==
  /\ pc = "collect"
  /\ next <= Len(weakNodes)
  /\ invalid' = (weakNodes[next] \notin alive)
  /\ seen' = seen \union ({weakNodes[next]} \intersect alive)
  /\ handles' = handles \union
       {e \in Entities : /\ NodeOf[e] = weakNodes[next]
                         /\ NodeOf[e] \in alive \ busy
                         /\ IsCollected(e)}
  /\ next' = next + 1
  /\ UNCHANGED <<lists, flags, pc, alive, taken, busy, ready>>

CollectNode ==
  /\ pc = "collect"
  /\ next <= Len(weakNodes)
  /\ invalid' = (invalid \/ weakNodes[next] \notin alive)
  /\ seen' = seen \union ({weakNodes[next]} \intersect alive)
  /\ handles' = handles \union
       {e \in Entities : /\ NodeOf[e] = weakNodes[next]
                         /\ NodeOf[e] \in alive \ busy
                         /\ IsCollected(e)}
  /\ next' = next + 1
  /\ UNCHANGED <<lists, flags, pc, alive, taken, busy, ready>>

\* Some node had expired: the lists are gone through again.
StartCleanUp ==
  /\ pc = "collect"
  /\ next > Len(weakNodes)
  /\ invalid
  /\ pc' = "clean"
  /\ next' = 1
  /\ UNCHANGED <<lists, flags, alive, invalid, handles, taken, busy, ready,
                 seen>>

\* Mutant: remove_guard_condition is not called.
CleanNode_guardsLeft ==
  /\ pc = "clean"
  /\ next <= Len(weakNodes)
  /\ IF weakNodes[next] \notin alive
     THEN /\ weakNodes' = RemoveAt(weakNodes, next)
          /\ guards' = RemoveAt(guards, next)
          /\ UNCHANGED <<strategyGuards, next>>
     ELSE /\ next' = next + 1
          /\ UNCHANGED lists
  /\ UNCHANGED <<flags, pc, alive, invalid, handles, taken, busy, ready, seen>>

\* Mutant: both iterators move on after an erasure, too.
CleanNode_skipsOne ==
  /\ pc = "clean"
  /\ next <= Len(weakNodes)
  /\ next' = next + 1
  /\ IF weakNodes[next] \notin alive
     THEN /\ weakNodes' = RemoveAt(weakNodes, next)
          /\ guards' = RemoveAt(guards, next)
          /\ RemoveGuardCondition(guards[next])
     ELSE UNCHANGED lists
  /\ UNCHANGED <<flags, pc, alive, invalid, handles, taken, busy, ready, seen>>

\* A node that is expired by now is erased with its guard condition, and the
\* next one takes its place.
CleanNode ==
  /\ pc = "clean"
  /\ next <= Len(weakNodes)
  /\ IF weakNodes[next] \notin alive
     THEN /\ weakNodes' = RemoveAt(weakNodes, next)
          /\ guards' = RemoveAt(guards, next)
          /\ RemoveGuardCondition(guards[next])
          /\ UNCHANGED next
     ELSE /\ next' = next + 1
          /\ UNCHANGED lists
  /\ UNCHANGED <<flags, pc, alive, invalid, handles, taken, busy, ready, seen>>

\* The wait set gets the handles and the strategy's guard conditions.
FillWaitSet ==
  /\ pc = "clean" \/ (pc = "collect" /\ ~invalid)
  /\ next > Len(weakNodes)
  /\ pc' = "wait"
  /\ UNCHANGED <<lists, flags, alive, next, invalid, handles, taken, busy,
                 ready, seen>>

\* rcl_wait for at most 1 ms; remove_null_handles.
Wait ==
  /\ pc = "wait"
  /\ pc' = "choose"
  /\ handles' = handles \intersect ready
  /\ UNCHANGED <<lists, flags, alive, next, invalid, taken, busy, ready, seen>>

-----------------------------------------------------------------------------
(***************************************************************************)
(* get_next_ready_executable().                                            *)
(***************************************************************************)
Schedule(e) ==
  IF e \in Configured THEN SetSchedule[e] ELSE "CHAIN_INDEPENDENT_PRIORITY"

Priority(e) == IF e \in Configured THEN SetPriority[e] ELSE 0

\* PriorityExecutableComparator: a is to run after b.  Two DEADLINE entities are
\* left in any order (ChainDeadlines has it).
RunsAfter(a, b) ==
  \/ Schedule(a) # "DEADLINE" /\ Schedule(b) = "DEADLINE"
  \/ /\ Schedule(a) = "CHAIN_AWARE_PRIORITY"
     /\ Schedule(b) = "CHAIN_INDEPENDENT_PRIORITY"
  \/ /\ Schedule(a) = "CHAIN_INDEPENDENT_PRIORITY" /\ Schedule(b) = Schedule(a)
     /\ Priority(a) > Priority(b)
  \/ /\ Schedule(a) = "CHAIN_AWARE_PRIORITY" /\ Schedule(b) = Schedule(a)
     /\ Priority(a) < Priority(b)

\* With priorities: what is at the top of all_executables_.
IsTop(e) == e \in handles /\ \A d \in handles : ~RunsAfter(e, d)

\* The entity is found through its node, and its group is free.  Settings of a
\* waitable hold no pointer to it, so it is never found.
Found(e) == NodeOf[e] \in alive /\ Kind[e] # "waitable"
Free(e) == NodeOf[e] \notin busy

\* Without: the kinds in the order they are tried.
Rank(kind) == SelectInSeq(
  <<"timer", "subscription", "service", "client", "waitable">>,
  LAMBDA k : k = kind)

Takeable(e) == e \in handles /\ NodeOf[e] \in alive /\ Free(e)

\* Mutant: get_next_waitable is not tried.
IsFirst_noWaitables(e) ==
  /\ Takeable(e)
  /\ Kind[e] # "waitable"
  /\ \A d \in handles : Takeable(d) => Rank(Kind[e]) <= Rank(Kind[d])

IsFirst(e) ==
  /\ Takeable(e)
  /\ \A d \in handles : Takeable(d) => Rank(Kind[e]) <= Rank(Kind[d])

\* Handles that are left are not read again before clear_handles.
Take(e) ==
  /\ pc = "choose"
  /\ IF usePriorities THEN IsTop(e) /\ Found(e) /\ Free(e) ELSE IsFirst(e)
  /\ pc' = "execute"
  /\ taken' = e
  /\ busy' = busy \union {NodeOf[e]}
  /\ handles' = {}
  /\ UNCHANGED <<lists, flags, alive, next, invalid, ready, seen>>

\* The group is taken, or its node goes between the look-up of the entity and
\* that of the group: the next one is tried.
Skip(e) ==
  /\ pc = "choose"
  /\ usePriorities
  /\ IsTop(e)
  /\ Found(e)
  /\ \/ ~Free(e) /\ UNCHANGED alive
     \/ alive' = alive \ {NodeOf[e]}
  /\ handles' = handles \ {e}
  /\ UNCHANGED <<lists, flags, pc, next, invalid, taken, busy, ready, seen>>

\* The entity is not found: get_next_executable returns with nothing.
TakeNothing(e) ==
  /\ pc = "choose"
  /\ usePriorities
  /\ IsTop(e)
  /\ ~Found(e)
  /\ pc' = "loop"
  /\ handles' = {}
  /\ UNCHANGED <<lists, flags, alive, next, invalid, taken, busy, ready, seen>>

ChooseNone ==
  /\ pc = "choose"
  /\ IF usePriorities THEN handles = {} ELSE \A e \in handles : ~IsFirst(e)
  /\ pc' = "loop"
  /\ handles' = {}
  /\ UNCHANGED <<lists, flags, alive, next, invalid, taken, busy, ready, seen>>

-----------------------------------------------------------------------------
(***************************************************************************)
(* Execution.                                                              *)
(***************************************************************************)
\* any_executable goes out of scope, and its group is free again.
Destruct ==
  /\ pc' = "loop"
  /\ taken' = NoEntity
  /\ busy' = busy \ {NodeOf[taken]}

WillExecute == Kind[taken] = "subscription" \/ spinning

\* execute_any_executable does nothing once the executor was cancelled.
SkipCancelled ==
  /\ pc = "execute"
  /\ ~WillExecute
  /\ Destruct
  /\ UNCHANGED <<lists, flags, alive, next, invalid, handles, ready, seen>>

\* The callback starts, or (a failed take) there is nothing to start it with.
Execute ==
  /\ pc = "execute"
  /\ WillExecute
  /\ ready' = ready \ {taken}
  /\ \/ pc' = "running" /\ UNCHANGED <<taken, busy>>
     \/ Kind[taken] # "timer" /\ Destruct
  /\ UNCHANGED <<lists, flags, alive, next, invalid, handles, seen>>

\* Mutant: any_executable is declared outside the loop.
EndCallback_outlived ==
  /\ pc = "running"
  /\ pc' = "loop"
  /\ UNCHANGED <<lists, flags, alive, next, invalid, handles, taken, busy,
                 ready, seen>>

EndCallback ==
  /\ pc = "running"
  /\ Destruct
  /\ UNCHANGED <<lists, flags, alive, next, invalid, handles, ready, seen>>

-----------------------------------------------------------------------------
(***************************************************************************)
(* The environment.                                                        *)
(***************************************************************************)
BecomeReady(e) ==
  /\ NodeOf[e] \in alive
  /\ e \notin ready
  /\ ready' = ready \union {e}
  /\ UNCHANGED <<lists, flags, pc, alive, next, invalid, handles, taken, busy,
                 seen>>

\* The application lets go of a node.
NodeExpires(n) ==
  /\ n \in alive
  /\ alive' = alive \ {n}
  /\ UNCHANGED <<lists, flags, pc, next, invalid, handles, taken, busy, ready,
                 seen>>

Cancel ==
  /\ spinning
  /\ spinning' = FALSE
  /\ UNCHANGED <<lists, usePriorities, ok, pc, alive, next, invalid, handles,
                 taken, busy, ready, seen>>

Shutdown ==
  /\ ok
  /\ ok' = FALSE
  /\ UNCHANGED <<lists, usePriorities, spinning, pc, alive, next, invalid,
                 handles, taken, busy, ready, seen>>

-----------------------------------------------------------------------------
SpinStep ==
  \/ SpinReturn
  \/ BeginWait
  \/ CollectNode
  \/ StartCleanUp
  \/ CleanNode
  \/ FillWaitSet
  \/ Wait
  \/ \E e \in Entities : Take(e) \/ Skip(e) \/ TakeNothing(e)
  \/ ChooseNone
  \/ SkipCancelled
  \/ Execute
  \/ EndCallback

Environment ==
  \/ \E n \in Nodes : AddNode(n) \/ NodeExpires(n)
  \/ \E e \in Entities : BecomeReady(e)
  \/ Cancel
  \/ Shutdown

Next == SpinEnter \/ SpinStep \/ Environment

Spec == Init /\ [][Next]_vars

\* The thread in spin() runs on, and callbacks return.
FairSpec == Spec /\ WF_vars(SpinStep)

-----------------------------------------------------------------------------
(***************************************************************************)
(* Properties.                                                             *)
(***************************************************************************)
(***************************************************************************)
(* weak_nodes_ and guard_conditions_ are erased in step                    *)
(* (priority_executor.cpp:195-210): the i-th guard condition is the i-th   *)
(* node's, and the strategy has just those.                                *)
(***************************************************************************)
GuardsInStep ==
  /\ guards = weakNodes
  /\ strategyGuards = Range(guards)

(***************************************************************************)
(* The wait set is filled only with guard conditions of nodes this         *)
(* collection found alive: "Clean up any invalid nodes, if they were       *)
(* detected" (priority_executor.cpp:192) misses none of them.              *)
(***************************************************************************)
WaitSetIsFresh == pc = "wait" => strategyGuards \subseteq seen

(***************************************************************************)
(* assert(can_be_taken_from().load()) at priority_executor.cpp:328: no     *)
(* group is left marked as taken, whatever became of the last executable.  *)
(***************************************************************************)
GroupsFreeWhenChoosing == pc = "choose" => busy = {}

\* Why these hold: no node is in the lists twice, ...
NodesOnce ==
  \A i, j \in DOMAIN weakNodes : weakNodes[i] = weakNodes[j] => i = j

\* ... a node behind `next' that this collection did not find alive has made it
\* invalid and is still there to be erased, ...
Seen(n) == n \in seen
Noticed(n) == invalid /\ n \notin alive

CollectInv ==
  /\ pc = "collect" =>
       \A i \in 1..next - 1 : Seen(weakNodes[i]) \/ Noticed(weakNodes[i])
  /\ pc = "clean" => \A i \in DOMAIN weakNodes :
       Seen(weakNodes[i]) \/ (Noticed(weakNodes[i]) /\ i >= next)
  /\ pc = "wait" => \A i \in DOMAIN weakNodes : Seen(weakNodes[i])

\* ... and only the group of any_executable is marked as taken.
TakenInv == busy = IF taken = NoEntity THEN {} ELSE {NodeOf[taken]}

(***************************************************************************)
(* These together are inductive (TimedExecutorProofs): no step of spin()   *)
(* (priority_executor.cpp:40-252), of an expiring node or of a cancel      *)
(* breaks them.                                                            *)
(***************************************************************************)
IInv == TypeOK /\ GuardsInStep /\ NodesOnce /\ CollectInv /\ TakenInv

(***************************************************************************)
(* A node that has expired is dropped from the lists, unless spin() ends.  *)
(***************************************************************************)
ExpiredNodesAreDropped ==
  \A n \in Nodes :
    (n \notin alive /\ ShouldRun)
      ~> (n \notin Range(weakNodes) \union strategyGuards \/ ~ShouldRun)

(***************************************************************************)
(* "This function will block until work comes in, execute it, and then     *)
(* repeat the process until canceled" (priority_executor.hpp:59): while    *)
(* there is work something is eventually taken to be executed (a take that *)
(* then fails counts: the middleware may refuse every one).                *)
(***************************************************************************)
Work ==
  {e \in ready : /\ NodeOf[e] \in alive \intersect Range(weakNodes)
                 /\ IsCollected(e)}

Executing == taken # NoEntity

WorkIsExecuted ==
  (Work # {} /\ ShouldRun) ~> (Work = {} \/ ~ShouldRun \/ Executing)

(***************************************************************************)
(* The same, but with priorities only as long as no waitable is ready      *)
(* (priority_memory_strategy.hpp:736-763).                                 *)
(***************************************************************************)
WaitableInTheWay == usePriorities /\ \E e \in Work : Kind[e] = "waitable"

WorkIsExecutedOrBlocked ==
  (Work # {} /\ ShouldRun)
    ~> (Work = {} \/ ~ShouldRun \/ Executing \/ WaitableInTheWay)
===============================================================================
