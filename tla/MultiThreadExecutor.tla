-------------------------- MODULE MultiThreadExecutor --------------------------
(***************************************************************************)
(* The multi-threaded executor MultiThreadTimedExecutor                    *)
(* (priority_executor.cpp, lines 347-710): the threads that spin() starts, *)
(* the two-priority mutex wait_mutex_ under which one thread at a time     *)
(* collects the waitable entities, waits for them and takes one of them,   *)
(* the flag can_be_taken_from of every callback group, the set             *)
(* scheduled_timers_, and the two flags that end it all: the executor's    *)
(* spinning and the context's ok().                                        *)
(*                                                                         *)
(* Which ready entity is taken (the memory strategy's order) is left open  *)
(* here: Select may take any of them.  A callback's body is the interval   *)
(* between StartCallback and EndCallback; what it does to the executor -   *)
(* publishing, cancelling, shutting down - is an action of the             *)
(* environment that may happen at any time.                                *)
(***************************************************************************)
EXTENDS Naturals, FiniteSets

CONSTANTS
  Callers,        \* application threads that may call spin()
  Workers,        \* the std::threads the calls of spin() create
  SpawnedBy,      \* the caller whose spin() creates a worker
  Callbacks,      \* timers, subscriptions, services and clients
  Timers,         \* the timers among them
  Subscriptions,  \* the subscriptions among them
  Groups,         \* callback groups
  MutuallyExclusive,  \* the groups of that type; the others are Reentrant
  GroupOf,        \* the group of a callback
  MayOverrun,     \* may a timer be due again before its last run is over?
  MayCancel,      \* may Executor::cancel() be called?
  NoCallback      \* any_executable is empty

Threads == Callers \union Workers

ASSUME ThreadAssumption ==
  /\ Callers \intersect Workers = {}
  /\ SpawnedBy \in [Workers -> Callers]

ASSUME CallbackAssumption ==
  /\ Timers \subseteq Callbacks
  /\ Subscriptions \subseteq Callbacks
  /\ Timers \intersect Subscriptions = {}
  /\ MutuallyExclusive \subseteq Groups
  /\ GroupOf \in [Callbacks -> Groups]
  /\ NoCallback \notin Callbacks

ASSUME SwitchAssumption == MayOverrun \in BOOLEAN /\ MayCancel \in BOOLEAN

VARIABLES
  pc,              \* where each thread is, see Labels
  anyExecutable,   \* what each thread has taken (run()'s any_executable)
  canBeTaken,      \* can_be_taken_from() of each callback group
  scheduledTimers, \* scheduled_timers_
  lockHeld,        \* wait_mutex_ is taken
  toScan,          \* groups collect_entities() has yet to look at
  collected,       \* handles in the memory strategy
  ready,           \* messages waiting at a subscription, timers that are due
  spinning,        \* Executor::spinning
  ok               \* rclcpp::ok(context_)

vars == <<pc, anyExecutable, canBeTaken, scheduledTimers, lockHeld, toScan,
          collected, ready, spinning, ok>>

(***************************************************************************)
(* Labels a thread goes through.  "idle" is a caller outside spin() or a   *)
(* worker that is not running; "thrown" a caller whose spin() has thrown;  *)
(* "highWait" a waiter for the high-priority lock.                         *)
(***************************************************************************)
UnderLock == {"scan", "select", "schedule"}

Labels == UnderLock \union
  {"idle", "thrown", "start", "join", "loop", "lock", "discard", "execute",
   "running", "release", "unschedule", "highWait", "reset"}

TypeOK ==
  /\ pc \in [Threads -> Labels]
  /\ anyExecutable \in [Threads -> Callbacks \union {NoCallback}]
  /\ canBeTaken \in [Groups -> BOOLEAN]
  /\ scheduledTimers \subseteq Timers
  /\ lockHeld \in BOOLEAN
  /\ toScan \subseteq Groups
  /\ collected \subseteq Callbacks
  /\ ready \subseteq Callbacks
  /\ spinning \in BOOLEAN
  /\ ok \in BOOLEAN

Init ==
  /\ pc = [t \in Threads |-> "idle"]
  /\ anyExecutable = [t \in Threads |-> NoCallback]
  /\ canBeTaken = [g \in Groups |-> TRUE]
  /\ scheduledTimers = {}
  /\ lockHeld = FALSE
  /\ toScan = {}
  /\ collected = {}
  /\ ready = {}
  /\ spinning = FALSE
  /\ ok = TRUE

Transition(t, from, to) ==
  /\ pc[t] = from
  /\ pc' = [pc EXCEPT ![t] = to]

\* The group the thread's any_executable refers to.
GroupTaken(t) == GroupOf[anyExecutable[t]]

-----------------------------------------------------------------------------
(***************************************************************************)
(* spin()                                                                  *)
(***************************************************************************)
\* (mutants: one of the two flags is not tested)
ShouldRun_contextOnly == ok
ShouldRun_spinningOnly == spinning

ShouldRun == ok /\ spinning

\* A low-priority lock of wait_mutex_ is granted only while no thread waits
\* for a high-priority one.
LowLockGranted == ~lockHeld /\ \A u \in Threads : pc[u] # "highWait"

\* (mutant: spinning is stored, not exchanged)
SpinEnter_unchecked(c) ==
  /\ Transition(c, "idle", "start")
  /\ spinning' = TRUE
  /\ UNCHANGED <<anyExecutable, canBeTaken, scheduledTimers, lockHeld, toScan,
                 collected, ready, ok>>

SpinEnter(c) ==
  /\ ~spinning
  /\ Transition(c, "idle", "start")
  /\ spinning' = TRUE
  /\ UNCHANGED <<anyExecutable, canBeTaken, scheduledTimers, lockHeld, toScan,
                 collected, ready, ok>>

\* spinning.exchange(true) was true already: std::runtime_error.
SpinRefused(c) ==
  /\ spinning
  /\ Transition(c, "idle", "thrown")
  /\ UNCHANGED <<anyExecutable, canBeTaken, scheduledTimers, lockHeld, toScan,
                 collected, ready, spinning, ok>>

\* The workers are created under the low-priority lock; then the caller
\* enters run() itself.
StartThreads(c) ==
  /\ pc[c] = "start"
  /\ LowLockGranted
  /\ pc' = [t \in Threads |->
              IF t = c \/ (t \in Workers /\ SpawnedBy[t] = c)
              THEN "loop" ELSE pc[t]]
  /\ UNCHANGED <<anyExecutable, canBeTaken, scheduledTimers, lockHeld, toScan,
                 collected, ready, spinning, ok>>

\* All workers joined; the scope exit clears spinning.
JoinThreads(c) ==
  /\ \A w \in Workers : SpawnedBy[w] = c => pc[w] = "idle"
  /\ Transition(c, "join", "idle")
  /\ spinning' = FALSE
  /\ UNCHANGED <<anyExecutable, canBeTaken, scheduledTimers, lockHeld, toScan,
                 collected, ready, ok>>

-----------------------------------------------------------------------------
(***************************************************************************)
(* run(): the loop head and the part under the low-priority lock.          *)
(***************************************************************************)
AfterRun(t) == IF t \in Callers THEN "join" ELSE "idle"

LoopTest(t) ==
  /\ Transition(t, "loop", IF ShouldRun THEN "lock" ELSE AfterRun(t))
  /\ UNCHANGED <<anyExecutable, canBeTaken, scheduledTimers, lockHeld, toScan,
                 collected, ready, spinning, ok>>

\* The flags are tested again under the lock; run() returns if either is down.
RecheckReturn(t) ==
  /\ LowLockGranted
  /\ ~ShouldRun
  /\ Transition(t, "lock", AfterRun(t))
  /\ UNCHANGED <<anyExecutable, canBeTaken, scheduledTimers, lockHeld, toScan,
                 collected, ready, spinning, ok>>

\* (mutant: the lock is not taken)
Lock_unlocked(t) ==
  /\ ShouldRun
  /\ Transition(t, "lock", "scan")
  /\ toScan' = Groups
  /\ collected' = {}
  /\ UNCHANGED <<anyExecutable, canBeTaken, scheduledTimers, lockHeld, ready,
                 spinning, ok>>

\* Otherwise get_next_executable -> wait_for_work: clear_handles.
Lock(t) ==
  /\ LowLockGranted
  /\ ShouldRun
  /\ Transition(t, "lock", "scan")
  /\ lockHeld' = TRUE
  /\ toScan' = Groups
  /\ collected' = {}
  /\ UNCHANGED <<anyExecutable, canBeTaken, scheduledTimers, ready, spinning,
                 ok>>

\* collect_entities reads the flag of one group after the other, while other
\* threads may release theirs.
CollectGroup(t, g) ==
  /\ pc[t] = "scan"
  /\ g \in toScan
  /\ toScan' = toScan \ {g}
  /\ collected' = collected \union
       {c \in Callbacks : GroupOf[c] = g /\ canBeTaken[g]}
  /\ UNCHANGED <<pc, anyExecutable, canBeTaken, scheduledTimers, lockHeld,
                 ready, spinning, ok>>

\* rcl_wait for at most 1 ms, then remove_null_handles.
Wait(t) ==
  /\ toScan = {}
  /\ Transition(t, "scan", "select")
  /\ collected' = collected \intersect ready
  /\ UNCHANGED <<anyExecutable, canBeTaken, scheduledTimers, lockHeld, toScan,
                 ready, spinning, ok>>

\* The strategy skips entries whose group is not free (any more).
Candidates == {c \in collected : canBeTaken[GroupOf[c]]}

\* get_next_executable found nothing: continue.  (Handles that were not taken
\* are never read again before the next clear_handles, so they are forgotten
\* here with the lock.)
SelectNone(t) ==
  /\ Candidates = {}
  /\ Transition(t, "select", "loop")
  /\ lockHeld' = FALSE
  /\ collected' = {}
  /\ UNCHANGED <<anyExecutable, canBeTaken, scheduledTimers, toScan, ready,
                 spinning, ok>>

\* (mutant: the group is not marked)
Select_unmarked(t, c) ==
  /\ c \in Candidates
  /\ Transition(t, "select", "schedule")
  /\ anyExecutable' = [anyExecutable EXCEPT ![t] = c]
  /\ collected' = collected \ {c}
  /\ UNCHANGED <<canBeTaken, scheduledTimers, lockHeld, toScan, ready, spinning,
                 ok>>

\* get_next_ready_executable: a mutually exclusive group is marked as taken.
Select(t, c) ==
  /\ c \in Candidates
  /\ Transition(t, "select", "schedule")
  /\ anyExecutable' = [anyExecutable EXCEPT ![t] = c]
  /\ canBeTaken' = [canBeTaken EXCEPT ![GroupOf[c]] =
                      GroupOf[c] \notin MutuallyExclusive]
  /\ collected' = collected \ {c}
  /\ UNCHANGED <<scheduledTimers, lockHeld, toScan, ready, spinning, ok>>

\* (mutants: scheduled_timers_ is not consulted; not written; gets everything)
Leave(t) ==
  /\ Transition(t, "schedule", "execute")
  /\ lockHeld' = FALSE
  /\ collected' = {}
  /\ UNCHANGED <<anyExecutable, canBeTaken, toScan, ready, spinning, ok>>

Schedule_unguarded(t) ==
  /\ Leave(t)
  /\ scheduledTimers' =
       scheduledTimers \union ({anyExecutable[t]} \intersect Timers)

Schedule_forgotten(t) ==
  /\ anyExecutable[t] \notin scheduledTimers
  /\ Leave(t)
  /\ UNCHANGED scheduledTimers

Schedule_all(t) ==
  /\ anyExecutable[t] \notin scheduledTimers
  /\ Leave(t)
  /\ scheduledTimers' = scheduledTimers \union {anyExecutable[t]}

\* Not a timer, or a timer no other thread is busy with: leave the lock and
\* execute it.
Schedule(t) ==
  /\ anyExecutable[t] \notin scheduledTimers
  /\ Transition(t, "schedule", "execute")
  /\ scheduledTimers' =
       scheduledTimers \union ({anyExecutable[t]} \intersect Timers)
  /\ lockHeld' = FALSE
  /\ collected' = {}
  /\ UNCHANGED <<anyExecutable, canBeTaken, toScan, ready, spinning, ok>>

\* Another thread is still busy with this timer: free its group, continue.
\* any_executable keeps its reference to the group.
SkipScheduled(t) ==
  /\ anyExecutable[t] \in scheduledTimers
  /\ Transition(t, "schedule", "discard")
  /\ canBeTaken' = [canBeTaken EXCEPT ![GroupTaken(t)] = TRUE]
  /\ lockHeld' = FALSE
  /\ collected' = {}
  /\ UNCHANGED <<anyExecutable, scheduledTimers, toScan, ready, spinning, ok>>

\* ~AnyExecutable at the end of the loop's scope, after the lock is gone,
\* frees the group it still refers to.
Discard(t) ==
  /\ Transition(t, "discard", "loop")
  /\ canBeTaken' = [canBeTaken EXCEPT ![GroupTaken(t)] = TRUE]
  /\ anyExecutable' = [anyExecutable EXCEPT ![t] = NoCallback]
  /\ UNCHANGED <<scheduledTimers, lockHeld, toScan, collected, ready, spinning,
                 ok>>

-----------------------------------------------------------------------------
(***************************************************************************)
(* run(): execution, outside the lock.                                     *)
(***************************************************************************)
AfterExecute(t) ==
  IF anyExecutable[t] \in Timers THEN "unschedule" ELSE "reset"

\* execute_any_executable returns at once when the executor was cancelled;
\* execute_subscription does not look.
SkipCancelled(t) ==
  /\ anyExecutable[t] \notin Subscriptions
  /\ ~spinning
  /\ Transition(t, "execute", AfterExecute(t))
  /\ UNCHANGED <<anyExecutable, canBeTaken, scheduledTimers, lockHeld, toScan,
                 collected, ready, spinning, ok>>

WillExecute(t) == anyExecutable[t] \in Subscriptions \/ spinning

\* The message (request, response) is taken, or the timer is advanced to its
\* next period whether it is due or not; the user's callback begins.
StartCallback(t) ==
  /\ WillExecute(t)
  /\ anyExecutable[t] \in ready \union Timers
  /\ Transition(t, "execute", "running")
  /\ ready' = ready \ {anyExecutable[t]}
  /\ UNCHANGED <<anyExecutable, canBeTaken, scheduledTimers, lockHeld, toScan,
                 collected, spinning, ok>>

\* take_and_do_error_handling: nothing was taken, there is no callback.
FailedTake(t) ==
  /\ WillExecute(t)
  /\ anyExecutable[t] \notin ready \union Timers
  /\ Transition(t, "execute", "release")
  /\ UNCHANGED <<anyExecutable, canBeTaken, scheduledTimers, lockHeld, toScan,
                 collected, ready, spinning, ok>>

EndCallback(t) ==
  /\ Transition(t, "running", "release")
  /\ UNCHANGED <<anyExecutable, canBeTaken, scheduledTimers, lockHeld, toScan,
                 collected, ready, spinning, ok>>

\* (mutant: execute_subscription gets a reference, and no copy frees the group)
ReleaseGroup_byReference(t) ==
  /\ Transition(t, "release", AfterExecute(t))
  /\ canBeTaken' = [canBeTaken EXCEPT ![GroupTaken(t)] =
                      @ \/ anyExecutable[t] \notin Subscriptions]
  /\ UNCHANGED <<anyExecutable, scheduledTimers, lockHeld, toScan, collected,
                 ready, spinning, ok>>

\* The end of execute_any_executable, or the destructor of the copy of
\* any_executable that execute_subscription got by value.
ReleaseGroup(t) ==
  /\ Transition(t, "release", AfterExecute(t))
  /\ canBeTaken' = [canBeTaken EXCEPT ![GroupTaken(t)] = TRUE]
  /\ UNCHANGED <<anyExecutable, scheduledTimers, lockHeld, toScan, collected,
                 ready, spinning, ok>>

\* The high-priority lock is not free: wait for it, ahead of every
\* low-priority waiter.
HighWait(t) ==
  /\ lockHeld
  /\ Transition(t, "unschedule", "highWait")
  /\ UNCHANGED <<anyExecutable, canBeTaken, scheduledTimers, lockHeld, toScan,
                 collected, ready, spinning, ok>>

\* (mutant: the timer is erased without the lock)
Unschedule_unlocked(t) ==
  /\ Transition(t, "unschedule", "reset")
  /\ scheduledTimers' = scheduledTimers \ {anyExecutable[t]}
  /\ UNCHANGED <<anyExecutable, canBeTaken, lockHeld, toScan, collected, ready,
                 spinning, ok>>

\* Under the high-priority lock: erase the timer from scheduled_timers_.
Unschedule(t) ==
  /\ ~lockHeld
  /\ \/ Transition(t, "unschedule", "reset")
     \/ Transition(t, "highWait", "reset")
  /\ scheduledTimers' = scheduledTimers \ {anyExecutable[t]}
  /\ UNCHANGED <<anyExecutable, canBeTaken, lockHeld, toScan, collected, ready,
                 spinning, ok>>

\* callback_group.reset(), so that the destructor frees nothing.
Reset(t) ==
  /\ Transition(t, "reset", "loop")
  /\ anyExecutable' = [anyExecutable EXCEPT ![t] = NoCallback]
  /\ UNCHANGED <<canBeTaken, scheduledTimers, lockHeld, toScan, collected,
                 ready, spinning, ok>>

-----------------------------------------------------------------------------
(***************************************************************************)
(* The environment.                                                        *)
(***************************************************************************)
\* A message, request or response arrives.  Topics keep the last one only.
MessageArrives(c) ==
  /\ c \in Callbacks \ Timers
  /\ c \notin ready
  /\ ready' = ready \union {c}
  /\ UNCHANGED <<pc, anyExecutable, canBeTaken, scheduledTimers, lockHeld,
                 toScan, collected, spinning, ok>>

\* A timer's next call time passes.  Without overruns that is after the whole
\* of its previous execution.
TimerDue(c) ==
  /\ c \in Timers \ ready
  /\ MayOverrun \/ c \notin scheduledTimers
  /\ ready' = ready \union {c}
  /\ UNCHANGED <<pc, anyExecutable, canBeTaken, scheduledTimers, lockHeld,
                 toScan, collected, spinning, ok>>

Cancel ==
  /\ MayCancel
  /\ spinning
  /\ spinning' = FALSE
  /\ UNCHANGED <<pc, anyExecutable, canBeTaken, scheduledTimers, lockHeld,
                 toScan, collected, ready, ok>>

Shutdown ==
  /\ ok
  /\ ok' = FALSE
  /\ UNCHANGED <<pc, anyExecutable, canBeTaken, scheduledTimers, lockHeld,
                 toScan, collected, ready, spinning>>

-----------------------------------------------------------------------------
SpinStep(c) == StartThreads(c) \/ JoinThreads(c)

LockedStep(t) ==
  \/ \E g \in Groups : CollectGroup(t, g)
  \/ Wait(t)
  \/ SelectNone(t)
  \/ \E c \in Callbacks : Select(t, c)
  \/ Schedule(t)
  \/ SkipScheduled(t)

RunStep(t) ==
  \/ LoopTest(t)
  \/ RecheckReturn(t)
  \/ Lock(t)
  \/ LockedStep(t)
  \/ Discard(t)
  \/ SkipCancelled(t)
  \/ StartCallback(t)
  \/ FailedTake(t)
  \/ EndCallback(t)
  \/ ReleaseGroup(t)
  \/ HighWait(t)
  \/ Unschedule(t)
  \/ Reset(t)

Environment ==
  \/ \E c \in Callbacks : MessageArrives(c) \/ TimerDue(c)
  \/ Cancel
  \/ Shutdown

Next ==
  \/ \E c \in Callers : SpinEnter(c) \/ SpinRefused(c) \/ SpinStep(c)
  \/ \E t \in Threads : RunStep(t)
  \/ Environment

Spec == Init /\ [][Next]_vars

(***************************************************************************)
(* Threads are preemptively scheduled and callbacks return, so a thread    *)
(* that can go on eventually does; nothing obliges the application to call *)
(* spin() or the environment to send anything.                             *)
(***************************************************************************)
Fairness ==
  /\ \A c \in Callers : WF_vars(SpinStep(c))
  /\ \A t \in Threads : WF_vars(RunStep(t))

FairSpec == Spec /\ Fairness

-----------------------------------------------------------------------------
(***************************************************************************)
(* Properties.                                                             *)
(***************************************************************************)
Executing(t) == pc[t] = "running"

(***************************************************************************)
(* Callbacks of one mutually exclusive group never run at the same time:   *)
(* what can_be_taken_from is for (priority_executor.cpp:696-706).          *)
(***************************************************************************)
GroupMutex ==
  \A t, u \in Threads :
    /\ t # u
    /\ Executing(t)
    /\ Executing(u)
    /\ GroupTaken(t) = GroupTaken(u)
    => GroupTaken(t) \notin MutuallyExclusive

(***************************************************************************)
(* "Guard against multiple threads getting the same timer"                 *)
(* (priority_executor.cpp:594): between leaving the lock and erasing the   *)
(* timer from scheduled_timers_, no two threads have the same timer.       *)
(***************************************************************************)
Busy == {"execute", "running", "release", "unschedule", "highWait"}

NoSharedTimer ==
  \A t, u \in Threads :
    /\ t # u
    /\ pc[t] \in Busy
    /\ pc[u] \in Busy
    /\ anyExecutable[t] = anyExecutable[u]
    => anyExecutable[t] \notin Timers

(***************************************************************************)
(* A timer that is about to be executed is due: rcl_timer_call is never    *)
(* made on a stale readiness, which would skip a period.  The readiness    *)
(* was seen by rcl_wait, possibly while another thread was still about to  *)
(* call the same timer (priority_executor.cpp:521-537, 593-617).           *)
(***************************************************************************)
TimerCalledWhenDue ==
  \A t \in Threads :
    pc[t] = "execute" /\ anyExecutable[t] \in Timers
    => anyExecutable[t] \in ready

(***************************************************************************)
(* assert(can_be_taken_from().load()) at priority_executor.cpp:702, and    *)
(* more: from the moment collect_entities has read a group as free until   *)
(* one of its callbacks is chosen, nobody else takes the group, although   *)
(* can_be_taken_from is written without a lock elsewhere.                  *)
(***************************************************************************)
Choosing == \E t \in Threads : pc[t] \in {"scan", "select"}

CollectedStaysFree ==
  Choosing => \A c \in collected : canBeTaken[GroupOf[c]]

(***************************************************************************)
(* "This is reset to true either when the any_executable is executed or    *)
(* when the any_executable is destructued" (priority_executor.cpp:704):    *)
(* a group is marked as taken only while some thread has one of its        *)
(* callbacks in hand.                                                      *)
(***************************************************************************)
InHand == {"schedule", "execute", "running", "release"}

GroupNotLost ==
  \A g \in Groups :
    ~canBeTaken[g] => \E t \in Threads : pc[t] \in InHand /\ GroupTaken(t) = g

(***************************************************************************)
(* "spin() called while already spinning" throws                           *)
(* (priority_executor.cpp:639-641): two calls of spin() never overlap.     *)
(***************************************************************************)
InSpin(c) ==
  \/ pc[c] \notin {"idle", "thrown"}
  \/ \E w \in Workers : SpawnedBy[w] = c /\ pc[w] # "idle"

OneSpin == \A c, d \in Callers : InSpin(c) /\ InSpin(d) => c = d

(***************************************************************************)
(* "This function will block until work comes in, execute it, and then     *)
(* repeat the process until canceled" (priority_executor.hpp:59): while    *)
(* there is work, some callback eventually runs, unless the executor is    *)
(* told to stop.                                                           *)
(***************************************************************************)
WorkIsExecuted ==
  (ready # {} /\ ShouldRun)
    ~> (ready = {} \/ ~ShouldRun \/ \E t \in Threads : Executing(t))

(***************************************************************************)
(* After rclcpp::shutdown() every call of spin() that is under way         *)
(* returns: its workers leave run(), are joined, and the caller is out.    *)
(***************************************************************************)
ShutdownEndsSpin == \A c \in Callers : ~ok ~> ~InSpin(c)

(***************************************************************************)
(* spin() "may be interrupt by a call to rclcpp::Executor::cancel()"       *)
(* (priority_executor.hpp:61): once spinning is cleared while a call of    *)
(* spin() is past its start, that call returns, or another call sets       *)
(* spinning again before all threads of the first one have seen it         *)
(* (priority_executor.cpp:576, 639).                                       *)
(***************************************************************************)
CancelEndsSpin ==
  \A c \in Callers : (~spinning /\ InSpin(c)) ~> (~InSpin(c) \/ spinning)

-----------------------------------------------------------------------------
(***************************************************************************)
(* What all this amounts to: the executor implements CallbackDispatch,     *)
(* where starting a callback is one step.  The callbacks being run are     *)
(* those between StartCallback and EndCallback.                            *)
(***************************************************************************)
Running ==
  [t \in Threads |-> IF Executing(t) THEN anyExecutable[t] ELSE NoCallback]

Dispatch == INSTANCE CallbackDispatch WITH running <- Running

\* Every step of the executor is a step of CallbackDispatch or leaves it alone.
ImplementsDispatch == Dispatch!Spec

-----------------------------------------------------------------------------
(***************************************************************************)
(* The inductive invariant, in parts.                                      *)
(***************************************************************************)
\* The lock has at most one holder.
LockInv ==
  /\ \A t \in Threads : pc[t] \in UnderLock => lockHeld
  /\ \A t, u \in Threads :
       pc[t] \in UnderLock /\ pc[u] \in UnderLock => t = u

\* A worker runs only while its caller is in spin().
SpinInv ==
  \A w \in Workers :
    pc[SpawnedBy[w]] \in {"idle", "thrown", "start"} => pc[w] = "idle"

\* From Select to Reset a thread has a callback in any_executable.
HoldInv ==
  /\ \A t \in Threads :
       pc[t] \in InHand \union Busy \union {"discard"}
       => anyExecutable[t] \in Callbacks
  /\ \A t \in Threads :
       pc[t] \in {"unschedule", "highWait"} => anyExecutable[t] \in Timers

\* scheduled_timers_ holds exactly the timers threads are busy with, and a
\* timer whose readiness went stale while it was chosen is still in it.
TimerInv ==
  /\ NoSharedTimer
  /\ TimerCalledWhenDue
  /\ \A t \in Threads :
       pc[t] \in Busy /\ anyExecutable[t] \in Timers
       => anyExecutable[t] \in scheduledTimers
  /\ \A c \in scheduledTimers :
       \E t \in Threads : pc[t] \in Busy /\ anyExecutable[t] = c
  /\ \A t \in Threads : pc[t] = "select" =>
       \A c \in collected \intersect Timers : c \in ready \union scheduledTimers
  /\ \A t \in Threads :
       pc[t] = "schedule" /\ anyExecutable[t] \in Timers
       => anyExecutable[t] \in ready \union scheduledTimers

\* The threads that hold a mutually exclusive group.
Owns(t, g) == pc[t] \in InHand /\ GroupTaken(t) = g

\* A mutually exclusive group has at most one owner, and none while it is free.
OwnerInv ==
  \A g \in MutuallyExclusive :
    /\ canBeTaken[g] => \A t \in Threads : ~Owns(t, g)
    /\ \A t, u \in Threads : Owns(t, g) /\ Owns(u, g) => t = u

ExclusiveTimers == {c \in Timers : GroupOf[c] \in MutuallyExclusive}

\* Without overruns a timer of a mutually exclusive group is never taken
\* while it is still in scheduled_timers_, so it is never discarded: it is
\* either not due, or was skipped by a cancelled execution that left its
\* group marked as taken for ever.
NoOverrunInv ==
  /\ \A t \in Threads :
       pc[t] \in {"running", "release"} => anyExecutable[t] \notin ready \intersect Timers
  /\ \A t \in Threads :
       /\ pc[t] \in {"unschedule", "highWait"}
       /\ anyExecutable[t] \in ExclusiveTimers \intersect ready
       => /\ ~canBeTaken[GroupTaken(t)]
          /\ \A u \in Threads : ~Owns(u, GroupTaken(t))
  /\ \A t \in Threads : pc[t] = "select" =>
       collected \intersect ExclusiveTimers \intersect scheduledTimers = {}
  /\ \A t \in Threads :
       pc[t] = "schedule" =>
         anyExecutable[t] \notin ExclusiveTimers \intersect scheduledTimers
  /\ \A t \in Threads :
       pc[t] = "discard" => GroupTaken(t) \notin MutuallyExclusive

IInv ==
  /\ TypeOK
  /\ LockInv
  /\ SpinInv
  /\ HoldInv
  /\ TimerInv
  /\ CollectedStaysFree
  /\ ~MayOverrun => OwnerInv /\ NoOverrunInv
=============================================================================
