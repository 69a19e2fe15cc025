---------------------- MODULE MultiThreadExecutorProofs ----------------------
(***************************************************************************)
(* Proofs about MultiThreadExecutor, for every number of threads,          *)
(* callbacks and groups.                                                   *)
(*                                                                         *)
(* IInv is inductive: one lemma per action below, with one step for the    *)
(* control part (types, lock, workers, hands), one for the timers, one for *)
(* what was collected, and, without timer overruns, one for the owners of  *)
(* the groups and one for the timers of mutually exclusive groups.  The    *)
(* theorems at the end follow from it.  With overruns (MayOverrun) the     *)
(* last two parts are false, and so is mutual exclusion: run               *)
(* MTE_overrun_mutex shows how.                                            *)
(*                                                                         *)
(* The last part is about executors nobody calls cancel() on: SpinningInv, *)
(* with IInv, keeps the calls of spin() apart and no group is lost.        *)
(***************************************************************************)
EXTENDS MultiThreadExecutor, TLAPS

\* Sets of labels and the shape of a transition are expanded everywhere.
USE DEF Threads, Labels, UnderLock, InHand, Busy, Transition

\* A caller that gets into spin() (spinning.exchange(true)) holds nothing and
\* brings no worker with it.
LEMMA SpinEnterPreserves ==
  ASSUME NEW c \in Callers, IInv, SpinEnter(c)
  PROVE  IInv'
<1>1. TypeOK' /\ LockInv' /\ SpinInv' /\ HoldInv'
  BY ThreadAssumption DEF IInv, SpinEnter, TypeOK, LockInv, SpinInv, HoldInv
<1>2. TimerInv'
  BY DEF IInv, SpinEnter, TimerInv, NoSharedTimer, TimerCalledWhenDue
<1>3. CollectedStaysFree'
  BY DEF IInv, SpinEnter, CollectedStaysFree, Choosing
<1>4. ASSUME ~MayOverrun PROVE OwnerInv' /\ NoOverrunInv'
  <2>1. OwnerInv'
    BY <1>4 DEF IInv, SpinEnter, OwnerInv, Owns, GroupTaken
  <2>2. NoOverrunInv'
    BY <1>4 DEF IInv, SpinEnter, NoOverrunInv, Owns, GroupTaken
  <2> QED BY <2>1, <2>2
<1> QED BY <1>1, <1>2, <1>3, <1>4 DEF IInv

\* A caller that spin() throws at leaves the executor as it was.
LEMMA SpinRefusedPreserves ==
  ASSUME NEW c \in Callers, IInv, SpinRefused(c)
  PROVE  IInv'
<1>1. TypeOK' /\ LockInv' /\ SpinInv' /\ HoldInv'
  BY ThreadAssumption DEF IInv, SpinRefused, TypeOK, LockInv, SpinInv, HoldInv
<1>2. TimerInv'
  BY DEF IInv, SpinRefused, TimerInv, NoSharedTimer, TimerCalledWhenDue
<1>3. CollectedStaysFree'
  BY DEF IInv, SpinRefused, CollectedStaysFree, Choosing
<1>4. ASSUME ~MayOverrun PROVE OwnerInv' /\ NoOverrunInv'
  <2>1. OwnerInv'
    BY <1>4 DEF IInv, SpinRefused, OwnerInv, Owns, GroupTaken
  <2>2. NoOverrunInv'
    BY <1>4 DEF IInv, SpinRefused, NoOverrunInv, Owns, GroupTaken
  <2> QED BY <2>1, <2>2
<1> QED BY <1>1, <1>2, <1>3, <1>4 DEF IInv

\* The workers start at the loop head, with empty hands; SpinInv says that
\* they were idle until now.
LEMMA StartThreadsPreserves ==
  ASSUME NEW c \in Callers, IInv, StartThreads(c)
  PROVE  IInv'
<1>1. TypeOK' /\ LockInv' /\ SpinInv' /\ HoldInv'
  BY ThreadAssumption DEF IInv, StartThreads, TypeOK, LockInv, SpinInv, HoldInv
<1>2. TimerInv'
  BY DEF IInv, StartThreads, SpinInv, TimerInv, NoSharedTimer,
     TimerCalledWhenDue
<1>3. CollectedStaysFree'
  BY DEF IInv, StartThreads, CollectedStaysFree, Choosing
<1>4. ASSUME ~MayOverrun PROVE OwnerInv' /\ NoOverrunInv'
  <2>1. OwnerInv'
    BY <1>4 DEF IInv, StartThreads, OwnerInv, Owns, GroupTaken
  <2>2. NoOverrunInv'
    BY <1>4 DEF IInv, StartThreads, NoOverrunInv, Owns, GroupTaken
  <2> QED BY <2>1, <2>2
<1> QED BY <1>1, <1>2, <1>3, <1>4 DEF IInv

\* When spin() returns all its workers have returned from run().
LEMMA JoinThreadsPreserves ==
  ASSUME NEW c \in Callers, IInv, JoinThreads(c)
  PROVE  IInv'
<1>1. TypeOK' /\ LockInv' /\ SpinInv' /\ HoldInv'
  BY ThreadAssumption DEF IInv, JoinThreads, TypeOK, LockInv, SpinInv, HoldInv
<1>2. TimerInv'
  BY DEF IInv, JoinThreads, TimerInv, NoSharedTimer, TimerCalledWhenDue
<1>3. CollectedStaysFree'
  BY DEF IInv, JoinThreads, CollectedStaysFree, Choosing
<1>4. ASSUME ~MayOverrun PROVE OwnerInv' /\ NoOverrunInv'
  <2>1. OwnerInv'
    BY <1>4 DEF IInv, JoinThreads, OwnerInv, Owns, GroupTaken
  <2>2. NoOverrunInv'
    BY <1>4 DEF IInv, JoinThreads, NoOverrunInv, Owns, GroupTaken
  <2> QED BY <2>1, <2>2
<1> QED BY <1>1, <1>2, <1>3, <1>4 DEF IInv

\* The while test of run() moves one thread, which holds nothing.
LEMMA LoopTestPreserves ==
  ASSUME NEW t \in Threads, IInv, LoopTest(t)
  PROVE  IInv'
<1>1. TypeOK' /\ LockInv' /\ SpinInv' /\ HoldInv'
  BY ThreadAssumption DEF IInv, LoopTest, TypeOK, LockInv, SpinInv, HoldInv,
     AfterRun
<1>2. TimerInv'
  BY DEF IInv, LoopTest, TimerInv, NoSharedTimer, TimerCalledWhenDue, AfterRun
<1>3. CollectedStaysFree'
  BY DEF IInv, LoopTest, CollectedStaysFree, Choosing, AfterRun
<1>4. ASSUME ~MayOverrun PROVE OwnerInv' /\ NoOverrunInv'
  <2>1. OwnerInv'
    BY <1>4 DEF IInv, LoopTest, OwnerInv, Owns, GroupTaken, AfterRun
  <2>2. NoOverrunInv'
    BY <1>4 DEF IInv, LoopTest, NoOverrunInv, Owns, GroupTaken, AfterRun
  <2> QED BY <2>1, <2>2
<1> QED BY <1>1, <1>2, <1>3, <1>4 DEF IInv

\* So does the test under the lock when run() returns from it.
LEMMA RecheckReturnPreserves ==
  ASSUME NEW t \in Threads, IInv, RecheckReturn(t)
  PROVE  IInv'
<1>1. TypeOK' /\ LockInv' /\ SpinInv' /\ HoldInv'
  BY ThreadAssumption DEF IInv, RecheckReturn, TypeOK, LockInv, SpinInv,
     HoldInv, AfterRun
<1>2. TimerInv'
  BY DEF IInv, RecheckReturn, TimerInv, NoSharedTimer, TimerCalledWhenDue,
     AfterRun
<1>3. CollectedStaysFree'
  BY DEF IInv, RecheckReturn, CollectedStaysFree, Choosing, AfterRun
<1>4. ASSUME ~MayOverrun PROVE OwnerInv' /\ NoOverrunInv'
  <2>1. OwnerInv'
    BY <1>4 DEF IInv, RecheckReturn, OwnerInv, Owns, GroupTaken, AfterRun
  <2>2. NoOverrunInv'
    BY <1>4 DEF IInv, RecheckReturn, NoOverrunInv, Owns, GroupTaken, AfterRun
  <2> QED BY <2>1, <2>2
<1> QED BY <1>1, <1>2, <1>3, <1>4 DEF IInv

\* The low-priority lock is granted only when it is free, so LockInv gets its
\* one holder; clear_handles leaves nothing collected.
LEMMA LockPreserves ==
  ASSUME NEW t \in Threads, IInv, Lock(t)
  PROVE  IInv'
<1>1. TypeOK' /\ LockInv' /\ SpinInv' /\ HoldInv'
  BY DEF IInv, Lock, TypeOK, LockInv, SpinInv, HoldInv, LowLockGranted
<1>2. TimerInv'
  BY DEF IInv, Lock, TimerInv, NoSharedTimer, TimerCalledWhenDue
<1>3. CollectedStaysFree'
  BY DEF Lock, CollectedStaysFree
<1>4. ASSUME ~MayOverrun PROVE OwnerInv' /\ NoOverrunInv'
  <2>1. OwnerInv'
    BY <1>4 DEF IInv, Lock, OwnerInv, Owns, GroupTaken
  <2>2. NoOverrunInv'
    BY <1>4 DEF IInv, Lock, NoOverrunInv, Owns, GroupTaken
  <2> QED BY <2>1, <2>2
<1> QED BY <1>1, <1>2, <1>3, <1>4 DEF IInv

\* collect_entities collects from a group only when it reads its flag as free,
\* and no other thread can be choosing meanwhile.
LEMMA CollectGroupPreserves ==
  ASSUME NEW t \in Threads, NEW g \in Groups, IInv, CollectGroup(t, g)
  PROVE  IInv'
<1>1. TypeOK' /\ LockInv' /\ SpinInv' /\ HoldInv'
  BY DEF IInv, CollectGroup, TypeOK, LockInv, SpinInv, HoldInv
<1>2. TimerInv'
  BY DEF IInv, CollectGroup, LockInv, TimerInv, NoSharedTimer,
     TimerCalledWhenDue
<1>3. CollectedStaysFree'
  BY DEF IInv, CollectGroup, CollectedStaysFree, Choosing
<1>4. ASSUME ~MayOverrun PROVE OwnerInv' /\ NoOverrunInv'
  <2>1. OwnerInv'
    BY <1>4 DEF IInv, CollectGroup, OwnerInv, Owns, GroupTaken
  <2>2. NoOverrunInv'
    BY <1>4 DEF IInv, CollectGroup, LockInv, NoOverrunInv, Owns, GroupTaken
  <2> QED BY <2>1, <2>2
<1> QED BY <1>1, <1>2, <1>3, <1>4 DEF IInv

\* rcl_wait keeps timers that are due; without overruns those of an exclusive
\* group are not scheduled, since their group would be taken.
LEMMA WaitPreserves ==
  ASSUME NEW t \in Threads, IInv, Wait(t)
  PROVE  IInv'
<1>1. TypeOK' /\ LockInv' /\ SpinInv' /\ HoldInv'
  BY DEF IInv, Wait, TypeOK, LockInv, SpinInv, HoldInv
<1>2. TimerInv'
  BY DEF IInv, Wait, TimerInv, NoSharedTimer, TimerCalledWhenDue
<1>3. CollectedStaysFree'
  BY DEF IInv, Wait, CollectedStaysFree, Choosing
<1>4. ASSUME ~MayOverrun PROVE OwnerInv' /\ NoOverrunInv'
  <2>1. OwnerInv'
    BY <1>4 DEF IInv, Wait, OwnerInv, Owns, GroupTaken
  <2>2. NoOverrunInv'
    BY <1>4 DEF IInv, Wait, TimerInv, OwnerInv, NoOverrunInv, Owns, GroupTaken,
       ExclusiveTimers, CollectedStaysFree, Choosing
  <2> QED BY <2>1, <2>2
<1> QED BY <1>1, <1>2, <1>3, <1>4 DEF IInv

\* Finding nothing gives the lock back.
LEMMA SelectNonePreserves ==
  ASSUME NEW t \in Threads, IInv, SelectNone(t)
  PROVE  IInv'
<1>1. TypeOK' /\ LockInv' /\ SpinInv' /\ HoldInv'
  BY ThreadAssumption DEF IInv, SelectNone, TypeOK, LockInv, SpinInv, HoldInv
<1>2. TimerInv'
  BY DEF IInv, SelectNone, TimerInv, NoSharedTimer, TimerCalledWhenDue
<1>3. CollectedStaysFree'
  BY DEF SelectNone, CollectedStaysFree
<1>4. ASSUME ~MayOverrun PROVE OwnerInv' /\ NoOverrunInv'
  <2>1. OwnerInv'
    BY <1>4 DEF IInv, SelectNone, OwnerInv, Owns, GroupTaken
  <2>2. NoOverrunInv'
    BY <1>4 DEF IInv, SelectNone, NoOverrunInv, Owns, GroupTaken
  <2> QED BY <2>1, <2>2
<1> QED BY <1>1, <1>2, <1>3, <1>4 DEF IInv

\* Marking the group is what keeps OwnerInv: a free group has no owner, so
\* the thread that takes a callback of it becomes the only one.
LEMMA SelectPreserves ==
  ASSUME NEW t \in Threads, NEW d \in Callbacks, IInv, Select(t, d)
  PROVE  IInv'
<1>1. TypeOK' /\ LockInv' /\ SpinInv' /\ HoldInv'
  BY CallbackAssumption DEF IInv, Select, TypeOK, LockInv, SpinInv, HoldInv
<1>2. TimerInv'
  BY DEF IInv, Select, TypeOK, TimerInv, NoSharedTimer, TimerCalledWhenDue,
     Candidates
<1>3. CollectedStaysFree'
  BY DEF IInv, Select, TypeOK, LockInv, CollectedStaysFree, Choosing
<1>4. ASSUME ~MayOverrun PROVE OwnerInv' /\ NoOverrunInv'
  <2>1. OwnerInv'
    <3>1. SUFFICES ASSUME NEW g \in MutuallyExclusive
                  PROVE  /\ (canBeTaken[g] => \A u \in Threads : ~Owns(u, g))'
                         /\ (\A u, v \in Threads :
                              Owns(u, g) /\ Owns(v, g) => u = v)'
      BY DEF OwnerInv
    <3>2. canBeTaken[GroupOf[d]] /\ pc[t] = "select"
      BY DEF Select, Candidates
    <3>3. \A u \in Threads :
            Owns(u, g)' <=> IF u = t THEN g = GroupOf[d] ELSE Owns(u, g)
      BY <3>2 DEF IInv, TypeOK, Select, Owns, GroupTaken
    <3>4. CASE g = GroupOf[d]
      BY <1>4, <3>2, <3>3, <3>4, CallbackAssumption
         DEF IInv, OwnerInv, TypeOK, Select
    <3>5. CASE g # GroupOf[d]
      <4>1. canBeTaken'[g] = canBeTaken[g]
        BY <3>5, CallbackAssumption DEF Select, IInv, TypeOK
      <4> QED
        BY <1>4, <3>2, <3>3, <3>5, <4>1, CallbackAssumption
           DEF IInv, OwnerInv, TypeOK, Owns
    <3> QED BY <3>4, <3>5
  <2>2. NoOverrunInv'
    BY <1>4 DEF IInv, Select, TypeOK, NoOverrunInv, Owns, GroupTaken,
       Candidates
  <2> QED BY <2>1, <2>2
<1> QED BY <1>1, <1>2, <1>3, <1>4 DEF IInv

\* A timer enters scheduled_timers_ only when it is not in it, under the lock,
\* so no two threads have it.
LEMMA SchedulePreserves ==
  ASSUME NEW t \in Threads, IInv, Schedule(t)
  PROVE  IInv'
<1>1. TypeOK' /\ LockInv' /\ SpinInv' /\ HoldInv'
  BY ThreadAssumption DEF IInv, Schedule, TypeOK, LockInv, SpinInv, HoldInv
<1>2. TimerInv'
  BY DEF IInv, Schedule, TypeOK, TimerInv, NoSharedTimer, TimerCalledWhenDue
<1>3. CollectedStaysFree'
  BY DEF Schedule, CollectedStaysFree
<1>4. ASSUME ~MayOverrun PROVE OwnerInv' /\ NoOverrunInv'
  <2>1. OwnerInv'
    BY <1>4 DEF IInv, Schedule, OwnerInv, Owns, GroupTaken
  <2>2. NoOverrunInv'
    BY <1>4 DEF IInv, Schedule, TypeOK, OwnerInv, NoOverrunInv, Owns,
       GroupTaken, ExclusiveTimers
  <2> QED BY <2>1, <2>2
<1> QED BY <1>1, <1>2, <1>3, <1>4 DEF IInv

\* Freeing the group of a timer another thread is busy with: without overruns
\* that group cannot be a mutually exclusive one.
LEMMA SkipScheduledPreserves ==
  ASSUME NEW t \in Threads, IInv, SkipScheduled(t)
  PROVE  IInv'
<1>1. TypeOK' /\ LockInv' /\ SpinInv' /\ HoldInv'
  BY ThreadAssumption DEF IInv, SkipScheduled, TypeOK, LockInv, SpinInv,
     HoldInv
<1>2. TimerInv'
  BY DEF IInv, SkipScheduled, TimerInv, NoSharedTimer, TimerCalledWhenDue
<1>3. CollectedStaysFree'
  BY DEF SkipScheduled, CollectedStaysFree
<1>4. ASSUME ~MayOverrun PROVE OwnerInv' /\ NoOverrunInv'
  <2>1. OwnerInv'
    BY <1>4 DEF IInv, SkipScheduled, TypeOK, OwnerInv, Owns, GroupTaken
  <2>2. NoOverrunInv'
    BY <1>4 DEF IInv, SkipScheduled, HoldInv, TimerInv, OwnerInv, NoOverrunInv,
       Owns, GroupTaken, ExclusiveTimers
  <2> QED BY <2>1, <2>2
<1> QED BY <1>1, <1>2, <1>3, <1>4 DEF IInv

\* ~AnyExecutable frees a group this thread may have lost already: harmless
\* as long as the group is not a mutually exclusive one.
LEMMA DiscardPreserves ==
  ASSUME NEW t \in Threads, IInv, Discard(t)
  PROVE  IInv'
<1>1. TypeOK' /\ LockInv' /\ SpinInv' /\ HoldInv'
  BY CallbackAssumption DEF IInv, Discard, TypeOK, LockInv, SpinInv, HoldInv,
     GroupTaken
<1>2. TimerInv'
  BY DEF IInv, Discard, TimerInv, NoSharedTimer, TimerCalledWhenDue
<1>3. CollectedStaysFree'
  BY DEF IInv, Discard, CollectedStaysFree, Choosing
<1>4. ASSUME ~MayOverrun PROVE OwnerInv' /\ NoOverrunInv'
  <2>1. OwnerInv'
    BY <1>4 DEF IInv, Discard, OwnerInv, NoOverrunInv, Owns, GroupTaken
  <2>2. NoOverrunInv'
    BY <1>4 DEF IInv, Discard, TypeOK, NoOverrunInv, Owns, GroupTaken,
       ExclusiveTimers
  <2> QED BY <2>1, <2>2
<1> QED BY <1>1, <1>2, <1>3, <1>4 DEF IInv

\* A cancelled execution keeps its group marked, and nobody owns it.
LEMMA SkipCancelledPreserves ==
  ASSUME NEW t \in Threads, IInv, SkipCancelled(t)
  PROVE  IInv'
<1>1. TypeOK' /\ LockInv' /\ SpinInv' /\ HoldInv'
  BY DEF IInv, SkipCancelled, TypeOK, LockInv, SpinInv, HoldInv, AfterExecute
<1>2. TimerInv'
  BY DEF IInv, SkipCancelled, TypeOK, TimerInv, NoSharedTimer,
     TimerCalledWhenDue, AfterExecute
<1>3. CollectedStaysFree'
  BY DEF IInv, SkipCancelled, CollectedStaysFree, Choosing, AfterExecute
<1>4. ASSUME ~MayOverrun PROVE OwnerInv' /\ NoOverrunInv'
  <2>1. OwnerInv'
    BY <1>4 DEF IInv, SkipCancelled, OwnerInv, Owns, GroupTaken
  <2>2. NoOverrunInv'
    BY <1>4 DEF IInv, SkipCancelled, OwnerInv, NoOverrunInv, Owns, GroupTaken,
       ExclusiveTimers, AfterExecute
  <2> QED BY <2>1, <2>2
<1> QED BY <1>1, <1>2, <1>3, <1>4 DEF IInv

\* The message is consumed, or the timer advanced, by the only thread that
\* has it.
LEMMA StartCallbackPreserves ==
  ASSUME NEW t \in Threads, IInv, StartCallback(t)
  PROVE  IInv'
<1>1. TypeOK' /\ LockInv' /\ SpinInv' /\ HoldInv'
  BY DEF IInv, StartCallback, TypeOK, LockInv, SpinInv, HoldInv
<1>2. TimerInv'
  BY DEF IInv, StartCallback, TypeOK, TimerInv, NoSharedTimer,
     TimerCalledWhenDue
<1>3. CollectedStaysFree'
  BY DEF IInv, StartCallback, CollectedStaysFree, Choosing
<1>4. ASSUME ~MayOverrun PROVE OwnerInv' /\ NoOverrunInv'
  <2>1. OwnerInv'
    BY <1>4 DEF IInv, StartCallback, OwnerInv, Owns, GroupTaken
  <2>2. NoOverrunInv'
    BY <1>4 DEF IInv, StartCallback, NoOverrunInv, Owns, GroupTaken
  <2> QED BY <2>1, <2>2
<1> QED BY <1>1, <1>2, <1>3, <1>4 DEF IInv

\* A failed take goes straight to the release of the group.
LEMMA FailedTakePreserves ==
  ASSUME NEW t \in Threads, IInv, FailedTake(t)
  PROVE  IInv'
<1>1. TypeOK' /\ LockInv' /\ SpinInv' /\ HoldInv'
  BY DEF IInv, FailedTake, TypeOK, LockInv, SpinInv, HoldInv
<1>2. TimerInv'
  BY DEF IInv, FailedTake, TimerInv, NoSharedTimer, TimerCalledWhenDue
<1>3. CollectedStaysFree'
  BY DEF IInv, FailedTake, CollectedStaysFree, Choosing
<1>4. ASSUME ~MayOverrun PROVE OwnerInv' /\ NoOverrunInv'
  <2>1. OwnerInv'
    BY <1>4 DEF IInv, FailedTake, OwnerInv, Owns, GroupTaken
  <2>2. NoOverrunInv'
    BY <1>4 DEF IInv, FailedTake, NoOverrunInv, Owns, GroupTaken
  <2> QED BY <2>1, <2>2
<1> QED BY <1>1, <1>2, <1>3, <1>4 DEF IInv

\* The end of a callback changes nothing but the thread's place.
LEMMA EndCallbackPreserves ==
  ASSUME NEW t \in Threads, IInv, EndCallback(t)
  PROVE  IInv'
<1>1. TypeOK' /\ LockInv' /\ SpinInv' /\ HoldInv'
  BY DEF IInv, EndCallback, TypeOK, LockInv, SpinInv, HoldInv
<1>2. TimerInv'
  BY DEF IInv, EndCallback, TimerInv, NoSharedTimer, TimerCalledWhenDue
<1>3. CollectedStaysFree'
  BY DEF IInv, EndCallback, CollectedStaysFree, Choosing
<1>4. ASSUME ~MayOverrun PROVE OwnerInv' /\ NoOverrunInv'
  <2>1. OwnerInv'
    BY <1>4 DEF IInv, EndCallback, OwnerInv, Owns, GroupTaken
  <2>2. NoOverrunInv'
    BY <1>4 DEF IInv, EndCallback, NoOverrunInv, Owns, GroupTaken
  <2> QED BY <2>1, <2>2
<1> QED BY <1>1, <1>2, <1>3, <1>4 DEF IInv

\* The owner frees its group, and is its owner no more.
LEMMA ReleaseGroupPreserves ==
  ASSUME NEW t \in Threads, IInv, ReleaseGroup(t)
  PROVE  IInv'
<1>1. TypeOK' /\ LockInv' /\ SpinInv' /\ HoldInv'
  BY CallbackAssumption DEF IInv, ReleaseGroup, TypeOK, LockInv, SpinInv,
     HoldInv, GroupTaken, AfterExecute
<1>2. TimerInv'
  BY DEF IInv, ReleaseGroup, TypeOK, TimerInv, NoSharedTimer,
     TimerCalledWhenDue, AfterExecute
<1>3. CollectedStaysFree'
  BY DEF IInv, ReleaseGroup, CollectedStaysFree, Choosing, AfterExecute
<1>4. ASSUME ~MayOverrun PROVE OwnerInv' /\ NoOverrunInv'
  <2>1. OwnerInv'
    BY <1>4 DEF IInv, ReleaseGroup, TypeOK, OwnerInv, Owns, GroupTaken,
       AfterExecute
  <2>2. NoOverrunInv'
    BY <1>4 DEF IInv, ReleaseGroup, NoOverrunInv, Owns, GroupTaken,
       AfterExecute
  <2> QED BY <2>1, <2>2
<1> QED BY <1>1, <1>2, <1>3, <1>4 DEF IInv

\* A high-priority waiter holds what it held before.
LEMMA HighWaitPreserves ==
  ASSUME NEW t \in Threads, IInv, HighWait(t)
  PROVE  IInv'
<1>1. TypeOK' /\ LockInv' /\ SpinInv' /\ HoldInv'
  BY DEF IInv, HighWait, TypeOK, LockInv, SpinInv, HoldInv
<1>2. TimerInv'
  BY DEF IInv, HighWait, TimerInv, NoSharedTimer, TimerCalledWhenDue
<1>3. CollectedStaysFree'
  BY DEF IInv, HighWait, CollectedStaysFree, Choosing
<1>4. ASSUME ~MayOverrun PROVE OwnerInv' /\ NoOverrunInv'
  <2>1. OwnerInv'
    BY <1>4 DEF IInv, HighWait, OwnerInv, Owns, GroupTaken
  <2>2. NoOverrunInv'
    BY <1>4 DEF IInv, HighWait, NoOverrunInv, Owns, GroupTaken
  <2> QED BY <2>1, <2>2
<1> QED BY <1>1, <1>2, <1>3, <1>4 DEF IInv

\* A timer leaves scheduled_timers_ with its last user, under the lock, where
\* nobody can be choosing it on a stale readiness.
LEMMA UnschedulePreserves ==
  ASSUME NEW t \in Threads, IInv, Unschedule(t)
  PROVE  IInv'
<1>1. TypeOK' /\ LockInv' /\ SpinInv' /\ HoldInv'
  BY ThreadAssumption DEF IInv, Unschedule, TypeOK, LockInv, SpinInv, HoldInv
<1>2. TimerInv'
  BY DEF IInv, Unschedule, TypeOK, LockInv, TimerInv, NoSharedTimer,
     TimerCalledWhenDue
<1>3. CollectedStaysFree'
  BY DEF IInv, Unschedule, TypeOK, CollectedStaysFree, Choosing
<1>4. ASSUME ~MayOverrun PROVE OwnerInv' /\ NoOverrunInv'
  <2>1. OwnerInv'
    BY <1>4 DEF IInv, Unschedule, TypeOK, OwnerInv, Owns, GroupTaken
  <2>2. NoOverrunInv'
    BY <1>4 DEF IInv, Unschedule, TypeOK, NoOverrunInv, Owns, GroupTaken
  <2> QED BY <2>1, <2>2
<1> QED BY <1>1, <1>2, <1>3, <1>4 DEF IInv

\* An emptied any_executable refers to nothing that the invariant speaks of.
LEMMA ResetPreserves ==
  ASSUME NEW t \in Threads, IInv, Reset(t)
  PROVE  IInv'
<1>1. TypeOK' /\ LockInv' /\ SpinInv' /\ HoldInv'
  BY DEF IInv, Reset, TypeOK, LockInv, SpinInv, HoldInv
<1>2. TimerInv'
  BY DEF IInv, Reset, TimerInv, NoSharedTimer, TimerCalledWhenDue
<1>3. CollectedStaysFree'
  BY DEF IInv, Reset, CollectedStaysFree, Choosing
<1>4. ASSUME ~MayOverrun PROVE OwnerInv' /\ NoOverrunInv'
  <2>1. OwnerInv'
    BY <1>4 DEF IInv, Reset, OwnerInv, Owns, GroupTaken
  <2>2. NoOverrunInv'
    BY <1>4 DEF IInv, Reset, NoOverrunInv, Owns, GroupTaken
  <2> QED BY <2>1, <2>2
<1> QED BY <1>1, <1>2, <1>3, <1>4 DEF IInv

\* A message makes no timer due.
LEMMA MessageArrivesPreserves ==
  ASSUME NEW d \in Callbacks, IInv, MessageArrives(d)
  PROVE  IInv'
<1>1. TypeOK' /\ LockInv' /\ SpinInv' /\ HoldInv'
  BY DEF IInv, MessageArrives, TypeOK, LockInv, SpinInv, HoldInv
<1>2. TimerInv'
  BY DEF IInv, MessageArrives, TimerInv, NoSharedTimer, TimerCalledWhenDue
<1>3. CollectedStaysFree'
  BY DEF IInv, MessageArrives, CollectedStaysFree, Choosing
<1>4. ASSUME ~MayOverrun PROVE OwnerInv' /\ NoOverrunInv'
  <2>1. OwnerInv'
    BY <1>4 DEF IInv, MessageArrives, OwnerInv, Owns, GroupTaken
  <2>2. NoOverrunInv'
    BY <1>4 DEF IInv, MessageArrives, NoOverrunInv, Owns, GroupTaken,
       ExclusiveTimers
  <2> QED BY <2>1, <2>2
<1> QED BY <1>1, <1>2, <1>3, <1>4 DEF IInv

\* A timer that becomes due is, without overruns, not in scheduled_timers_.
LEMMA TimerDuePreserves ==
  ASSUME NEW d \in Callbacks, IInv, TimerDue(d)
  PROVE  IInv'
<1>1. TypeOK' /\ LockInv' /\ SpinInv' /\ HoldInv'
  BY DEF IInv, TimerDue, TypeOK, LockInv, SpinInv, HoldInv
<1>2. TimerInv'
  BY DEF IInv, TimerDue, TimerInv, NoSharedTimer, TimerCalledWhenDue
<1>3. CollectedStaysFree'
  BY DEF IInv, TimerDue, CollectedStaysFree, Choosing
<1>4. ASSUME ~MayOverrun PROVE OwnerInv' /\ NoOverrunInv'
  <2>1. OwnerInv'
    BY <1>4 DEF IInv, TimerDue, OwnerInv, Owns, GroupTaken
  <2>2. NoOverrunInv'
    BY <1>4 DEF IInv, TimerDue, TimerInv, NoOverrunInv, Owns, GroupTaken
  <2> QED BY <2>1, <2>2
<1> QED BY <1>1, <1>2, <1>3, <1>4 DEF IInv

\* cancel() changes spinning only, which no invariant mentions.
LEMMA CancelPreserves ==
  ASSUME IInv, Cancel
  PROVE  IInv'
<1>1. TypeOK' /\ LockInv' /\ SpinInv' /\ HoldInv'
  BY DEF IInv, Cancel, TypeOK, LockInv, SpinInv, HoldInv
<1>2. TimerInv'
  BY DEF IInv, Cancel, TimerInv, NoSharedTimer, TimerCalledWhenDue
<1>3. CollectedStaysFree'
  BY DEF IInv, Cancel, CollectedStaysFree, Choosing
<1>4. ASSUME ~MayOverrun PROVE OwnerInv' /\ NoOverrunInv'
  <2>1. OwnerInv'
    BY <1>4 DEF IInv, Cancel, OwnerInv, Owns, GroupTaken
  <2>2. NoOverrunInv'
    BY <1>4 DEF IInv, Cancel, NoOverrunInv, Owns, GroupTaken
  <2> QED BY <2>1, <2>2
<1> QED BY <1>1, <1>2, <1>3, <1>4 DEF IInv

\* Neither does any mention the context's ok().
LEMMA ShutdownPreserves ==
  ASSUME IInv, Shutdown
  PROVE  IInv'
<1>1. TypeOK' /\ LockInv' /\ SpinInv' /\ HoldInv'
  BY DEF IInv, Shutdown, TypeOK, LockInv, SpinInv, HoldInv
<1>2. TimerInv'
  BY DEF IInv, Shutdown, TimerInv, NoSharedTimer, TimerCalledWhenDue
<1>3. CollectedStaysFree'
  BY DEF IInv, Shutdown, CollectedStaysFree, Choosing
<1>4. ASSUME ~MayOverrun PROVE OwnerInv' /\ NoOverrunInv'
  <2>1. OwnerInv'
    BY <1>4 DEF IInv, Shutdown, OwnerInv, Owns, GroupTaken
  <2>2. NoOverrunInv'
    BY <1>4 DEF IInv, Shutdown, NoOverrunInv, Owns, GroupTaken
  <2> QED BY <2>1, <2>2
<1> QED BY <1>1, <1>2, <1>3, <1>4 DEF IInv

-----------------------------------------------------------------------------

\* An executor nobody has called spin() of satisfies the invariant.
LEMMA InitIInv == Init => IInv
<1> SUFFICES ASSUME Init PROVE IInv
  OBVIOUS
<1>1. TypeOK /\ LockInv /\ SpinInv /\ HoldInv /\ CollectedStaysFree
  BY ThreadAssumption
     DEF Init, TypeOK, LockInv, SpinInv, HoldInv, CollectedStaysFree, Choosing
<1>2. TimerInv
  BY DEF Init, TimerInv, NoSharedTimer, TimerCalledWhenDue
<1>3. OwnerInv /\ NoOverrunInv
  BY DEF Init, OwnerInv, NoOverrunInv, Owns
<1> QED BY <1>1, <1>2, <1>3 DEF IInv

\* A step that changes no variable preserves it.
LEMMA StutterPreserves ==
  ASSUME IInv, UNCHANGED vars
  PROVE  IInv'
<1> USE DEF vars
<1>1. (TypeOK /\ LockInv /\ SpinInv /\ HoldInv /\ CollectedStaysFree)'
  BY DEF IInv, TypeOK, LockInv, SpinInv, HoldInv, CollectedStaysFree, Choosing
<1>2. TimerInv'
  BY DEF IInv, TimerInv, NoSharedTimer, TimerCalledWhenDue
<1>3. ASSUME ~MayOverrun PROVE OwnerInv' /\ NoOverrunInv'
  BY <1>3 DEF IInv, OwnerInv, NoOverrunInv, Owns, GroupTaken
<1> QED BY <1>1, <1>2, <1>3 DEF IInv

\* Every step of a thread, of the application or of the environment
\* preserves it.
LEMMA NextPreserves == IInv /\ [Next]_vars => IInv'
<1> SUFFICES ASSUME IInv, [Next]_vars PROVE IInv'
  OBVIOUS
<1>1. ASSUME NEW c \in Callers, SpinEnter(c) \/ SpinRefused(c) \/ SpinStep(c)
      PROVE  IInv'
  BY <1>1, SpinEnterPreserves, SpinRefusedPreserves, StartThreadsPreserves,
     JoinThreadsPreserves
     DEF SpinStep
<1>2. ASSUME NEW t \in Threads, RunStep(t) PROVE IInv'
  <2>1. CASE LockedStep(t)
    BY <2>1, CollectGroupPreserves, WaitPreserves, SelectNonePreserves,
       SelectPreserves, SchedulePreserves, SkipScheduledPreserves
       DEF LockedStep
  <2>2. CASE LoopTest(t) \/ RecheckReturn(t) \/ Lock(t) \/ Discard(t)
    BY <2>2, LoopTestPreserves, RecheckReturnPreserves, LockPreserves,
       DiscardPreserves
  <2>3. CASE SkipCancelled(t) \/ StartCallback(t) \/ FailedTake(t)
    BY <2>3, SkipCancelledPreserves, StartCallbackPreserves,
       FailedTakePreserves
  <2>4. CASE EndCallback(t) \/ ReleaseGroup(t)
    BY <2>4, EndCallbackPreserves, ReleaseGroupPreserves
  <2>5. CASE HighWait(t) \/ Unschedule(t) \/ Reset(t)
    BY <2>5, HighWaitPreserves, UnschedulePreserves, ResetPreserves
  <2> QED BY <1>2, <2>1, <2>2, <2>3, <2>4, <2>5 DEF RunStep
<1>3. CASE Environment
  BY <1>3, MessageArrivesPreserves, TimerDuePreserves, CancelPreserves,
     ShutdownPreserves
     DEF Environment
<1>4. CASE UNCHANGED vars
  BY <1>4, StutterPreserves
<1> QED BY <1>1, <1>2, <1>3, <1>4 DEF Next

\* IInv holds in every state the executor reaches: the lock has one holder,
\* scheduled_timers_ holds exactly the timers threads are busy with, and, with
\* no timer overruns, a mutually exclusive group has one owner.
THEOREM InductiveInvariant == Spec => []IInv
BY InitIInv, NextPreserves, PTL DEF Spec

\* The state of run(), wait_mutex_, can_be_taken_from and scheduled_timers_ is
\* well typed.
THEOREM TypeCorrect == Spec => []TypeOK
<1>1. IInv => TypeOK
  BY DEF IInv
<1> QED BY <1>1, InductiveInvariant, PTL

\* The guard of priority_executor.cpp:593-604 does what its comment says: no
\* two threads have the same timer at once, overruns and cancel() included.
THEOREM NoTwoThreadsShareATimer == Spec => []NoSharedTimer
<1>1. IInv => NoSharedTimer
  BY DEF IInv, TimerInv
<1> QED BY <1>1, InductiveInvariant, PTL

\* rcl_timer_call is never made for a readiness another thread has used up:
\* the timer a thread is about to execute is due.
THEOREM TimersAreDueWhenCalled == Spec => []TimerCalledWhenDue
<1>1. IInv => TimerCalledWhenDue
  BY DEF IInv, TimerInv
<1> QED BY <1>1, InductiveInvariant, PTL

\* The assertion at priority_executor.cpp:702 never fails: what was collected
\* stays free until one of it is chosen.
THEOREM AssertionHolds == Spec => []CollectedStaysFree
<1>1. IInv => CollectedStaysFree
  BY DEF IInv
<1> QED BY <1>1, InductiveInvariant, PTL

\* When no timer is due again before its execution is over, callbacks of a
\* mutually exclusive group never overlap (can_be_taken_from,
\* priority_executor.cpp:696-706).
THEOREM MutualExclusion == ASSUME ~MayOverrun PROVE Spec => []GroupMutex
<1>1. IInv => GroupMutex
  BY CallbackAssumption DEF IInv, OwnerInv, Owns, GroupMutex, Executing
<1> QED BY <1>1, InductiveInvariant, PTL

\* No callback runs initially.
LEMMA DispatchInit == Init => Dispatch!Init
BY DEF Init, Dispatch!Init, Running, Executing

\* Starting a callback in run() is a Start step of CallbackDispatch: the
\* callback is ready, and nothing runs that excludes it.
LEMMA DispatchStart ==
  ASSUME NEW t \in Threads, IInv, ~MayOverrun, StartCallback(t)
  PROVE  Dispatch!Start(t, anyExecutable[t])
<1> DEFINE d == anyExecutable[t]
<1>1. d \in Callbacks /\ d # NoCallback
  BY CallbackAssumption DEF IInv, HoldInv, StartCallback
<1>2. Running[t] = NoCallback
  BY DEF StartCallback, Running, Executing
<1>3. d \in ready
  BY DEF IInv, TimerInv, TimerCalledWhenDue, StartCallback
<1>4. ASSUME NEW u \in Threads, Running[u] # NoCallback
      PROVE  /\ ~ /\ GroupOf[Running[u]] = GroupOf[d]
                  /\ GroupOf[d] \in MutuallyExclusive
             /\ ~(Running[u] = d /\ d \in Timers)
  <2>1. /\ pc[u] = "running" /\ Running[u] = anyExecutable[u]
        /\ pc[t] = "execute" /\ u # t
    BY <1>4 DEF Running, Executing, StartCallback
  <2>2. ~(Running[u] = d /\ d \in Timers)
    BY <2>1 DEF IInv, TimerInv, NoSharedTimer
  <2>3. ~ /\ GroupOf[Running[u]] = GroupOf[d]
          /\ GroupOf[d] \in MutuallyExclusive
    BY <2>1 DEF IInv, OwnerInv, Owns, GroupTaken
  <2> QED BY <2>2, <2>3
<1>5. ready' = ready \ {d} /\ Running' = [Running EXCEPT ![t] = d]
  BY DEF StartCallback, Running, Executing, IInv, TypeOK
<1> QED BY <1>1, <1>2, <1>3, <1>4, <1>5 DEF Dispatch!Start, Dispatch!Excluded

-----------------------------------------------------------------------------

\* A step in which one thread moves between labels outside a callback is not
\* visible to CallbackDispatch.
LEMMA DispatchStutter ==
  ASSUME NEW t \in Threads, IInv, UNCHANGED ready,
         pc[t] # "running", pc'[t] # "running",
         \A u \in Threads \ {t} :
           pc'[u] = pc[u] /\ anyExecutable'[u] = anyExecutable[u]
  PROVE  UNCHANGED Dispatch!vars
<1>1. \A u \in Threads : Running'[u] = Running[u]
  BY DEF Running, Executing
<1>2. Running' = Running
  BY <1>1 DEF Running
<1> QED BY <1>2 DEF Dispatch!vars

\* Every step of the executor is a step of CallbackDispatch or leaves it alone.
LEMMA DispatchStep ==
  IInv /\ ~MayOverrun /\ [Next]_vars => [Dispatch!Next]_(Dispatch!vars)
<1> SUFFICES ASSUME IInv, ~MayOverrun, [Next]_vars
             PROVE  Dispatch!Next \/ UNCHANGED Dispatch!vars
  OBVIOUS
<1>1. ASSUME NEW c \in Callers, SpinEnter(c) \/ SpinRefused(c) \/ SpinStep(c)
      PROVE  UNCHANGED Dispatch!vars
  <2>1. CASE StartThreads(c)
    <3>1. \A u \in Threads :
            (pc[u] # "running" /\ pc'[u] # "running") \/ pc'[u] = pc[u]
      BY <2>1 DEF StartThreads, IInv, TypeOK, SpinInv
    <3> QED BY <2>1, <3>1 DEF StartThreads, Dispatch!vars, Running, Executing
  <2>2. CASE SpinEnter(c) \/ SpinRefused(c) \/ JoinThreads(c)
    BY <2>2, DispatchStutter
       DEF SpinEnter, SpinRefused, JoinThreads, IInv, TypeOK
  <2> QED BY <1>1, <2>1, <2>2 DEF SpinStep
<1>2. ASSUME NEW t \in Threads, RunStep(t)
      PROVE  Dispatch!Next \/ UNCHANGED Dispatch!vars
  <2>1. CASE StartCallback(t)
    <3>1. anyExecutable[t] \in Callbacks
      BY <2>1 DEF IInv, HoldInv, StartCallback
    <3> QED BY <2>1, <3>1, DispatchStart DEF Dispatch!Next
  <2>2. CASE EndCallback(t)
    <3>1. Dispatch!Finish(t)
      BY <2>2, CallbackAssumption
         DEF EndCallback, Dispatch!Finish, Running, Executing, IInv, TypeOK,
             HoldInv
    <3> QED BY <3>1 DEF Dispatch!Next
  <2>3. CASE LockedStep(t)
    <3>1. CASE \E g \in Groups : CollectGroup(t, g)
      BY <3>1, DispatchStutter DEF CollectGroup, IInv, TypeOK
    <3>2. CASE \E c \in Callbacks : Select(t, c)
      BY <3>2, DispatchStutter DEF Select, IInv, TypeOK
    <3>3. CASE Wait(t) \/ SelectNone(t)
      BY <3>3, DispatchStutter DEF Wait, SelectNone, IInv, TypeOK
    <3>4. CASE Schedule(t) \/ SkipScheduled(t)
      BY <3>4, DispatchStutter DEF Schedule, SkipScheduled, IInv, TypeOK
    <3> QED BY <2>3, <3>1, <3>2, <3>3, <3>4 DEF LockedStep
  <2>4. CASE LoopTest(t) \/ RecheckReturn(t) \/ Lock(t) \/ Discard(t)
    BY <2>4, DispatchStutter
       DEF LoopTest, RecheckReturn, Lock, Discard, AfterRun, IInv, TypeOK
  <2>5. CASE SkipCancelled(t) \/ FailedTake(t) \/ ReleaseGroup(t)
    BY <2>5, DispatchStutter
       DEF SkipCancelled, FailedTake, ReleaseGroup, AfterExecute, IInv, TypeOK
  <2>6. CASE HighWait(t) \/ Unschedule(t) \/ Reset(t)
    BY <2>6, DispatchStutter DEF HighWait, Unschedule, Reset, IInv, TypeOK
  <2> QED BY <1>2, <2>1, <2>2, <2>3, <2>4, <2>5, <2>6 DEF RunStep
<1>3. CASE Environment
  <2>1. ASSUME NEW c \in Callbacks, MessageArrives(c) \/ TimerDue(c)
        PROVE  Dispatch!Next
    BY <2>1
       DEF MessageArrives, TimerDue, Dispatch!Next, Dispatch!BecomeReady,
           Running, Executing
  <2>2. CASE Cancel \/ Shutdown
    BY <2>2 DEF Cancel, Shutdown, Dispatch!vars, Running, Executing
  <2> QED BY <1>3, <2>1, <2>2 DEF Environment
<1>4. CASE UNCHANGED vars
  BY <1>4 DEF vars, Dispatch!vars, Running, Executing
<1> QED BY <1>1, <1>2, <1>3, <1>4 DEF Next

\* Without timer overruns the executor keeps the promise of CallbackDispatch:
\* only ready callbacks run, each readiness is used once, and neither a
\* mutually exclusive group nor a timer is run twice at a time.
THEOREM ImplementsCallbackDispatch ==
  ASSUME ~MayOverrun PROVE Spec => ImplementsDispatch
<1>1. IInv /\ [Next]_vars => [Dispatch!Next]_(Dispatch!vars)
  BY DispatchStep
<1> QED
  BY <1>1, DispatchInit, InductiveInvariant, PTL
     DEF Spec, Dispatch!Spec, ImplementsDispatch
-----------------------------------------------------------------------------
(***************************************************************************)
(* Without cancel(): one spin() at a time, and no group is lost.           *)
(***************************************************************************)
\* While a call of spin() is under way spinning is up, and it is the only one.
SpinningInv ==
  /\ \A c \in Callers : InSpin(c) => spinning
  /\ OneSpin

\* A thread that is anywhere but idle belongs to a call of spin().
LEMMA ThreadInSpin ==
  ASSUME IInv, SpinningInv, NEW t \in Threads, pc[t] \notin {"idle", "thrown"}
  PROVE  spinning
BY ThreadAssumption DEF SpinningInv, InSpin

\* A step of one thread inside run(), or of the environment, that ends no call
\* of spin() and leaves spinning alone, keeps SpinningInv.
LEMMA SpinningKept ==
  ASSUME SpinningInv, UNCHANGED spinning,
         \A t \in Threads :
           pc'[t] = pc[t] \/ pc[t] \notin {"idle", "thrown"}
  PROVE  SpinningInv'
<1>1. \A c \in Callers : InSpin(c)' => InSpin(c)
  BY ThreadAssumption DEF InSpin
<1> QED BY <1>1 DEF SpinningInv, OneSpin

\* spin() is refused while another call is under way, and clears spinning only
\* when its last worker is out.
LEMMA SpinStepKeepsSpinning ==
  ASSUME IInv, SpinningInv, NEW c \in Callers,
         SpinEnter(c) \/ SpinRefused(c) \/ SpinStep(c)
  PROVE  SpinningInv'
<1>1. CASE SpinEnter(c)
  <2>1. \A d \in Callers : ~InSpin(d)
    BY <1>1 DEF SpinEnter, SpinningInv
  <2>2. \A d \in Callers : InSpin(d)' => d = c
    BY <1>1, <2>1, ThreadAssumption DEF SpinEnter, InSpin, IInv, TypeOK
  <2> QED BY <1>1, <2>2 DEF SpinEnter, SpinningInv, OneSpin
<1>2. CASE SpinRefused(c)
  <2>1. \A d \in Callers : InSpin(d)' => InSpin(d)
    BY <1>2, ThreadAssumption DEF SpinRefused, InSpin, IInv, TypeOK
  <2> QED BY <1>2, <2>1 DEF SpinRefused, SpinningInv, OneSpin
<1>3. CASE StartThreads(c)
  <2>1. InSpin(c)
    BY <1>3 DEF StartThreads, InSpin
  <2>2. \A d \in Callers : InSpin(d)' => InSpin(d)
    BY <1>3, <2>1, ThreadAssumption DEF StartThreads, InSpin
  <2> QED BY <1>3, <2>2 DEF StartThreads, SpinningInv, OneSpin
<1>4. CASE JoinThreads(c)
  <2>1. InSpin(c)
    BY <1>4 DEF JoinThreads, InSpin
  <2>2. \A d \in Callers : InSpin(d) => d = c
    BY <2>1 DEF SpinningInv, OneSpin
  <2>3. \A d \in Callers : ~InSpin(d)'
    BY <1>4, <2>2, ThreadAssumption DEF JoinThreads, InSpin, IInv, TypeOK
  <2> QED BY <2>3 DEF SpinningInv, OneSpin
<1> QED BY <1>1, <1>2, <1>3, <1>4 DEF SpinStep

\* What a step of run() does to the labels.
LEMMA RunStepKeepsSpinning ==
  ASSUME IInv, SpinningInv, NEW t \in Threads, RunStep(t)
  PROVE  SpinningInv'
<1>1. UNCHANGED spinning
  BY DEF RunStep, LockedStep, LoopTest, RecheckReturn, Lock, CollectGroup, Wait,
         SelectNone, Select, Schedule, SkipScheduled, Discard, SkipCancelled,
         StartCallback, FailedTake, EndCallback, ReleaseGroup, HighWait,
         Unschedule, Reset
<1>2. \A u \in Threads : pc'[u] = pc[u] \/ pc[u] \notin {"idle", "thrown"}
  BY DEF RunStep, LockedStep, LoopTest, RecheckReturn, Lock, CollectGroup, Wait,
         SelectNone, Select, Schedule, SkipScheduled, Discard, SkipCancelled,
         StartCallback, FailedTake, EndCallback, ReleaseGroup, HighWait,
         Unschedule, Reset, IInv, TypeOK
<1> QED BY <1>1, <1>2, SpinningKept

\* Nothing but spin() and cancel() writes spinning.
LEMMA NextKeepsSpinning ==
  ASSUME ~MayCancel
  PROVE  IInv /\ SpinningInv /\ [Next]_vars => SpinningInv'
<1> SUFFICES ASSUME IInv, SpinningInv, [Next]_vars PROVE SpinningInv'
  OBVIOUS
<1>1. CASE Environment
  <2>1. UNCHANGED <<pc, spinning>>
    BY <1>1 DEF Environment, MessageArrives, TimerDue, Cancel, Shutdown
  <2> QED BY <2>1, SpinningKept
<1>2. CASE UNCHANGED vars
  BY <1>2, SpinningKept DEF vars
<1> QED BY <1>1, <1>2, SpinStepKeepsSpinning, RunStepKeepsSpinning DEF Next

\* A thread that has a group in hand keeps it until it frees it: a step leaves
\* every other group, and every other thread's hand, as it was.
LEMMA GroupKept ==
  ASSUME GroupNotLost, NEW t \in Threads,
         \A u \in Threads \ {t} :
           pc'[u] = pc[u] /\ anyExecutable'[u] = anyExecutable[u],
         \A g \in Groups : ~canBeTaken'[g] =>
           \/ pc'[t] \in InHand /\ GroupTaken(t)' = g
           \/ ~canBeTaken[g] /\ ~(pc[t] \in InHand /\ GroupTaken(t) = g)
  PROVE  GroupNotLost'
<1> SUFFICES ASSUME NEW g \in Groups, ~canBeTaken'[g]
             PROVE  \E u \in Threads : pc'[u] \in InHand /\ GroupTaken(u)' = g
  BY DEF GroupNotLost
<1>1. CASE ~canBeTaken[g] /\ ~(pc[t] \in InHand /\ GroupTaken(t) = g)
  <2>1. PICK u \in Threads : pc[u] \in InHand /\ GroupTaken(u) = g
    BY <1>1 DEF GroupNotLost
  <2>2. u # t
    BY <1>1, <2>1
  <2> QED BY <2>1, <2>2 DEF GroupTaken
<1> QED BY <1>1

\* run() loses no group: with spinning up, execute_any_executable does not
\* return before it has executed.
LEMMA RunStepLosesNoGroup ==
  ASSUME IInv, SpinningInv, GroupNotLost, NEW t \in Threads, RunStep(t)
  PROVE  GroupNotLost'
<1> USE GroupKept
<1>1. CASE SkipCancelled(t)
  <2>1. pc[t] = "execute" /\ ~spinning
    BY <1>1 DEF SkipCancelled
  <2> QED BY <2>1, ThreadInSpin
<1>2. CASE LoopTest(t) \/ RecheckReturn(t) \/ Lock(t)
  BY <1>2 DEF LoopTest, RecheckReturn, Lock, AfterRun, GroupTaken, IInv, TypeOK
<1>3. CASE LockedStep(t)
  <2>1. CASE \E g \in Groups : CollectGroup(t, g)
    BY <2>1 DEF CollectGroup, GroupTaken, GroupNotLost
  <2>2. CASE \E c \in Callbacks : Select(t, c)
    <3>1. PICK c \in Callbacks : Select(t, c)
      BY <2>2
    <3>2. pc[t] = "select" /\ pc'[t] = "schedule" /\ GroupTaken(t)' = GroupOf[c]
      BY <3>1 DEF Select, GroupTaken, IInv, TypeOK
    <3> QED BY <3>1, <3>2 DEF Select, IInv, TypeOK
  <2>3. CASE Wait(t) \/ SelectNone(t) \/ Schedule(t)
    BY <2>3 DEF Wait, SelectNone, Schedule, GroupTaken, IInv, TypeOK
  <2>4. CASE SkipScheduled(t)
    BY <2>4 DEF SkipScheduled, GroupTaken, IInv, TypeOK
  <2> QED BY <1>3, <2>1, <2>2, <2>3, <2>4 DEF LockedStep
<1>4. CASE Discard(t) \/ Reset(t)
  BY <1>4 DEF Discard, Reset, GroupTaken, IInv, TypeOK
<1>5. CASE StartCallback(t) \/ FailedTake(t) \/ EndCallback(t)
  BY <1>5 DEF StartCallback, FailedTake, EndCallback, GroupTaken, IInv, TypeOK
<1>6. CASE ReleaseGroup(t)
  BY <1>6 DEF ReleaseGroup, GroupTaken, IInv, TypeOK
<1>7. CASE HighWait(t) \/ Unschedule(t)
  BY <1>7 DEF HighWait, Unschedule, GroupTaken, IInv, TypeOK
<1> QED BY <1>1, <1>2, <1>3, <1>4, <1>5, <1>6, <1>7 DEF RunStep

\* Callers of spin() hold nothing when they come and go, and the environment
\* takes no group.
LEMMA NextLosesNoGroup ==
  ASSUME ~MayCancel
  PROVE  IInv /\ SpinningInv /\ GroupNotLost /\ [Next]_vars => GroupNotLost'
<1> SUFFICES ASSUME IInv, SpinningInv, GroupNotLost, [Next]_vars
             PROVE  GroupNotLost'
  OBVIOUS
<1>1. ASSUME NEW c \in Callers, SpinEnter(c) \/ SpinRefused(c) \/ SpinStep(c)
      PROVE  GroupNotLost'
  <2>1. UNCHANGED <<canBeTaken, anyExecutable>>
    BY <1>1 DEF SpinEnter, SpinRefused, SpinStep, StartThreads, JoinThreads
  <2>2. \A u \in Threads : pc[u] \in InHand => pc'[u] = pc[u]
    <3>1. CASE StartThreads(c)
      BY <3>1 DEF StartThreads, IInv, SpinInv
    <3> QED
      BY <1>1, <3>1
         DEF SpinEnter, SpinRefused, SpinStep, JoinThreads, IInv, TypeOK
  <2> QED BY <2>1, <2>2 DEF GroupNotLost, GroupTaken
<1>2. CASE Environment
  <2>1. UNCHANGED <<pc, anyExecutable, canBeTaken>>
    BY <1>2 DEF Environment, MessageArrives, TimerDue, Cancel, Shutdown
  <2> QED BY <2>1 DEF GroupNotLost, GroupTaken
<1>3. CASE UNCHANGED vars
  BY <1>3 DEF vars, GroupNotLost, GroupTaken
<1> QED BY <1>1, <1>2, <1>3, RunStepLosesNoGroup DEF Next

\* Nobody is in spin(), and every group is free.
LEMMA InitSpinning == Init => SpinningInv /\ GroupNotLost
BY ThreadAssumption DEF Init, SpinningInv, OneSpin, InSpin, GroupNotLost

\* Without cancel() two calls of spin() never overlap: the second one throws
\* (priority_executor.cpp:639-641) until the first has joined its threads.
THEOREM OneSpinAtATime == ASSUME ~MayCancel PROVE Spec => []OneSpin
<1>1. IInv /\ SpinningInv /\ [Next]_vars => SpinningInv'
  BY NextKeepsSpinning
<1>2. SpinningInv => OneSpin
  BY DEF SpinningInv
<1> QED BY <1>1, <1>2, InitSpinning, InductiveInvariant, PTL DEF Spec

\* Without cancel() a group is marked as taken only while a thread has one of
\* its callbacks in hand, timer overruns included ("This is reset to true ...",
\* priority_executor.cpp:704-705): no node is cut off for good.
THEOREM NoGroupIsLost == ASSUME ~MayCancel PROVE Spec => []GroupNotLost
<1>1. IInv /\ SpinningInv /\ [Next]_vars => SpinningInv'
  BY NextKeepsSpinning
<1>2. IInv /\ SpinningInv /\ GroupNotLost /\ [Next]_vars => GroupNotLost'
  BY NextLosesNoGroup
<1> QED BY <1>1, <1>2, InitSpinning, InductiveInvariant, PTL DEF Spec
=============================================================================
