# Verification of the deadline-driven ROS 2 multi-threaded executor

TLA+ models, TLC runs and TLAPS proofs for the priority and deadline executors
in `source_code/src/priority_executor` of this repository, for its timers
(`source_code/src/simple_timer`) and for its response-time analysis
(`source_code/response_time_model`). Paths below are relative to the first of
these; `cpp` is `src/priority_executor.cpp`, `strategy` is
`include/priority_executor/priority_memory_strategy.hpp`, `hpp` is
`include/priority_executor/priority_executor.hpp`. rclcpp (Foxy) is not part of
the repository: what the code relies on of it is modelled from its use here and
marked external in `PROJECT.json`.

## 1. Inventory

| Component | State | Operations | Modelled in |
|---|---|---|---|
| `MultiThreadTimedExecutor` (cpp 347-710) | `wait_mutex_` (two priorities), `scheduled_timers_`, `spinning`, one `any_executable` per thread | `spin`, `run`, `wait_for_work`, `get_next_executable`, `get_next_ready_executable`, `execute_subscription` | MultiThreadExecutor |
| `TimedExecutor`, single-threaded (cpp 27-342) | `weak_nodes_`, `guard_conditions_`, `use_priorities` | the same, without threads; it also cleans up expired nodes | TimedExecutor |
| `PriorityMemoryStrategy`: entities (strategy 243-567, 982-1374) | handles per kind, the heap `all_executables_`, `priority_map`, `guard_conditions_` | `clear_handles`, `collect_entities`, `add_handles_to_wait_set`, `remove_null_handles`, `get_next_*` | TimedExecutor; groups taken by other threads in MultiThreadExecutor |
| `PriorityMemoryStrategy`: deadlines (strategy 769-976), `PriorityExecutableComparator` (154-241) | per chain: a vector of deadline queues; per callback: `cur_index`, `counter`; per timer: `release_time` | the tail of `get_next_executable`; the comparator | ChainDeadlines; its numbers in TimerArithmetic and ReleaseTime |
| Nodes of the experiments (`src/test_nodes.cpp`) | topics with history depth 1 | `PublisherNode`, `DummyWorker`, `MuExWorker` | the workload of ChainDeadlines; topics and runtimes in Experiments |
| Experiment programs (`src/multi_test.cpp`, `muex_test.cpp`, `arb_test.cpp` and six more) | tables, the settings they give the strategy, first release times | `main` | Experiments |
| `simple_timer` | shortest, longest and last interval | `tick`, `start`, `stop` | IntervalTimers |
| Response-time analysis (`theorem_1.cpp`, `theorem_2.cpp`) | the gap searched, the bounds found | the search loops | ResponseTime |
| `ROSDefaultExecutor` | none of its own | `spin` of rclcpp with CPU affinity | not modelled |
| Programs CMakeLists.txt does not build | constants | `main` | not modelled |
| `primes_workload` | none | busy loop | not modelled |

How they interact. The threads of an executor share the memory strategy, the
callback groups' `can_be_taken_from` flags, `scheduled_timers_` and two stop
flags (`spinning`, and `rclcpp::ok` of the context). A thread takes the
low-priority lock of `wait_mutex_`, and under it collects the entities of free
groups, waits for at most 1 ms, and asks the strategy for the best ready one.
The strategy's choice has side effects: a timer at the head of a DEADLINE chain
pushes the *next* instance's deadline, the last callback pops one. Then the lock
is left and the callback runs; the group is freed without any lock, the timer is
erased from `scheduled_timers_` under the high-priority lock, which goes ahead
of all low-priority waiters. A callback publishes to the next one of its chain,
and the last experiment callback calls `rclcpp::shutdown`. All this rests on
what an experiment hands over before it spins: which callback is first, which
last, whose queues it sees, when its timer is due first.

What is hard, and which property is about it (the lines are in the hazards of
`PROJECT.json`):

* a flag is freed without a lock while another thread has just read it under the
  lock - `GroupMutex`, `CollectedStaysFree`;
* an executable is *chosen* at one moment and *executed* at another, and a
  cancel, another thread's execution or the destructor of `any_executable`
  comes in between - `GroupNotLost`, `TimerCalledWhenDue`, `NoSharedTimer`;
* what is chosen was collected before a wait of up to 1 ms, and seen as ready
  before the choice - `ChoiceIsFresh`, `OlderInstanceFirst`;
* every thread must find its way out - `CancelEndsSpin`, `ShutdownEndsSpin`;
* a lost group flag silently stops a node - `WorkIsExecuted`;
* callbacks of a chain count on their own and must agree for ever which queue
  belongs to which instance, however late they are, whatever message is lost
  and whichever node expires - `ReadyHasDeadline`, `SeenWithinAPeriod`,
  `DeadlineLedger`, and while nothing of that happens `SeenIsDue` and
  `EarliestDeadlineFirst`;
* the release time is computed beside rcl's, from readings of its own that are
  taken one after the other, cut to milliseconds and stored in 32 bits -
  `RecordWithinAPeriod`, `NoDrift`, `DeadlineInReach`;
* parallel lists of nodes and guard conditions, whose nodes expire at any
  moment - `GuardsInStep`, `WaitSetIsFresh`, `ExpiredNodesAreDropped`;
* unsigned differences and zeros that stand for "none" -
  `NotUnderestimated`, `ShortestSinceZero`.

## 2. Modules

| Module | What it is |
|---|---|
| MultiThreadExecutor, CallbackDispatch | the threads; what they promise |
| TimedExecutor | the single-threaded executor and the strategy's entities |
| ChainDeadlines | the deadline queues and the comparator, under chains of callbacks |
| TimerArithmetic | the two ways a timer is moved on, and rounding up |
| ReleaseTime | one timer's release times in the code's own units and widths |
| Experiments | what the nine programs set up |
| IntervalTimers, ResponseTime | simple_timer; theorem_1 and theorem_2 |
| MC*, *.cfg | instances for TLC |
| MultiThreadExecutorProofs, TimedExecutorProofs, ReleaseTimeProofs, ChainDeadlinesProofs, EarliestDeadlineProofs, IntervalTimersProofs, ResponseTimeProofs | the proofs of these; EarliestDeadlineProofs extends ChainDeadlinesProofs |
| ArithmeticProofs | lemmas on the steps of a timer and on sums, which the proofs share |

Definitions with a `_suffix` in the model modules are mutants: a plausible slip
in the code, used to see that a property notices it.

### MultiThreadExecutor

One action per step of `run()` between two points at which another thread can
interfere. `pc` says where a thread is.

| `pc` | code | actions |
|---|---|---|
| idle, thrown | outside `spin()` | SpinEnter, SpinRefused (cpp 633-642) |
| start, join | `spin()` | StartThreads, JoinThreads (643-660) |
| loop | `while (rclcpp::ok && spinning)` | LoopTest (576) |
| lock | waiting for the low-priority lock | Lock, RecheckReturn (578-585) |
| scan | `collect_entities`, `rcl_wait` | CollectGroup, one step per group, and Wait |
| select | `get_next_ready_executable` | Select, SelectNone |
| schedule | the timer guard | Schedule, SkipScheduled (593-605) |
| discard | `~AnyExecutable` after `continue` | Discard |
| execute, running, release | execution, outside the lock | StartCallback, FailedTake, SkipCancelled, EndCallback, ReleaseGroup |
| unschedule, highWait | the high-priority lock | HighWait, Unschedule (618-625) |
| reset | `callback_group.reset()` (629) | Reset |

Variables carry the code's names: `anyExecutable`, `canBeTaken` (the atomic of
every group), `scheduledTimers`, `lockHeld` (`wait_mutex_`), `collected` (the
strategy's handles), `spinning`, `ok`. `ready` is the middleware: messages that
wait and timers that are due. Which of the ready callbacks is chosen is left
open, so everything shown holds for every order of the strategy. `MayOverrun`
says whether a timer may come due again before its last execution is over;
`MayCancel` whether `cancel()` is called.

Abstractions: the body of a callback is the time between two actions, what it
does to the executor (publish, cancel, shut down) is an action that may happen
at any time; a topic keeps one message, as in the experiments; nodes do not
expire (TimedExecutor has that); waitables are left out, the strategy never
returns one with priorities.

### CallbackDispatch

The promise without the mechanism: a callback runs only for something that is
ready, a readiness is used once, mutually exclusive groups and timers are not
run twice at the same time. `ImplementsDispatch` states that
MultiThreadExecutor refines it, with `running` mapped to the callbacks between
StartCallback and EndCallback.

### ChainDeadlines

The DEADLINE part of `get_next_executable` and of the comparator, under the
load it is made for. A callback is `<<chain, position>>`; position 1 is the
timer, which may be shared (`isF1tenth`: chain 1 is fed by chain 0's timer).
`deadlines`, `curIndex`, `counter` and `releaseTime` are the code's, `nextCall`
is rcl's own state of a timer, `mailbox` a topic. The clock and rcl count ticks,
`TicksPerMs` to the millisecond, the strategy milliseconds. A message is the
release time of its instance, so `Pending` and `DueBy` say which instance a
callback is ready for and when that is due, and properties compare this with
what the comparator sees (`SeenDeadline`).

Init is the set-up of the experiments (muex_test.cpp:228-251): the timers are
created; then, chain by chain, the clock is read, and some time later how long
it is until the timer is due; the sum of both, each cut to milliseconds, is the
first release recorded and gives queue 0 its deadline. Time may pass between any
two of these, up to `SetUpTo - SetUpFrom`. A timer that feeds two chains is
recorded twice, the second time for good.

A round has three steps, as in the code. Collect takes the callbacks of free
groups (`collect_entities`), Wait keeps those that are ready when `rcl_wait`
returns, and Dispatch chooses among them; in between the clock moves, messages
arrive, groups are freed and other callbacks run. `candidates` is what the
thread has collected, and then what of it was ready. Dispatch is the whole tail
of `get_next_executable` (queues, index, counter); CallTimer and TakeMessage
come later, so the clock may move once more. One thread is in a round at a time
(MultiThreadExecutor shows that of the lock), and only a thread that is not busy
begins one.

Three things disturb a chain, each allowed or not by a constant: a message may
be lost to the next one (`MayOverwrite`), a node may expire (`Expiring`), also
after it was collected, when the bookkeeping is done for a callback that is then
not found (DispatchExpired), and a timer may be chosen again before it is erased
from `scheduled_timers_` (`MayOverrun`). `lost` and `late` are history
variables: `lost` counts instances whose last callback will never run; `late`
says that things were not `OnTime` at some moment: an instance past its
deadline, a timer more than a period overdue, by rcl's count or by the record's,
or a tick between the choice of a timer and its call. A set-up so long that this
is so from the start counts, too.

### TimerArithmetic and ReleaseTime

`FirstRelease` is what the set-up records (muex_test.cpp:236-246), `NextRelease`
the strategy's step (strategy 796-829), `NextCall` rcl's. ReleaseTime has one
timer with the code's widths: the first release goes through an `int` parameter,
deadlines are stored as `uint`; both wrap. The two readings of the set-up and
spin() come at any times within `SetUpTime` of the timer's creation. `prompt` is
a history variable: was the timer chosen no later than a period after its
recorded release, and called no later than a period after it was due, each time?

### Experiments

The nine programs CMakeLists.txt builds: their tables, the node loop with its
running index and its special cases for chains 1, 3 and 4, the settings given to
the strategy, topics, and the priming of queue 0. Its ASSUMEs state what
ChainDeadlines takes for granted - one first and one last callback per chain
that share its queues, a message from each callback to the next one and to
nobody else, equal deadlines of chains that share a timer - and what follows
from it for every program; MCChainDeadlines extends it, so TLC evaluates them in
both CD runs. The last one says why lateness matters: two of the programs
(arb_test and multi_arb) ask for more than their threads can do.

### TimedExecutor

`pc` walks through one round of `spin()`: BeginWait (`clear_handles`),
CollectNode (one node of `collect_entities` per step), FillWaitSet (clean-up of
expired nodes, wait set), Wait, Take / Skip / TakeNothing / ChooseNone
(`get_next_ready_executable` with or without priorities), Execute, EndCallback.
NodeExpires may come between any two. `weakNodes`, `guards` and `strategyGuards`
are the three lists the code keeps in step. `seen` is a history variable: the
nodes this collection found alive. Settings of entities (`set_executable_priority`
and its like, called before `spin`) are constants; an entity's group is its
node's default group, which is mutually exclusive. Of the comparator it has the
schedule types and priorities; deadlines are ChainDeadlines'.

### IntervalTimers and ResponseTime

IntervalTimers has both stopwatches of simple_timer with their `recording`
state, their delay and their statistics, in which 0 means "none yet"; `measured`
and `recent` are history variables. ResponseTime runs the search loops of
`theorem_1.cpp` and `theorem_2.cpp`, one gap per step, in unsigned arithmetic,
on the programs' own tables (MCResponseTime). Two of its ASSUMEs say what of
these tables the results rest on: `WordAssumption`, that the unsigned numbers are
large beside them, and `WindowAssumption`, on theorem_1.cpp:55 (section 5).

## 3. Runs

| Run | Question | Bounds |
|---|---|---|
| MTE_safety | `TypeOK`, `GroupMutex`, `CollectedStaysFree`, the inductive invariant `IInv`, refinement of CallbackDispatch | 2 callers, 1 worker (3 threads), an exclusive group (timer, subscription) and a reentrant one (timer); cancel, shutdown, no overruns; 390 000 states |
| MTE_overrun | what is left with overruns: `NoSharedTimer`, `TimerCalledWhenDue`, `IInv`; and `CancelEndsSpin` | 2 callers, 1 worker, a timer in an exclusive group and one in a reentrant group; cancel, shutdown and overruns; 250 000 states |
| MTE_nocancel | `GroupNotLost`, `OneSpin`, `WorkIsExecuted`, `ShutdownEndsSpin` | 2 callers, 1 worker; the reentrant group also has a service, which several threads can take for one request; shutdown, no cancel |
| CD_chains | all properties of ChainDeadlines: ready callbacks see a deadline, less than a period after their own, and their own but for what the set-up was off while on time; the record is less than a period ahead; the ledger of the queues; what is chosen is fresh; older instance first; earliest deadline first | two chains of 2 and 3 callbacks with two queues each, on one timer or two, set up at two ticks of the clock, one worker node shared by both, 2 threads; arbitrarily late, lost messages, three nodes that may expire; 2 ticks to the millisecond, 7 ms; 720 000 states |
| TE_nodes | lists, groups and progress with expiring nodes, and `IInv` | 2 nodes, 4 entities (timer, client, subscription, waitable), both ways to choose |
| RT_uptime | `NoDrift`, `DeadlineInReach` | 2 ticks to the millisecond, period 4 ms, a set-up of up to 4.5 ms, `int` up to 15; set up at ten uptimes around the wraps; 600 000 states |
| IT_timers | `LongestIsKept`, `ShortestSinceZero`, `DelayIsNotMeasured` | delay 2, ten ticks; 630 000 states |
| RA_bounds | `NotUnderestimated`, `CoversOwnRuntime`, `EveryBoundIsFound` | the two programs' tables, a `uint64_t` of 30 bits and a `uint` of 15; 2 800 states |
| MTE_overrun_mutex, MTE_cancel_lost, CD_skipped, TE_waitable | violations, see section 5 | smallest instance that shows each |

Why these bounds are enough to be interesting. Two threads are needed for every
race of section 1, and one thread in `select` while a second one frees a group
and a third one waits with high priority is the deepest interplay of the mutex;
MTE_safety has it. One exclusive and one reentrant group differ in exactly the
branch of Select. In MTE_overrun a second caller may spin() as soon as cancel()
has cleared `spinning`, while the threads of the first call are still on their
way out. In ChainDeadlines 7 ms are almost three periods of one timer and two
of the other: enough for both indices to wrap, for a chain to be late by more
than a period, to lose messages and to lose a node, in any combination; two
ticks to the millisecond and a tick between the set-up's readings are enough for
a record that is early by a whole millisecond, and so for the jump of section 5.
`MaxTime` bounds the clock and with it all counters; the proofs have no such
bound. Two nodes are enough for one to expire before and one after it was
collected. RT_uptime's clock goes on for a dozen periods past each wrap.
ResponseTime needs no bound: its tables are the programs'.

CHECK_DEADLOCK is off where the system really stops: at the clock's bound
(ChainDeadlines, ReleaseTime, IntervalTimers), when all bounds are found
(ResponseTime), and in TimedExecutor after a shutdown with nothing left to do.
In MultiThreadExecutor a deadlock is an error and none is found in the runs
that pass.

## 4. Fairness

MultiThreadExecutor: weak fairness for the steps of every thread in `run()` and
of every caller between StartThreads and JoinThreads. Threads are scheduled
preemptively and callbacks of these nodes end, so a thread whose next step stays
possible takes it; a thread that waits for a lock others keep taking has no such
promise, and the properties do not need it. Nothing obliges the application to
call `spin`, nor messages to arrive. TimedExecutor: weak fairness for the one
thread. ResponseTime: weak fairness of its only loop, which is sequential and
waits for nothing. ChainDeadlines, ReleaseTime and IntervalTimers state no
liveness.

`WorkIsExecuted` of MultiThreadExecutor is false with `cancel()`, since a lost
group stops a node (MTE_cancel_lost), hence MTE_nocancel. In TimedExecutor a
failed take counts as progress: the middleware may refuse every take.

## 5. Disagreements with the code's own words

* **Double release with overruns** (MTE_overrun_mutex; cpp 596-604). A timer
  skipped by the `scheduled_timers_` guard frees its group under the lock, and
  `~AnyExecutable` frees it again afterwards, perhaps after another thread took
  it: two callbacks of one exclusive group run at once. The comment there says
  the group is reset "before the lock is released"; the flag is, the pointer is
  not.
* **Group lost by cancel** (MTE_cancel_lost; cpp 616, 629).
  `execute_any_executable` does nothing once `spinning` is false, and
  `callback_group.reset()` disarms the destructor.
* **Skipped, but accounted for** (CD_skipped; cpp 595). The timer guard comes
  after the strategy's bookkeeping. A timer that overruns is skipped, but its
  release time, queue and index have moved on: the record is a whole period
  ahead of the timer's next call until the timer is served more than a period
  late.
* **Ready waitables** (TE_waitable; strategy 738). Their settings hold no
  pointer, so a ready one ends every round with nothing, and what is behind it
  in the order starves.

Observed, and not stated as disagreements since nothing in the repository says
otherwise:

* With `cancel()`, two calls of `spin()` can overlap (cpp 639): `OneSpin` is
  proved without it only. A second `spin()` that comes before the threads of the
  first one have looked at `spinning` again sets it again, and the first call
  goes on; `CancelEndsSpin` says that nothing else keeps it from returning.
* The record of a timer can get almost a period ahead of rcl without any
  overrun. It is early to begin with: by what the two readings of the set-up
  lose when they are cut, and the time between them (muex_test.cpp:236-238).
  When the timer is chosen just under a period late, it is late by more than one
  to the record, and the strategy adds two periods (strategy 805, 825-829) where
  rcl adds one. From then on the chain's deadlines are almost a period too late,
  until the timer is served late by more than a period once more.
  `RecordWithinAPeriod`, `SeenWithinAPeriod` and `DeadlineInReach` say that it
  is never a whole period or more; `NoDrift` and `SeenIsDue` that it does not
  happen while timers are served within a period.
* The executor chooses among what it collected up to 1 ms before (cpp 521): a
  callback with an earlier deadline that becomes ready, or whose group is freed,
  in between waits for the next round. `EarliestDeadlineFirst` and
  `OlderInstanceFirst` are about what was collected and ready.
* Chains fed by one timer have equal deadlines, so the tie-break by counter
  (strategy 229) compares callbacks of different chains; it is meaningful within
  a chain (`OlderInstanceFirst`).
* A `uint` of milliseconds wraps after 49.7 days of uptime. A deadline beyond
  the wrap is then the smaller number and goes first, and one that wraps to 0 is
  taken for "no deadline". ReleaseTime has the widths (`DeadlineInReach` is
  stated up to the wrap), ChainDeadlines has a clock without one.
* A late chain may be seen with the deadline of an older instance of its own,
  so that while a chain is late its timer may overtake another chain.
* theorem_1.cpp:55 subtracts from the gap the window times the period, where the
  line commented out above it subtracts whole periods. The difference is then
  below zero, wraps, and the minimum takes a whole run of the chain: more than
  intended, hence safe. It is so since the tables' windows are long; for two
  deadlines a time unit apart or so the difference may stay positive and small,
  and the demand would come out below the intended one. `WindowAssumption` names
  what the tables satisfy.
* The strategy reads CLOCK_MONOTONIC_RAW, rcl a steady clock that is slewed by
  NTP; the models have one clock. The two may drift apart in reality, by their
  difference in rate.

## 6. Proofs

What a theorem assumes is what the ASSUMEs of its module name, and where it
says "without overruns", `~MayOverrun`.

### MultiThreadExecutorProofs

For any sets of threads, callbacks and groups (workers and callers differ, a
worker has one caller, timers and subscriptions are disjoint, every callback has
a group):

| Theorem | Says |
|---|---|
| InductiveInvariant, TypeCorrect | `IInv` and `TypeOK` are invariants |
| NoTwoThreadsShareATimer | `[]NoSharedTimer`, overruns and cancel included |
| TimersAreDueWhenCalled | `[]TimerCalledWhenDue` |
| AssertionHolds | `[]CollectedStaysFree`: the assertion at cpp 702 cannot fail |
| MutualExclusion | without overruns, `[]GroupMutex` |
| ImplementsCallbackDispatch | without overruns, `ImplementsDispatch` |
| OneSpinAtATime, NoGroupIsLost | without cancel, `[]OneSpin` and `[]GroupNotLost` |

`GroupMutex` alone is not inductive. `LockInv` gives the lock one holder, so one
thread at a time is in `scan`, `select` or `schedule`; flags are lowered only
there, and therefore what was collected stays free (`CollectedStaysFree`).
`HoldInv` says when `anyExecutable` holds something. `TimerInv` ties
`scheduledTimers` to the threads busy with a timer, and says that a timer that
was seen as due and is not any more is still in it: that makes the guard at cpp
593 sufficient. `OwnerInv` gives an exclusive group one owner and none while its
flag is up, which is broken by one action only, Discard, which frees a group it
does not own. `NoOverrunInv` shows that Discard does not happen to exclusive
groups when timers do not overrun. That is why both parts are conditional on
`~MayOverrun`; MTE_overrun_mutex shows they cannot be unconditional. The
refinement needs `IInv` at StartCallback: what starts is ready and not excluded.
Without cancel, `spinning` stays up while any thread is in `run()` as long as
the context is ok (`SpinningInv`), so SkipCancelled, the one step that loses a
group, does not happen.

### TimedExecutorProofs

For any nodes and entities: `TypeOK`, `GuardsInStep`, `WaitSetIsFresh` and
`GroupsFreeWhenChoosing` are invariants. The strengthening (`IInv`): no node is
in the lists twice; a node the collection passed and did not find alive has made
it invalid and is erased before the wait set is filled; only the group of
`any_executable` is marked as taken.

### ArithmeticProofs and ReleaseTimeProofs

What the set-up records is early by the time between its readings and less than
two milliseconds, or late by less than one (`FirstReleaseFacts`). Both steps of
a timer go at least one period on, in whole periods, do not end in the past and
overshoot by less than a period; the strategy reads the clock first. From that,
for every period and resolution: a record that is less than a period ahead of
rcl when the timer is due is so again after the choice and the call, however
late they are (`RecordAfterDispatch`, `RecordAfterCall`); and when the timer is
chosen and called no more than a period late each side adds exactly one.

ReleaseTimeProofs has both for every width, too. `AheadInv` says less than a
period ahead, between the choice and the call of what the call will make of the
timer; `StepInv` that record and timer are as far apart as the set-up left them
while the timer is served within a period, from which `NoDrift` follows; and
`PushedInv` that what was pushed is the recorded release's deadline, or the
first one's, whether that fitted into an `int` or not. So `DeadlineInReach`:
however late the timer, the `uint` pushed is the deadline of a release less than
a period after the next call and not over when the timer was chosen.

The second half of ArithmeticProofs is about `SumFunction`, which folds a
function's values in an order nobody fixes: that it is defined at all for every
finite domain, is a natural number, is monotone, is 0 for zeros, and moves by
exactly what one term moves. The ledger and the demands of ResponseTime are such
sums.

### ChainDeadlinesProofs, EarliestDeadlineProofs

For any chains, lengths, periods and deadlines, so for any number of queues:

| Theorem | Says |
|---|---|
| ChainDeadlinesProofs!TypeCorrect | `[]TypeOK`, overruns included: every index stays inside the vector of queues |
| ChoiceStaysFresh | `[]ChoiceIsFresh`, overruns included |
| RecordStaysWithinAPeriod | without overruns, `[]RecordWithinAPeriod` |
| ReadyHasADeadline, DeadlineSeenWithinAPeriod | without overruns, `[]ReadyHasDeadline`, `[]SeenWithinAPeriod` |
| QueuesAreALedger | without overruns, `[]DeadlineLedger` |
| OlderRunsFirst | without overruns, `OlderInstanceFirst` |
| SeenDeadlineIsDue, EarliestDeadlineRunsFirst | without overruns, `[]SeenIsDue`, `EarliestDeadlineFirst` |

CD_skipped shows that overruns have to be excluded. Late chains, lost messages
and expiring nodes are not, in all but the last two.

The argument. (1) What a round has collected stays idle, alive and in a free
group, since only the thread in the round takes callbacks (`RoundInv`). (2)
Along a chain counters do not increase (`OrderInv`): a callback is given at most
as many messages as its predecessor ended runs. (3) An index is the counter
modulo the number of queues (`IndexInv`, `OnGrid`). (4) A chain's deadlines form
one sequence that is dealt out to its queues in turn: `Line(c, e)` says for some
sequence `e` that queue `q` holds every n-th of the deadlines between the last
callback's counter and the timer's; the timer's dispatch adds one, the last
callback's takes one. (5) A callback that is ready has a counter between these
two, so its queue has a front, and that is a deadline of its own number or of an
older one. (6) The record is less than a period ahead of its timer
(`ReleaseInv`), and so is every release whose deadline was pushed (`Reach`);
hence all deadlines up to the number of what a callback holds are less than a
period too late for it (`Held`), and `Held` is handed on with the message. (4)
to (6) together are `StoryInv`.

The ledger counts: `Queued(c)` is a sum over queues, `InFlight(c)` the number of
callbacks and topics of the chain's path that hold an instance. Each action is
matched by what it does to both sides. The timer's dispatch pushes one deadline,
for each chain it feeds, and puts itself in flight; Finish hands an instance on,
to a topic or to `lost`; the last callback takes one out of flight and pops one,
and there is one to pop, since `StoryInv` says that its queue has a front; an
expiring node moves what it held to `lost`. That a callback at work has a node,
a message and a timer is `HeldInv`.

For the order of execution: instances do not overtake each other along a chain
(`AgeInv`), so of two callbacks in the round that look at the same queue the one
with the smaller counter, which the comparator takes, has the older instance.
While nothing is late or lost, every callback is given exactly as many messages
as its predecessor ended runs (`ExactInv`), so an instance has one number all
along the chain (`Numbered`), and the instances of consecutive numbers are a
period apart (`PacedInv`). A timer's record is as far off its next call as the
set-up left it (`TimerInv`), since neither side ever adds more than a period,
and with it every deadline is as far off its instance's (`TrackInv`). No
instance at hand is past its deadline (`FreshInv`), and the newest was released
in the past: that leaves room for fewer than `MaxChainNum` instances behind the
one in question (`WithinATurn`), so no two share a queue. Hence the front a
callback sees is its own instance's deadline but for what the set-up was off,
and the comparator's order is that of the deadlines, but for that twice.

### IntervalTimersProofs

For every start delay, however long the clock runs and whoever calls `tick`,
`start` and `stop` in whatever order: `TypeOK`, `LongestIsKept`,
`ShortestSinceZero` and `DelayIsNotMeasured`. The strengthening says of each
stopwatch that `max` is the greatest of all it measured and `min` the least of
`recent`, 0 standing for none (`Kept`), that a 0 in `recent` is alone there,
since the next interval replaces it, and that what is being recorded began after
the delay and not in the future (`Begun`).

### ResponseTimeProofs

For every number of chains, every table and every number of threads that satisfy
the module's ASSUMEs: `TypeOK`, `NotUnderestimated` and `CoversOwnRuntime`. The
inductive invariant bounds the search: the gap is never longer than
`LongestGap`, because the demand of any gap is at most `MostDemand`, a gap that
is not idle has `threads * gap` at most that, and so the next one is at most
`LongestGap`. Within it no sum wraps (`WordAssumption`), term by term every
computed demand is at least the intended one (`WindowAssumption` for
theorem_1.cpp:55), and at least what the chain itself needs, so a gap that is
idle is long enough for it. That the search is bounded says that it ends, given
fairness; that last step, `EveryBoundIsFound`, is left to TLC.

The two ASSUMEs hold of the programs' tables, where TLC evaluates them in
RA_bounds. For tables that break them the properties may be false: numbers that
are too large wrap, and with short windows theorem_1.cpp:55 can come out too
small (section 5).

### Only model-checked

All liveness (`WorkIsExecuted`, `WorkIsExecutedOrBlocked`, `CancelEndsSpin`,
`ShutdownEndsSpin`, `ExpiredNodesAreDropped`, `EveryBoundIsFound`): out of the
prover's reach. Every other property of a passing run is a theorem. The ASSUMEs
of Experiments are finite and evaluated by TLC completely.

## 7. Not modelled

* Seven programs that CMakeLists.txt does not build, and the default executor.
* `blocking_time.cpp` (tables, nothing is computed), `UUniFast.cpp` (a stub),
  `rt-sched.cpp` (system calls), the busy loop, logging, CPU affinity, thread
  priorities.
* Exceptions from rcl (`throw_from_rcl_error`): they end the program.
* `add_waitable_handle` and the `number_of_*` getters of the strategy: no entity
  uses the first, the second size the wait set.
* std::priority_queue as an array. The comparator is no strict weak order when
  deadlines are missing, and callbacks that are not ready but have an empty
  queue are in the heap, too. A callback without a deadline rises only over
  others without one, and is never preferred to one with a deadline when the top
  is taken off; among callbacks with deadlines the order is strict. So what is
  on top is maximal, as IsNext says; and by `ReadyHasDeadline` no ready callback
  of a chain is without a deadline.
* Nodes that expire under the multi-threaded executor: its clean-up (cpp 485-506)
  is the one of TimedExecutor, under the lock.

## 8. Plan

Done, in this order: MultiThreadExecutor with CallbackDispatch and their proofs;
ChainDeadlines; TimedExecutor; the proofs of TimedExecutor; TimerArithmetic and
ReleaseTime with their proofs; expiring nodes and overruns in ChainDeadlines;
its proofs; Experiments; IntervalTimers; ResponseTime; the lemmas on sums, the
ledger of the queues, and the proofs of IntervalTimers and ResponseTime.

What would come next:

1. What holds of the deadlines with overruns, where CD_skipped shows that the
   record may be a whole period ahead: by how much at most.
2. The heap of `all_executables_` as an array, with the comparator's non-strict
   order, against "a maximal element is on top".
3. MultiThreadExecutor with expiring nodes, composed with TimedExecutor's lists.
4. A response-time bound of ResponseTime against a schedule of ChainDeadlines
   with execution times.
