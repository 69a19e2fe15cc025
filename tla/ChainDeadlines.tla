---------------------------- MODULE ChainDeadlines ----------------------------
(***************************************************************************)
(* The deadline bookkeeping of PriorityMemoryStrategy                      *)
(* (priority_memory_strategy.hpp) under the work it is made for: chains of *)
(* callbacks, a timer first and subscriptions after it, every callback     *)
(* publishing to the next one over a topic that keeps the last message     *)
(* (test_nodes.cpp), set up as in the experiments (muex_test.cpp).         *)
(*                                                                         *)
(* A chain has a vector of MaxChainNum deadline queues.  Its k-th instance *)
(* belongs in queue k mod MaxChainNum; every callback of the chain counts  *)
(* its own dispatches in curIndex to know which queue to look at, the      *)
(* timer's dispatch pushes the deadline of the NEXT instance, and the last *)
(* callback's dispatch pops the deadline of its instance.                  *)
(*                                                                         *)
(* The clock and rcl's timers count ticks, TicksPerMs to the millisecond,  *)
(* the strategy's release times and deadlines milliseconds.  A message is  *)
(* the release of the instance it belongs to, in ticks (the code sends a   *)
(* running number and passes it down the chain).                           *)
(*                                                                         *)
(* One thread at a time, the one that has wait_mutex_, goes through a      *)
(* round: it collects the callbacks of free groups, waits, and chooses     *)
(* among those of them that were ready when the wait was over, while the   *)
(* others run callbacks.  What the lock does is MultiThreadExecutor's      *)
(* concern: here at most NumThreads callbacks are busy, one per group.     *)
(*                                                                         *)
(* Three things disturb a chain: a message may be lost to the next one on  *)
(* its topic (MayOverwrite), a node may expire (Expiring), and a timer may *)
(* be chosen again before its last execution is erased from                *)
(* scheduled_timers_ (MayOverrun): the bookkeeping is done all the same.   *)
(***************************************************************************)
EXTENDS Sequences, FiniteSets, FiniteSetsExt, TimerArithmetic

CONSTANTS
  Chains,        \* chain ids
  Length,        \* number of callbacks of a chain
  MaxLength,     \* of the longest one
  Period,        \* period of a chain's timer
  Deadline,      \* relative deadline of a chain
  GroupOf,       \* the mutually exclusive group of a callback
  F1tenth,       \* the values is_f1tenth may have
  NumThreads,    \* threads of the executor
  TicksPerMs,    \* ticks of the clock to a millisecond
  SetUpFrom,     \* when the first timer is created, and
  SetUpTo,       \* when spin() is called, in ticks of uptime
  MayOverwrite,  \* may a message be lost to the next one on its topic?
  MayOverrun,    \* may a timer be chosen that is still in scheduled_timers_?
  Expiring,      \* groups whose node may expire
  MaxTime        \* bound on the clock

\* A callback is <<chain, position>>, the timer comes first.
Timers == Chains \X {1}
Subscriptions == {cb \in Chains \X (2..MaxLength) : cb[2] <= Length[cb[1]]}
Callbacks == Timers \union Subscriptions

Groups == {GroupOf[cb] : cb \in Callbacks}

MaxChainNum(c) == CeilDiv(Deadline[c], Period[c])

Ticks(ms) == ms * TicksPerMs

\* With is_f1tenth the timer of chain 0 also pushes its deadlines to chain 1's
\* queues, so chain 1 has as many, or it would index past their end, and in
\* every experiment the same relative deadline.  The machine has been up for longer
\* than the set-up takes.
ASSUME ChainAssumption ==
  /\ IsFiniteSet(Chains) /\ Chains # {} /\ Chains \subseteq Nat
  /\ MaxLength \in Nat /\ Length \in [Chains -> 2..MaxLength]
  /\ Period \in [Chains -> Nat \ {0}]
  /\ Deadline \in [Chains -> Nat \ {0}]
  /\ F1tenth \subseteq BOOLEAN
  /\ TRUE \in F1tenth =>
       /\ {0, 1} \subseteq Chains
       /\ MaxChainNum(0) = MaxChainNum(1) /\ Deadline[0] = Deadline[1]
  /\ NumThreads \in Nat \ {0} /\ TicksPerMs \in Nat \ {0}
  /\ SetUpFrom \in Nat \ {0} /\ SetUpTo \in SetUpFrom .. 2 * SetUpFrom
  /\ MaxTime \in Nat /\ SetUpTo <= MaxTime
  /\ MayOverwrite \in BOOLEAN /\ MayOverrun \in BOOLEAN

NoMessage == 0    \* no instance is released at time 0
NoTimer == 0      \* nor is a timer due then

VARIABLES
  isF1tenth,    \* is_f1tenth: chain 1 is triggered by the timer of chain 0
  now,
  nextCall,     \* rcl's next_call_time of a timer, in ticks
  releaseTime,  \* *release_time of a timer's PriorityExecutable
  deadlines,    \* the deadline queues of a chain
  curIndex,     \* *cur_index of a callback
  counter,      \* counter of a callback: how often it was dispatched
  mailbox,      \* the message waiting at a subscription
  phase,        \* of a callback: "idle", "taken" by a thread, "running"
  instance,     \* the instance a busy callback runs for
  scheduled,    \* scheduled_timers_
  gone,         \* groups whose node has expired
  round,        \* of the thread with wait_mutex_: "none", "waiting", "choosing"
  candidates,   \* what it has collected; those of it that are ready
  lost,         \* (history) instances of a chain whose last callback never runs
  late          \* (history) has any callback been late? see OnTime

timerVars == <<nextCall, releaseTime>>
queueVars == <<deadlines, curIndex, counter>>
roundVars == <<round, candidates>>
history == <<lost, late>>
vars == <<isF1tenth, now, timerVars, queueVars, mailbox, phase, instance,
          scheduled, gone, roundVars, history>>

\* The chain whose timer triggers c.
Triggered(c) == IF isF1tenth /\ c = 1 THEN 0 ELSE c

HasTimer(c) == Triggered(c) = c

\* The chains whose queues the timer of chain c feeds, with c's deadline.
Fed(c) == {d \in Chains : Triggered(d) = c}

Queues(c) == 0 .. MaxChainNum(c) - 1

TypeOK ==
  /\ isF1tenth \in F1tenth
  /\ now \in 0..MaxTime
  /\ nextCall \in [Chains -> Nat]
  /\ releaseTime \in [Chains -> Nat]
  /\ deadlines = [c \in Chains |-> deadlines[c]]
  /\ \A c \in Chains : deadlines[c] \in [Queues(c) -> Seq(Nat)]
  /\ curIndex \in [Callbacks -> Nat]
  /\ \A cb \in Callbacks : curIndex[cb] \in Queues(cb[1])
  /\ counter \in [Callbacks -> Nat]
  /\ mailbox \in [Subscriptions -> Nat]
  /\ phase \in [Callbacks -> {"idle", "taken", "running"}]
  /\ instance \in [Callbacks -> Nat]
  /\ scheduled \subseteq Timers
  /\ gone \subseteq Groups
  /\ round \in {"none", "waiting", "choosing"}
  /\ candidates \subseteq Callbacks
  /\ lost \in [Chains -> Nat]
  /\ late \in BOOLEAN

(***************************************************************************)
(* Ready, and on time.                                                     *)
(***************************************************************************)
Alive(cb) == GroupOf[cb] \notin gone

Ready(cb) ==
  /\ Alive(cb)
  /\ IF cb \in Timers THEN HasTimer(cb[1]) /\ now >= nextCall[cb[1]]
                     ELSE mailbox[cb] # NoMessage

\* The instance a callback is ready, or already taken, for.
Pending(cb) ==
  IF phase[cb] = "running" THEN instance[cb]
  ELSE IF cb \in Timers THEN nextCall[cb[1]] ELSE mailbox[cb]

RelativeDeadline(cb) == Deadline[Triggered(cb[1])]

DueBy(cb) == Pending(cb) + Ticks(RelativeDeadline(cb))

\* At time t every instance at hand is before its deadline, and no timer is more
\* than a period overdue, by rcl's count or by the strategy's, or dispatched and
\* not called in the same tick.
OnTime(t) ==
  /\ \A cb \in Callbacks :
       phase[cb] # "idle" \/ Ready(cb) => t < DueBy(cb)
  /\ \A cb \in Subscriptions :
       mailbox[cb] # NoMessage => t < mailbox[cb] + Ticks(RelativeDeadline(cb))
  /\ \A cb \in Timers : HasTimer(cb[1]) /\ Alive(cb) =>
       /\ phase[cb] # "taken"
       /\ t <= nextCall[cb[1]] + Ticks(Period[cb[1]])
       /\ Millis(t, TicksPerMs) <= releaseTime[cb[1]] + Period[cb[1]]

(***************************************************************************)
(* The set-up: all timers are created; then, chain by chain, the clock is  *)
(* read, and how long it is until the timer is due; the sum is the release *)
(* time of the timer and gives queue 0 its first deadline.  A timer that   *)
(* triggers two chains is recorded for the second one again.               *)
(***************************************************************************)
SetUp == SetUpFrom .. SetUpTo

\* before and after, for each chain: the two readings.
InOrder(before, after) ==
  \A c, d \in Chains : before[c] <= after[c] /\ (c < d => after[c] <= before[d])

\* The chain for which c's timer is recorded last.
LastFed(c) == CHOOSE d \in Fed(c) : \A e \in Fed(c) : e <= d

Init ==
  /\ isF1tenth \in F1tenth
  /\ now = SetUpTo
  /\ \E created, before, after \in [Chains -> SetUp] :
       LET first == [c \in Chains |-> FirstRelease(nextCall[Triggered(c)],
                                        before[c], after[c], TicksPerMs)]
       IN  /\ InOrder(before, after)
           /\ \A c, d \in Chains : created[c] <= before[d]
           /\ nextCall = [c \in Chains |->
                IF HasTimer(c) THEN created[c] + Ticks(Period[c]) ELSE NoTimer]
           /\ releaseTime = [c \in Chains |->
                IF HasTimer(c) THEN first[LastFed(c)] ELSE NoTimer]
           /\ deadlines = [c \in Chains |-> [q \in Queues(c) |->
                IF q = 0 THEN <<first[c] + Deadline[c]>> ELSE <<>>]]
  /\ curIndex = [cb \in Callbacks |-> 0]
  /\ counter = [cb \in Callbacks |-> 0]
  /\ mailbox = [cb \in Subscriptions |-> NoMessage]
  /\ phase = [cb \in Callbacks |-> "idle"]
  /\ instance = [cb \in Callbacks |-> NoMessage]
  /\ scheduled = {}
  /\ gone = {}
  /\ round = "none" /\ candidates = {}
  /\ lost = [c \in Chains |-> 0]
  /\ late = ~OnTime(now)

-----------------------------------------------------------------------------
(***************************************************************************)
(* Collect, and wait.                                                      *)
(***************************************************************************)
Busy == {cb \in Callbacks : phase[cb] # "idle"}

GroupFree(cb) == \A b \in Busy : GroupOf[b] # GroupOf[cb]

\* Threads that execute a callback, or still have a timer to erase.
BusyThreads == Cardinality(Busy \union scheduled)

\* (mutant: the flag of the group is not looked at)
Collect_unguarded ==
  /\ round = "none"
  /\ BusyThreads < NumThreads
  /\ round' = "waiting"
  /\ candidates' = {cb \in Callbacks : Alive(cb)}
  /\ UNCHANGED <<isF1tenth, now, timerVars, queueVars, mailbox, phase, instance,
                 scheduled, gone, history>>

\* collect_entities, by a thread that has nothing to do.
Collect ==
  /\ round = "none"
  /\ BusyThreads < NumThreads
  /\ round' = "waiting"
  /\ candidates' = {cb \in Callbacks : Alive(cb) /\ GroupFree(cb)}
  /\ UNCHANGED <<isF1tenth, now, timerVars, queueVars, mailbox, phase, instance,
                 scheduled, gone, history>>

\* rcl_wait returns: what is not ready now is left out.  With nothing left the
\* round is over.
Wait ==
  /\ round = "waiting"
  /\ candidates' = {cb \in candidates : Ready(cb)}
  /\ round' = IF candidates' = {} THEN "none" ELSE "choosing"
  /\ UNCHANGED <<isF1tenth, now, timerVars, queueVars, mailbox, phase, instance,
                 scheduled, gone, history>>

-----------------------------------------------------------------------------
(***************************************************************************)
(* Which callback is next.                                                 *)
(***************************************************************************)
\* The deadline the comparator sees: the front of the current queue, 0 if
\* there is none.
SeenDeadline(cb) ==
  LET queue == deadlines[cb[1]][curIndex[cb]]
  IN  IF queue = <<>> THEN 0 ELSE Head(queue)

\* (mutants: the later deadline first; the higher counter first)
RunsAfter_latest(a, b) ==
  \/ SeenDeadline(a) = 0
  \/ /\ SeenDeadline(b) # 0
     /\ \/ SeenDeadline(a) < SeenDeadline(b)
        \/ SeenDeadline(a) = SeenDeadline(b) /\ counter[a] > counter[b]

RunsAfter_newest(a, b) ==
  \/ SeenDeadline(a) = 0
  \/ /\ SeenDeadline(b) # 0
     /\ \/ SeenDeadline(a) > SeenDeadline(b)
        \/ SeenDeadline(a) = SeenDeadline(b) /\ counter[a] < counter[b]

\* PriorityExecutableComparator for two DEADLINE executables: a is to run
\* after b.  No deadline (0) comes last, and is "after" in both directions
\* between two of them.
RunsAfter(a, b) ==
  \/ SeenDeadline(a) = 0
  \/ /\ SeenDeadline(b) # 0
     /\ \/ SeenDeadline(a) > SeenDeadline(b)
        \/ SeenDeadline(a) = SeenDeadline(b) /\ counter[a] > counter[b]

\* What can be at the top of the heap.
IsNext(cb) ==
  /\ cb \in candidates
  /\ \A d \in candidates : RunsAfter(cb, d) => RunsAfter(d, cb)

-----------------------------------------------------------------------------
(***************************************************************************)
(* get_next_executable: bookkeeping of the callback that is taken.         *)
(***************************************************************************)
\* (mutant: no wrap-around)
Advance_unwrapped(index, cb) == index + 1
Advance(index, cb) == (index + 1) % MaxChainNum(cb[1])

\* (mutant: set_last_in_chain on the last but one as well)
IsLast_early(cb) == cb[2] >= Length[cb[1]] - 1 /\ cb[2] > 1

IsLast(cb) == cb[2] = Length[cb[1]]

PopFront(queue) == IF queue = <<>> THEN queue ELSE Tail(queue)

PushNext(c, index, release) ==
  [d \in Chains |->
     IF d \in Fed(c)
     THEN [deadlines[d] EXCEPT ![index] = Append(@, release + Deadline[c])]
     ELSE deadlines[d]]

\* (mutant: the next deadline goes to the current instance's queue)
TakeTimer_current(cb) ==
  LET c == cb[1]
      release == NextRelease(releaseTime[c], Millis(now, TicksPerMs), Period[c])
  IN  /\ releaseTime' = [releaseTime EXCEPT ![c] = release]
      /\ deadlines' = PushNext(c, curIndex[cb], release)

TakeTimer(cb) ==
  LET c == cb[1]
      release == NextRelease(releaseTime[c], Millis(now, TicksPerMs), Period[c])
  IN  /\ releaseTime' = [releaseTime EXCEPT ![c] = release]
      /\ deadlines' = PushNext(c, Advance(curIndex[cb], cb), release)

\* (mutant: nothing is popped)
TakeSubscription_unpopped(cb) == UNCHANGED <<deadlines, releaseTime>>

TakeSubscription(cb) ==
  /\ deadlines' = IF IsLast(cb)
                  THEN [deadlines EXCEPT ![cb[1]][curIndex[cb]] = PopFront(@)]
                  ELSE deadlines
  /\ UNCHANGED releaseTime

\* All queues, indices and counters: the tail of get_next_executable.
Account(cb) ==
  /\ IF cb \in Timers THEN TakeTimer(cb) ELSE TakeSubscription(cb)
  /\ curIndex' = [curIndex EXCEPT ![cb] = Advance(@, cb)]
  /\ counter' = [counter EXCEPT ![cb] = @ + 1]

\* The round ends with the choice.
Choose(cb) ==
  /\ round = "choosing"
  /\ IsNext(cb)
  /\ Account(cb)
  /\ round' = "none" /\ candidates' = {}

\* A timer that is still scheduled is skipped by run(), after the bookkeeping.
Dispatch(cb) ==
  /\ Choose(cb)
  /\ cb \in scheduled => MayOverrun /\ counter[cb] <= MaxTime
  /\ phase' = IF cb \in scheduled THEN phase
              ELSE [phase EXCEPT ![cb] = "taken"]
  /\ scheduled' = scheduled \union ({cb} \intersect Timers)
  /\ UNCHANGED <<isF1tenth, now, nextCall, mailbox, instance, gone, history>>

\* The messages that wait at a node's subscriptions, which expire with it.
Waiters(g) == {s \in Subscriptions : GroupOf[s] = g /\ mailbox[s] # NoMessage}
OfChain(c, set) == Cardinality({s \in set : s[1] = c})

\* A node that nobody holds while no callback of it is busy.
Expire(g) ==
  /\ g \in Expiring \ gone
  /\ \A cb \in Busy \union scheduled : GroupOf[cb] # g
  /\ gone' = gone \union {g}
  /\ mailbox' = [s \in Subscriptions |->
       IF s \in Waiters(g) THEN NoMessage ELSE mailbox[s]]

\* The round holds the handles of what it has collected: for them it makes no
\* difference when in the round their node expires, but for the one chosen.
NodeExpires(g) ==
  /\ Expire(g)
  /\ \A cb \in candidates : GroupOf[cb] # g
  /\ lost' = [c \in Chains |-> lost[c] + OfChain(c, Waiters(g))]
  /\ UNCHANGED <<isF1tenth, now, timerVars, queueVars, phase, instance,
                 scheduled, roundVars, late>>

\* It expires after its callback was collected: the callback is chosen and not
\* found, but the bookkeeping is done for it.  So the deadline of an instance
\* lost with the last callback is popped, and one that the timer will not
\* release is pushed.
DispatchExpired(cb) ==
  LET g == GroupOf[cb]
      popped == {l \in Waiters(g) : l = cb /\ IsLast(l)}
      pushed == IF cb \in Timers THEN {<<c, 1>> : c \in Fed(cb[1])} ELSE {}
  IN  /\ Choose(cb)
      /\ Expire(g)
      /\ lost' = [c \in Chains |->
           lost[c] + OfChain(c, (Waiters(g) \ popped) \union pushed)]
      /\ UNCHANGED <<isF1tenth, now, nextCall, phase, instance, scheduled, late>>

-----------------------------------------------------------------------------
(***************************************************************************)
(* Execution.                                                              *)
(***************************************************************************)
CallTimer(cb) ==
  /\ cb \in Timers
  /\ phase[cb] = "taken"
  /\ phase' = [phase EXCEPT ![cb] = "running"]
  /\ instance' = [instance EXCEPT ![cb] = nextCall[cb[1]]]
  /\ nextCall' = [nextCall EXCEPT ![cb[1]] = NextCall(@, now, Ticks(Period[cb[1]]))]
  /\ UNCHANGED <<isF1tenth, now, releaseTime, queueVars, mailbox, scheduled,
                 gone, roundVars, history>>

TakeMessage(cb) ==
  /\ cb \in Subscriptions
  /\ phase[cb] = "taken"
  /\ phase' = [phase EXCEPT ![cb] = "running"]
  /\ instance' = [instance EXCEPT ![cb] = mailbox[cb]]
  /\ mailbox' = [mailbox EXCEPT ![cb] = NoMessage]
  /\ UNCHANGED <<isF1tenth, now, timerVars, queueVars, scheduled, gone,
                 roundVars, history>>

\* The subscriptions that get what cb publishes, as long as they are there.
Subscribers(cb) ==
  {s \in Subscriptions :
     /\ s[2] = cb[2] + 1
     /\ s[1] = cb[1] \/ (cb \in Timers /\ s[1] \in Fed(cb[1]))}

\* Those among them whose last message nobody took.
Overwrites(cb) == {s \in Subscribers(cb) : mailbox[s] # NoMessage}

\* The instances lost: those of such messages, and what nobody is there to get.
Undelivered(cb) ==
  Overwrites(cb) \union {s \in Subscribers(cb) : ~Alive(s)}

\* What was received, or the timer's running number, is sent down the chain.
Published(cb) ==
  [s \in Subscriptions |->
     IF s \in Subscribers(cb) /\ Alive(s) THEN instance[cb] ELSE mailbox[s]]

\* The callback publishes and ends; its group is free again.
Finish(cb) ==
  /\ phase[cb] = "running"
  /\ MayOverwrite \/ Overwrites(cb) = {}
  /\ mailbox' = Published(cb)
  /\ phase' = [phase EXCEPT ![cb] = "idle"]
  /\ instance' = [instance EXCEPT ![cb] = NoMessage]
  /\ lost' = [c \in Chains |-> lost[c] + OfChain(c, Undelivered(cb))]
  /\ UNCHANGED <<isF1tenth, now, timerVars, queueVars, scheduled, gone,
                 roundVars, late>>

\* The thread erases the timer under the high-priority lock.
Unschedule(cb) ==
  /\ cb \in scheduled
  /\ phase[cb] = "idle"
  /\ scheduled' = scheduled \ {cb}
  /\ UNCHANGED <<isF1tenth, now, timerVars, queueVars, mailbox, phase, instance,
                 gone, roundVars, history>>

-----------------------------------------------------------------------------

Tick ==
  /\ now < MaxTime
  /\ now' = now + 1
  /\ late' = (late \/ ~OnTime(now'))
  /\ UNCHANGED <<isF1tenth, timerVars, queueVars, mailbox, phase, instance,
                 scheduled, gone, roundVars, lost>>

Next ==
  \/ Collect \/ Wait
  \/ \E cb \in Callbacks :
       \/ Dispatch(cb) \/ DispatchExpired(cb)
       \/ CallTimer(cb) \/ TakeMessage(cb) \/ Finish(cb)
       \/ Unschedule(cb)
  \/ \E g \in Groups : NodeExpires(g)
  \/ Tick

Spec == Init /\ [][Next]_vars

-----------------------------------------------------------------------------
(***************************************************************************)
(* Properties.                                                             *)
(***************************************************************************)
\* Callbacks the comparator decides about.
Waiting(cb) == phase[cb] = "idle" /\ Ready(cb)

(***************************************************************************)
(* A callback that is ready has a deadline: curIndex, counted by each      *)
(* callback on its own, points at a queue that holds one                   *)
(* (priority_memory_strategy.hpp:211-218; without one it would come last). *)
(***************************************************************************)
ReadyHasDeadline == \A cb \in Callbacks : Waiting(cb) => SeenDeadline(cb) # 0

(***************************************************************************)
(* The deadline the comparator sees for a ready callback is less than a    *)
(* period later than that of the instance it would run for, however late   *)
(* the chain is (priority_memory_strategy.hpp:790-842, 949-958).  It can   *)
(* be later: a record that is early by less than a millisecond makes a     *)
(* timer that is late by less than a period late by more than one, and two *)
(* periods are added where rcl adds one.                                   *)
(***************************************************************************)
SeenWithinAPeriod ==
  \A cb \in Callbacks : Waiting(cb) =>
    Ticks(SeenDeadline(cb)) < DueBy(cb) + Ticks(Period[Triggered(cb[1])])

(***************************************************************************)
(* While the chains are on time and no message is lost, it is that         *)
(* deadline, but for what the set-up was off: the time between its two     *)
(* readings, and less than a millisecond for each of them                  *)
(* (priority_memory_strategy.hpp:207-218, muex_test.cpp:236-247).          *)
(***************************************************************************)
Undisturbed == ~late /\ \A c \in Chains : lost[c] = 0

Early == SetUpTo - SetUpFrom + 2 * (TicksPerMs - 1)
Late == TicksPerMs - 1

SeenIsDue ==
  Undisturbed =>
    \A cb \in Callbacks : Waiting(cb) =>
      DueBy(cb) - Ticks(SeenDeadline(cb)) \in -Late .. Early

(***************************************************************************)
(* The queues are a ledger: a chain has one deadline queued for the next   *)
(* release, one per instance whose last callback has not been taken, and   *)
(* one for every instance that was lost to a later message or to a node    *)
(* that expired, which nobody ever pops (priority_memory_strategy.hpp:814, *)
(* 831 against 951-952).                                                   *)
(***************************************************************************)
\* The callbacks of a chain, its timer included, and those of them that hold an
\* instance whose last callback has not been taken.
Path(c) == {cb \in Callbacks : cb[1] = c \/ cb = <<Triggered(c), 1>>}

Released(c) == {cb \in Path(c) \intersect Timers : phase[cb] = "taken"}
Running(c) == {cb \in Path(c) : phase[cb] = "running" /\ ~IsLast(cb)}
Sent(c) == {cb \in Path(c) \ Timers :
              mailbox[cb] # NoMessage /\ ~(IsLast(cb) /\ phase[cb] = "taken")}

InFlight(c) ==
  Cardinality(Released(c)) + Cardinality(Running(c)) + Cardinality(Sent(c))

Queued(c) == SumFunction([q \in Queues(c) |-> Len(deadlines[c][q])])

DeadlineLedger ==
  \A c \in Chains : Queued(c) = InFlight(c) + lost[c] + 1

(***************************************************************************)
(* The release time recorded for a timer is always less than a period      *)
(* ahead of the timer itself, although the two are advanced at different   *)
(* times and from different clock readings, one in milliseconds            *)
(* (priority_memory_strategy.hpp:797-829 against rcl's timer).             *)
(***************************************************************************)
RecordWithinAPeriod ==
  \A c \in Chains :
    phase[<<c, 1>>] # "taken" /\ Alive(<<c, 1>>) =>
      Ticks(releaseTime[c]) < nextCall[c] + Ticks(Period[c])

(***************************************************************************)
(* Of two callbacks of a chain that look at the same queue, among those    *)
(* that were collected and ready when the wait was over, the one of the    *)
(* older instance goes first (priority_memory_strategy.hpp:227-232:        *)
(* "settle the difference with the counter").                              *)
(***************************************************************************)
Taken(cb) == counter'[cb] > counter[cb]

OlderInstanceFirst ==
  [][\A cb \in Callbacks : Taken(cb) =>
       \A d \in candidates : d[1] = cb[1] /\ curIndex[d] = curIndex[cb]
         => Pending(cb) <= Pending(d)]_vars

(***************************************************************************)
(* Earliest deadline first, while the chains are on time and no message is *)
(* lost: of the callbacks whose group was free when they were collected    *)
(* and that were ready when the wait was over, the one taken has an        *)
(* earliest deadline, but for what two set-ups were off                    *)
(* (priority_memory_strategy.hpp:219-234).                                 *)
(***************************************************************************)
EarliestDeadlineFirst ==
  [][Undisturbed => \A cb \in Callbacks : Taken(cb) =>
       \A d \in candidates : DueBy(cb) <= DueBy(d) + Early + Late]_vars

(***************************************************************************)
(* What is chosen is still there to be run, although time passes, messages *)
(* arrive and groups are freed between the wait and the choice             *)
(* (priority_executor.cpp:498-538, 675-703).                               *)
(***************************************************************************)
ChoiceIsFresh ==
  round = "choosing" => \A cb \in candidates : Ready(cb) /\ GroupFree(cb)
=============================================================================
