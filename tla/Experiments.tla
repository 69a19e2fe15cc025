------------------------------ MODULE Experiments ------------------------------
(***************************************************************************)
(* What the experiment programs hand to the executor before they spin: the *)
(* tables they start with, the nodes they make of them, the settings every *)
(* executable gets in the memory strategy, the topics that link the nodes, *)
(* and the first release times and deadlines.                              *)
(*                                                                         *)
(* ChainDeadlines takes all of this for granted: that a chain has one      *)
(* first and one last callback, that they share its deadline queues, that  *)
(* a message goes from every callback to the next one.  The programs do it *)
(* with running indices, with special cases for chains 1, 3 and 4, and     *)
(* with tables that are copied from one program to the next.  The          *)
(* assumptions at the end of this module, which TLC evaluates, state that  *)
(* it comes out right in each of the nine programs that are built.         *)
(*                                                                         *)
(* Chains and callbacks are numbered from 0, as in the programs.           *)
(***************************************************************************)
EXTENDS TimerArithmetic, Sequences, SequencesExt, FiniteSets

-----------------------------------------------------------------------------
(***************************************************************************)
(* The tables, those of multi_test and multi_static1 first.                *)
(***************************************************************************)
SixChains == [
  scheduling      |-> "DEADLINE",
  NumThreads      |-> 2,
  is_f1tenth      |-> TRUE,     \* chain 1 is fed by the timer of chain 0
  muex_worker     |-> FALSE,    \* chains 3 and 4 end in one common node
  chain_lengths   |-> <<2, 4, 4, 3, 4, 4>>,
  node_runtimes   |-> <<2, 16, 2, 2, 9, 9, 21, 8, 7, 2, 23, 8, 14,
                        18, 11, 8, 8, 11, 22, 5, 18>>,
  chain_periods   |-> <<80, 80, 120, 140, 160, 180>>,
  chain_deadlines |-> <<80, 80, 120, 140, 160, 180>>,
  chain_priorities |-> <<>>]

SixStaticChains == [SixChains EXCEPT
  !.scheduling = "CHAIN_AWARE_PRIORITY",
  !.chain_priorities = <<<<0, 1>>, <<0, 2, 3, 4>>, <<5, 6, 7, 8>>,
    <<9, 10, 11>>, <<12, 13, 14, 15>>, <<16, 17, 18, 19>>>>]

ShortPeriods == <<80, 80, 60, 140, 160, 90>>

TwoLongChains == [SixChains EXCEPT
  !.NumThreads = 1,
  !.is_f1tenth = FALSE,
  !.chain_lengths = <<4, 4>>,
  !.node_runtimes = <<2, 16, 3, 8, 2, 2, 9, 9>>,
  !.chain_periods = <<100, 100>>,
  !.chain_deadlines = <<100, 100>>]

LateChains == [SixChains EXCEPT
  !.is_f1tenth = FALSE,
  !.chain_lengths = <<2, 4>>,
  !.node_runtimes = <<50, 60, 15, 25, 35, 45>>,
  !.chain_periods = <<100, 110>>,
  !.chain_deadlines = <<250, 300>>]

TwoStaticChains == [TwoLongChains EXCEPT
  !.scheduling = "CHAIN_AWARE_PRIORITY",
  !.chain_priorities = <<<<0, 1, 2, 3>>, <<4, 5, 6, 7>>>>]

MuExChains == [SixChains EXCEPT !.NumThreads = 4, !.muex_worker = TRUE]

MuExStaticChains ==
  [SixStaticChains EXCEPT !.NumThreads = 4, !.muex_worker = TRUE]

ArbitraryChains == [SixChains EXCEPT !.chain_periods = ShortPeriods]

ArbitraryStaticChains == [SixStaticChains EXCEPT !.chain_periods = ShortPeriods]

\* The programs CMakeLists.txt builds.
Programs == [
  multi_test    |-> SixChains,
  multi_static1 |-> SixStaticChains,
  multi_arb     |-> LateChains,
  dy_2          |-> TwoLongChains,
  st_2          |-> TwoStaticChains,
  muex_test     |-> MuExChains,
  muex_static1  |-> MuExStaticChains,
  arb_test      |-> ArbitraryChains,
  arb_static    |-> ArbitraryStaticChains]

-----------------------------------------------------------------------------
(***************************************************************************)
(* Making the nodes.  An executable is named by the callback it belongs    *)
(* to, <<chain_index, cb_index>>, a timer by the chain that made it.       *)
(***************************************************************************)
At(table, c) == table[c + 1]

ChainIds(p) == 0 .. Len(p.chain_lengths) - 1

LastOf(p, c) == At(p.chain_lengths, c) - 1

CallbacksOf(p) ==
  UNION {{c} \X (0 .. LastOf(p, c)) : c \in ChainIds(p)}

\* The running index into node_runtimes, which also counts the callbacks no
\* node is made for.
CurrentNodeId(p, cb) ==
  FoldLeft(+, 0, SubSeq(p.chain_lengths, 1, cb[1])) + cb[2]

Runtime(p, cb) == p.node_runtimes[CurrentNodeId(p, cb) + 1]

\* The chain whose PublisherNode is nodes[c][0].
PublisherOf(p, c) == IF p.is_f1tenth /\ c = 1 THEN 0 ELSE c

\* The executable of a callback: chain 1 may have no timer of its own.
Executable(p, cb) ==
  IF cb[2] = 0 THEN <<PublisherOf(p, cb[1]), 0>> ELSE cb

\* With the common node, the loop makes no workers for chains 3 and 4 ...
Publishers(p) == {<<PublisherOf(p, c), 0>> : c \in ChainIds(p)}

Workers(p) ==
  {cb \in CallbacksOf(p) :
     cb[2] > 0 /\ ~(p.muex_worker /\ cb[1] \in {3, 4})}

\* ... and MuExWorker brings its five subscriptions, with runtimes of its own.
MuExRuntime(p) ==
  IF p.muex_worker
  THEN <<3, 1>> :> 8 @@ <<3, 2>> :> 14 @@
       <<4, 1>> :> 11 @@ <<4, 2>> :> 8 @@ <<4, 3>> :> 8
  ELSE <<>>

MuExSubscriptions(p) == DOMAIN MuExRuntime(p)

Executables(p) == Publishers(p) \union Workers(p) \union MuExSubscriptions(p)

\* The node of an executable, and so its mutually exclusive group.
NodeOf(p, e) == IF e \in MuExSubscriptions(p) THEN <<"chain_34_worker">> ELSE e

-----------------------------------------------------------------------------
(***************************************************************************)
(* The settings an executable gets in the strategy's priority_map.         *)
(***************************************************************************)
UsesDeadlines(p) == p.scheduling = "DEADLINE"

IsLastInChain(p, e) ==
  IF e \in MuExSubscriptions(p) THEN e \in {<<3, 2>>, <<4, 3>>}
                                ELSE e[2] > 0 /\ e[2] = LastOf(p, e[1])

\* set_executable_deadline or set_executable_priority, then set_first_in_chain,
\* assign_deadlines_queue (the chain whose queues they are), set_last_in_chain
\* and timer_handle.
Settings(p) == [e \in Executables(p) |->
  IF UsesDeadlines(p)
  THEN [chain_id |-> e[1],
        period |-> At(p.chain_periods, e[1]),
        deadline |-> At(p.chain_deadlines, e[1]),
        deadlines |-> e[1],
        is_first_in_chain |-> e[2] = 0,
        is_last_in_chain |-> IsLastInChain(p, e),
        timer_handle |-> IF e[2] = 0 THEN {e}
                         ELSE IF IsLastInChain(p, e)
                              THEN {<<PublisherOf(p, e[1]), 0>>}
                         ELSE {}]
  ELSE [chain_id |-> e[1],
        priority |-> At(At(p.chain_priorities, e[1]), e[2]),
        is_first_in_chain |-> e[2] = 0]]

\* How many deadline queues a chain gets.
QueuesOf(p, c) == CeilDiv(At(p.chain_deadlines, c), At(p.chain_periods, c))

\* The topics: "topic_c", and "chain_c_topic_n".
PublishesTo(p, e) == IF e[2] = 0 THEN <<e[1]>> ELSE <<e[1], e[2] + 1>>

SubscribesTo(p, e) ==
  IF p.is_f1tenth /\ e = <<1, 1>> THEN <<e[1] - 1>>
  ELSE IF e[2] = 1 THEN <<e[1]>>
  ELSE e

Listeners(p, topic) ==
  {e \in Executables(p) : e[2] > 0 /\ SubscribesTo(p, e) = topic}

\* The loop before spin(): for every chain the release time of the timer that
\* feeds it is noted, and the deadline of the first instance goes to queue 0.
\* firstCall is when a timer is due first.
Primed(p, firstCall) ==
  [c \in ChainIds(p) |->
     [release_time |-> [timer |-> <<PublisherOf(p, c), 0>>,
                        at |-> firstCall[PublisherOf(p, c)]],
      deadline |-> firstCall[PublisherOf(p, c)] + At(p.chain_deadlines, c)]]

-----------------------------------------------------------------------------
(***************************************************************************)
(* What ChainDeadlines and the README take from the programs.              *)
(***************************************************************************)
AllPrograms == {Programs[name] : name \in DOMAIN Programs}
DeadlinePrograms == {p \in AllPrograms : UsesDeadlines(p)}

\* Every callback of every chain has exactly one executable with settings,
\* although chains 3 and 4 are left to the common node and chain 1 to the timer
\* of chain 0; and no executable belongs to no callback.
ASSUME EveryCallbackHasAnExecutable ==
  \A p \in AllPrograms :
    /\ Executables(p) = {Executable(p, cb) : cb \in CallbacksOf(p)}
    /\ Workers(p) \intersect MuExSubscriptions(p) = {}

\* The running index stays inside the table, uses all of it, and arrives at the
\* runtimes that MuExWorker has of its own, although the loop makes no nodes
\* for them.
ASSUME RuntimesAreInStep ==
  \A p \in AllPrograms :
    /\ {CurrentNodeId(p, cb) : cb \in CallbacksOf(p)}
         = 0 .. Len(p.node_runtimes) - 1
    /\ \A e \in MuExSubscriptions(p) : MuExRuntime(p)[e] = Runtime(p, e)

\* A chain with deadlines has one last executable; it sees the queues its timer
\* pushes to, and it knows that timer.
ASSUME ChainsAreClosed ==
  \A p \in DeadlinePrograms : \A c \in ChainIds(p) :
    LET mine == {e \in Executables(p) : Settings(p)[e].chain_id = c}
        last == <<c, LastOf(p, c)>>
    IN  /\ {e \in mine : Settings(p)[e].is_last_in_chain} = {last}
        /\ Settings(p)[last].timer_handle = {<<PublisherOf(p, c), 0>>}
        /\ \A e \in mine : Settings(p)[e].deadlines = c

\* A callback's message goes to the next callback of its chain, the timer of
\* chain 0 also feeds chain 1, and nobody listens to the last one.
ASSUME TopicsFollowTheChains ==
  \A p \in AllPrograms : \A e \in Executables(p) :
    Listeners(p, PublishesTo(p, e)) =
      {cb \in CallbacksOf(p) :
         cb[2] > 0 /\ Executable(p, <<cb[1], cb[2] - 1>>) = e}

\* What ChainAssumption says of the constants of ChainDeadlines, and with equal
\* periods the one release time of a shared timer fits both of its chains.
ASSUME TablesSuitTheStrategy ==
  \A p \in AllPrograms :
    /\ \A c \in ChainIds(p) : At(p.chain_lengths, c) >= 2
    /\ p.is_f1tenth =>
         /\ At(p.chain_periods, 0) = At(p.chain_periods, 1)
         /\ At(p.chain_deadlines, 0) = At(p.chain_deadlines, 1)
         /\ QueuesOf(p, 0) = QueuesOf(p, 1)

\* The priming loop gives a timer that feeds two chains one release time, and
\* every chain the deadline that follows from it.
ASSUME PrimingAgrees ==
  \A p \in DeadlinePrograms :
    LET first == [c \in ChainIds(p) |-> 100 + c]
        primed == Primed(p, first)
    IN  /\ {primed[c].release_time.timer : c \in ChainIds(p)} = Publishers(p)
        /\ \A c \in ChainIds(p) : \A d \in ChainIds(p) :
             primed[c].release_time.timer = primed[d].release_time.timer =>
               primed[c].release_time = primed[d].release_time
        /\ \A c \in ChainIds(p) :
             primed[c].deadline =
               primed[c].release_time.at
                 + Settings(p)[<<c, LastOf(p, c)>>].deadline

\* Static priorities: no two executables share one, and a chain's own are in
\* the order of its callbacks.
ASSUME PrioritiesAreDistinct ==
  \A p \in AllPrograms \ DeadlinePrograms :
    LET prio(e) == Settings(p)[e].priority
    IN  /\ \A e, f \in Executables(p) : prio(e) = prio(f) => e = f
        /\ \A e, f \in Executables(p) :
             e[1] = f[1] /\ e[2] < f[2] => prio(e) < prio(f)

\* The work of one hyperperiod h, in milliseconds of processor time.
Demand(p, h) ==
  FoldFunction(+, 0, [e \in Executables(p) |->
    Runtime(p, e) * (h \div At(p.chain_periods, e[1]))])

\* Two of the programs ask for more than their threads can give, so their
\* chains do fall behind: deadlines, and everything that rests on them, have to
\* make sense for late chains as well.
ASSUME SomeProgramsAreOverloaded ==
  /\ Demand(Programs.multi_test, 10080) <= 2 * 10080
  /\ Demand(Programs.muex_test, 10080) <= 4 * 10080
  /\ Demand(Programs.dy_2, 100) <= 100
  /\ Demand(Programs.arb_test, 10080) > 2 * 10080
  /\ Demand(Programs.multi_arb, 1100) > 2 * 1100
================================================================================
