--------------------------- MODULE CallbackDispatch ---------------------------
(***************************************************************************)
(* What a multi-threaded executor promises its nodes: a callback is run    *)
(* only for something that is ready, each readiness is consumed once, the  *)
(* callbacks of a mutually exclusive group are run one at a time, and so   *)
(* are the calls of one timer.                                             *)
(*                                                                         *)
(* This is the contract of AnyExecutable, can_be_taken_from and            *)
(* scheduled_timers_ in MultiThreadTimedExecutor::run                      *)
(* (priority_executor.cpp:576-630), without any of them.                   *)
(***************************************************************************)
EXTENDS FiniteSets

CONSTANTS
  Threads,
  Callbacks,
  Timers,
  MutuallyExclusive,
  GroupOf,
  NoCallback

VARIABLES
  ready,    \* callbacks with something to run for
  running   \* the callback each thread is running, or NoCallback

vars == <<ready, running>>

Init ==
  /\ ready = {}
  /\ running = [t \in Threads |-> NoCallback]

BecomeReady(c) ==
  /\ ready' = ready \union {c}
  /\ UNCHANGED running

\* c may not run beside what another thread is running.
Excluded(c) ==
  \E u \in Threads :
    /\ running[u] # NoCallback
    /\ \/ GroupOf[running[u]] = GroupOf[c] /\ GroupOf[c] \in MutuallyExclusive
       \/ running[u] = c /\ c \in Timers

Start(t, c) ==
  /\ running[t] = NoCallback
  /\ c \in ready
  /\ ~Excluded(c)
  /\ ready' = ready \ {c}
  /\ running' = [running EXCEPT ![t] = c]

Finish(t) ==
  /\ running[t] # NoCallback
  /\ running' = [running EXCEPT ![t] = NoCallback]
  /\ UNCHANGED ready

Next ==
  \/ \E c \in Callbacks : BecomeReady(c)
  \/ \E t \in Threads : Finish(t) \/ \E c \in Callbacks : Start(t, c)

Spec == Init /\ [][Next]_vars
==============================================================================
