----------------------------- MODULE ReleaseTime ------------------------------
(***************************************************************************)
(* The numbers behind one timer's deadlines.  rcl keeps the timer's next   *)
(* call in nanoseconds; the experiment reads the clock and then the time   *)
(* left until the call, both cut to milliseconds, and records their sum as *)
(* the first release through an int parameter (muex_test.cpp:236-246,      *)
(* priority_memory_strategy.hpp:1309-1313); get_next_executable moves that *)
(* record on from a clock reading of its own, and stores each deadline as  *)
(* a uint.  ChainDeadlines uses the same steps with a clock that never     *)
(* wraps.                                                                  *)
(*                                                                         *)
(* Here the clock counts ticks, TicksPerMs to the millisecond, and int and *)
(* uint end at MaxInt and 2 * MaxInt + 1.  Time may pass between any two   *)
(* steps, and in the set-up between the two readings.                      *)
(***************************************************************************)
EXTENDS TimerArithmetic

CONSTANTS
  TicksPerMs,
  Period,     \* of the timer, in milliseconds
  Deadline,   \* of its chain, relative, in milliseconds
  MaxInt,     \* INT_MAX
  SetUpAt,    \* when the timer is created, in ticks of uptime
  SetUpTime,  \* the longest it takes from then to spin(), in ticks
  MaxTime     \* bound on the clock, in ticks

ASSUME ReleaseAssumption ==
  /\ TicksPerMs \in Nat \ {0} /\ Period \in Nat \ {0} /\ Deadline \in Nat \ {0}
  /\ MaxInt \in Nat \ {0} /\ SetUpTime \in 0 .. MaxInt * TicksPerMs
  /\ MaxTime \in Nat /\ SetUpAt \subseteq 0 .. MaxTime - SetUpTime

VARIABLES
  now,         \* CLOCK_MONOTONIC_RAW, in ticks
  nextCall,    \* rcl's next call of the timer, in ticks
  release,     \* *release_time, a long, in milliseconds
  pushed,      \* the deadline last pushed, a uint
  dispatched,  \* is the timer chosen and not called yet?
  fits,        \* (history) did the first release fit into an int?
  accounted,   \* (history) the clock, in ms, at the last dispatch
  prompt       \* (history) was the timer always served within a period?

NotYet == -1

vars == <<now, nextCall, release, pushed, dispatched, fits, accounted,
                 prompt>>

\* (mutant: not narrowed)
ToUint_wide(n) == n
ToUint(n) == n % (2 * MaxInt + 2)

ToInt(n) ==
  IF ToUint(n) <= MaxInt THEN ToUint(n) ELSE ToUint(n) - (2 * MaxInt + 2)

TypeOK ==
  /\ now \in 0..MaxTime
  /\ nextCall \in Nat
  /\ release \in Int
  /\ pushed \in 0 .. 2 * MaxInt + 1
  /\ dispatched \in BOOLEAN
  /\ fits \in BOOLEAN
  /\ accounted \in Nat \union {NotYet}
  /\ prompt \in BOOLEAN

\* The timer is created, the clock is read, and then how long it is until the
\* timer is due; by then it may be due already.
Init ==
  /\ \E created \in SetUpAt :
       \E before, after \in created .. created + SetUpTime :
         LET first == FirstRelease(nextCall, before, after, TicksPerMs)
         IN  /\ before <= after
             /\ now \in after .. created + SetUpTime
             /\ nextCall = created + Period * TicksPerMs
             /\ release = ToInt(first)
             /\ pushed = ToUint(first + Deadline)
             /\ fits = (release = first)
  /\ dispatched = FALSE
  /\ accounted = NotYet
  /\ prompt = TRUE

\* (mutant: the deadline of the release before)
Dispatch_previous ==
  LET time == Millis(now, TicksPerMs)
  IN  /\ now >= nextCall /\ ~dispatched
      /\ release' = NextRelease(release, time, Period)
      /\ pushed' = ToUint(release + Deadline)
      /\ dispatched' = TRUE
      /\ accounted' = time
      /\ prompt' = (prompt /\ time <= release + Period)
      /\ UNCHANGED <<now, nextCall, fits>>

\* get_next_executable chooses the timer.
Dispatch ==
  LET time == Millis(now, TicksPerMs)
  IN  /\ now >= nextCall /\ ~dispatched
      /\ release' = NextRelease(release, time, Period)
      /\ pushed' = ToUint(release' + Deadline)
      /\ dispatched' = TRUE
      /\ accounted' = time
      /\ prompt' = (prompt /\ time <= release + Period)
      /\ UNCHANGED <<now, nextCall, fits>>

\* execute_any_executable calls it.
Call ==
  /\ dispatched
  /\ nextCall' = NextCall(nextCall, now, Period * TicksPerMs)
  /\ dispatched' = FALSE
  /\ prompt' = (prompt /\ now <= nextCall + Period * TicksPerMs)
  /\ UNCHANGED <<now, release, pushed, fits, accounted>>

Tick ==
  /\ now < MaxTime
  /\ now' = now + 1
  /\ UNCHANGED <<nextCall, release, pushed, dispatched, fits, accounted,
                 prompt>>

Next == Dispatch \/ Call \/ Tick

Spec == Init /\ [][Next]_vars

-----------------------------------------------------------------------------
(***************************************************************************)
(* What the set-up is off does not add up: while the timer is chosen no    *)
(* later than a period after its recorded release and called no later than *)
(* a period after it was due, the record stays as far from the timer's     *)
(* next call as it was, which is the time between the two readings of the  *)
(* set-up and less than a millisecond for the cut of each of them          *)
(* (priority_memory_strategy.hpp:797-829 against rcl's timer,              *)
(* muex_test.cpp:236-246).                                                 *)
(***************************************************************************)
Offsets == 1 - TicksPerMs .. SetUpTime + 2 * (TicksPerMs - 1)

InStep(r) == nextCall - r * TicksPerMs \in Offsets

NoDrift == fits /\ prompt /\ ~dispatched => InStep(release)

(***************************************************************************)
(* Whatever the uptime at the set-up and however late the timer, the uint  *)
(* that the comparator sees is the deadline, up to the wrap, of a release  *)
(* in step with the timer, or else of one that was not over when the timer *)
(* was chosen and is less than a period after its next call                *)
(* (priority_memory_strategy.hpp:797-831, 1303-1313).                      *)
(***************************************************************************)
InReach(r) == accounted <= r /\ r * TicksPerMs < nextCall + Period * TicksPerMs

DeadlineInReach ==
  ~dispatched =>
    \E r \in -SetUpTime .. nextCall + Period :
      /\ pushed = ToUint(r + Deadline)
      /\ IF accounted = NotYet \/ (fits /\ prompt) THEN InStep(r) ELSE InReach(r)
===============================================================================
