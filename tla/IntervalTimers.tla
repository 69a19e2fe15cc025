---------------------------- MODULE IntervalTimers ----------------------------
(***************************************************************************)
(* simple_timer's two stopwatches: a CycleTimer measures from one tick()   *)
(* to the next, a PeriodTimer from start() to stop().  Neither measures    *)
(* before start_delay_time is over, both keep the shortest, longest and    *)
(* last interval, and 0 stands for "none yet" in every one of their        *)
(* members.                                                                *)
(***************************************************************************)
EXTENDS Integers, FiniteSets, FiniteSetsExt

CONSTANTS
  StartDelay,  \* start_delay_time
  MaxTime      \* bound on the clock

ASSUME IntervalAssumption == StartDelay \in Nat /\ MaxTime \in Nat \ {0}

None == 0

VARIABLES
  now,       \* get_time_us()
  cycle,     \* the CycleTimer
  period,    \* the PeriodTimer
  measured,  \* (history) intervals a timer has measured
  recent     \* (history) those from its last interval of length 0 on

timers == <<cycle, period>>
vars == <<now, timers, measured, recent>>

Kinds == {"cycle", "period"}

Timer == [recording : BOOLEAN, start_time : Nat, from : Nat,
          min : Nat, max : Nat, last : Nat]

TypeOK ==
  /\ now \in 1..MaxTime
  /\ cycle \in Timer /\ period \in Timer
  /\ measured \in [Kinds -> SUBSET (0..MaxTime)]
  /\ recent \in [Kinds -> SUBSET (0..MaxTime)]

NewTimer == [recording |-> FALSE, start_time |-> None, from |-> None,
             min |-> None, max |-> None, last |-> None]

Init ==
  /\ now = 1
  /\ cycle = NewTimer /\ period = NewTimer
  /\ measured = [k \in Kinds |-> {}]
  /\ recent = [k \in Kinds |-> {}]

\* (mutant: recording starts on the first call)
Prepared_atOnce(t) ==
  IF t.start_time = None \/ now - t.start_time > StartDelay
  THEN [t EXCEPT !.recording = TRUE, !.start_time = now, !.from = now]
  ELSE t

\* A timer that is not recording is called: the first time it notes when, and
\* once the delay is over it starts to record.
Prepared(t) ==
  IF t.start_time = None THEN [t EXCEPT !.start_time = now]
  ELSE IF now - t.start_time > StartDelay
  THEN [t EXCEPT !.recording = TRUE, !.start_time = now, !.from = now]
  ELSE t

\* (mutants: no first value for the shortest; the longest starts again)
Measured_noFirst(t, diff) ==
  [t EXCEPT !.min = IF diff < @ THEN diff ELSE @,
            !.max = IF diff > @ \/ @ = None THEN diff ELSE @,
            !.last = diff]

Measured_unordered(t, diff) ==
  [t EXCEPT !.min = IF diff < @ \/ @ = None THEN diff ELSE @,
            !.max = IF diff > t.last THEN diff ELSE @,
            !.last = diff]

\* An interval of length diff has ended.
Measured(t, diff) ==
  [t EXCEPT !.min = IF diff < @ \/ @ = None THEN diff ELSE @,
            !.max = IF diff > @ \/ @ = None THEN diff ELSE @,
            !.last = diff]

Note(kind, diff) ==
  /\ measured' = [measured EXCEPT ![kind] = @ \union {diff}]
  /\ recent' = [recent EXCEPT
       ![kind] = IF @ = {None} \/ diff = None THEN {diff} ELSE @ \union {diff}]

\* CycleTimer::tick
CycleTick ==
  /\ \/ /\ ~cycle.recording
        /\ cycle' = Prepared(cycle)
        /\ UNCHANGED <<measured, recent>>
     \/ /\ cycle.recording
        /\ cycle' = [Measured(cycle, now - cycle.from) EXCEPT !.from = now]
        /\ Note("cycle", now - cycle.from)
  /\ UNCHANGED <<now, period>>

\* PeriodTimer::start
PeriodStart ==
  /\ period' = IF period.recording THEN [period EXCEPT !.from = now]
                                   ELSE Prepared(period)
  /\ UNCHANGED <<now, cycle, measured, recent>>

\* (mutant: the difference the wrong way round)
PeriodStop_swapped ==
  /\ period.recording
  /\ period' = Measured(period, period.from - now)
  /\ Note("period", period.from - now)
  /\ UNCHANGED <<now, cycle>>

\* PeriodTimer::stop
PeriodStop ==
  /\ period.recording
  /\ period' = Measured(period, now - period.from)
  /\ Note("period", now - period.from)
  /\ UNCHANGED <<now, cycle>>

TimePasses ==
  /\ now < MaxTime
  /\ now' = now + 1
  /\ UNCHANGED <<timers, measured, recent>>

Next == CycleTick \/ PeriodStart \/ PeriodStop \/ TimePasses

Spec == Init /\ [][Next]_vars

-----------------------------------------------------------------------------
Of(kind) == IF kind = "cycle" THEN cycle ELSE period

(***************************************************************************)
(* The longest interval is the longest ever measured, although 0 counts as *)
(* "none yet" (cycle_timer.cpp:35-38, period_timer.cpp:49-52).             *)
(***************************************************************************)
LongestIsKept ==
  \A kind \in Kinds :
    Of(kind).max = IF measured[kind] = {} THEN None ELSE Max(measured[kind])

(***************************************************************************)
(* The shortest interval is the shortest since the last one of length 0: a *)
(* 0 is kept until the next interval ends and then taken for "none yet",   *)
(* and what was measured before it is forgotten with it                    *)
(* (cycle_timer.cpp:31-34, period_timer.cpp:45-48).                        *)
(***************************************************************************)
ShortestSinceZero ==
  \A kind \in Kinds :
    Of(kind).min = IF recent[kind] = {} THEN None ELSE Min(recent[kind])

(***************************************************************************)
(* Nothing that began during the start delay is measured: what is measured *)
(* fits into the time since the delay was over (cycle_timer.cpp:14-27,     *)
(* period_timer.cpp:14-27).                                                *)
(***************************************************************************)
DelayIsNotMeasured ==
  \A kind \in Kinds : \A diff \in measured[kind] : diff + StartDelay + 2 <= now
===============================================================================
