-------------------------- MODULE IntervalTimersProofs -------------------------
(***************************************************************************)
(* For every start delay and however long the clock runs: what the two     *)
(* stopwatches report as shortest and longest, with 0 for "none yet", and  *)
(* that they report nothing of the start delay.                            *)
(***************************************************************************)
EXTENDS IntervalTimers, TLAPS

\* max is the longest of the intervals in all, min the shortest of those in
\* some, 0 where there are none; a 0 is always alone in some.
Kept(t, all, some) ==
  /\ IF all = {} THEN t.max = None
                 ELSE t.max \in all /\ \A d \in all : t.max >= d
  /\ IF some = {} THEN t.min = None
                  ELSE t.min \in some /\ \A d \in some : t.min <= d
  /\ None \in some => some = {None}

\* What is recorded began after the delay, and not in the future.
Begun(t) ==
  /\ t.start_time <= now
  /\ t.recording => StartDelay + 2 <= t.from /\ t.from <= now

TimerInv(kind) ==
  /\ Begun(Of(kind))
  /\ Kept(Of(kind), measured[kind], recent[kind])

IInv ==
  /\ TypeOK
  /\ \A kind \in Kinds : TimerInv(kind)
  /\ DelayIsNotMeasured

-----------------------------------------------------------------------------
\* The operators Max and Min find what their names say.
LEMMA MaxIs ==
  ASSUME NEW S, S \subseteq Int, NEW m \in S, \A d \in S : m >= d
  PROVE  Max(S) = m
<1>1. \E x \in S : \A y \in S : x >= y
  OBVIOUS
<1>2. Max(S) \in S /\ \A y \in S : Max(S) >= y
  BY <1>1 DEF Max
<1>3. Max(S) >= m /\ m >= Max(S) /\ Max(S) \in Int /\ m \in Int
  BY <1>2
<1> QED BY <1>3

LEMMA MinIs ==
  ASSUME NEW S, S \subseteq Int, NEW m \in S, \A d \in S : m <= d
  PROVE  Min(S) = m
<1>1. \E x \in S : \A y \in S : x =< y
  OBVIOUS
<1>2. Min(S) \in S /\ \A y \in S : Min(S) =< y
  BY <1>1 DEF Min
<1>3. Min(S) =< m /\ m =< Min(S) /\ Min(S) \in Int /\ m \in Int
  BY <1>2
<1> QED BY <1>3

\* An interval that ends keeps the shortest and the longest what they are,
\* also when one of them is 0 and taken for "none yet".
LEMMA MeasuredFacts ==
  ASSUME NEW t \in Timer, NEW diff \in Nat,
         NEW all \in SUBSET Nat, NEW some \in SUBSET Nat, Kept(t, all, some)
  PROVE  /\ Measured(t, diff) \in Timer
         /\ Measured(t, diff).recording = t.recording
         /\ Measured(t, diff).start_time = t.start_time
         /\ Measured(t, diff).from = t.from
         /\ Kept(Measured(t, diff), all \union {diff},
                 IF some = {None} \/ diff = None THEN {diff}
                                                 ELSE some \union {diff})
<1> DEFINE u == Measured(t, diff)
           now_some == IF some = {None} \/ diff = None THEN {diff}
                                                       ELSE some \union {diff}
<1>1. /\ u \in Timer /\ u.recording = t.recording
      /\ u.start_time = t.start_time /\ u.from = t.from
      /\ u.min = IF diff < t.min \/ t.min = None THEN diff ELSE t.min
      /\ u.max = IF diff > t.max \/ t.max = None THEN diff ELSE t.max
  BY DEF Measured, Timer
<1>2. t.min \in Nat /\ t.max \in Nat /\ None = 0
  BY DEF Timer, None
<1> HIDE DEF u
<1>3. u.max \in all \union {diff} /\ \A d \in all \union {diff} : u.max >= d
  BY <1>1, <1>2 DEF Kept
<1>4. u.min \in now_some /\ \A d \in now_some : u.min <= d
  <2>1. CASE some = {None} \/ diff = None
    BY <2>1, <1>1, <1>2 DEF Kept
  <2>2. CASE ~(some = {None} \/ diff = None)
    BY <2>2, <1>1, <1>2 DEF Kept
  <2> QED BY <2>1, <2>2
<1>5. None \in now_some => now_some = {None}
  BY DEF Kept
<1>6. now_some # {} /\ all \union {diff} # {}
  OBVIOUS
<1>7. Kept(u, all \union {diff}, now_some)
  BY <1>3, <1>4, <1>5, <1>6 DEF Kept
<1> QED BY <1>1, <1>7 DEF u

\* A timer that is called before it records measures nothing.
LEMMA PreparedFacts ==
  ASSUME NEW t \in Timer, now \in Nat \ {0}, Begun(t), ~t.recording
  PROVE  /\ Prepared(t) \in Timer
         /\ Begun(Prepared(t))
         /\ Prepared(t).min = t.min /\ Prepared(t).max = t.max
<1>1. StartDelay \in Nat /\ None = 0
  BY IntervalAssumption DEF None
<1>2. CASE t.start_time = None
  BY <1>1, <1>2 DEF Prepared, Begun, Timer
<1>3. CASE t.start_time # None /\ now - t.start_time > StartDelay
  <2>1. Prepared(t) = [t EXCEPT !.recording = TRUE, !.start_time = now,
                                !.from = now]
    BY <1>3 DEF Prepared
  <2>2. /\ Prepared(t) \in Timer
        /\ Prepared(t).start_time = now /\ Prepared(t).from = now
        /\ Prepared(t).min = t.min /\ Prepared(t).max = t.max
    BY <2>1 DEF Timer
  <2>3. t.start_time \in Nat
    BY DEF Timer
  <2> QED BY <1>1, <1>3, <2>2, <2>3 DEF Begun
<1>4. CASE t.start_time # None /\ ~(now - t.start_time > StartDelay)
  BY <1>1, <1>4 DEF Prepared, Begun, Timer
<1> QED BY <1>2, <1>3, <1>4

-----------------------------------------------------------------------------
LEMMA InitInv == Init => IInv
<1> SUFFICES ASSUME Init PROVE IInv
  OBVIOUS
<1>1. MaxTime \in Nat \ {0} /\ None = 0
  BY IntervalAssumption DEF None
<1>2. NewTimer \in Timer /\ ~NewTimer.recording /\ NewTimer.start_time = 0
      /\ NewTimer.min = None /\ NewTimer.max = None
  BY <1>1 DEF NewTimer, Timer
<1>3. \A kind \in Kinds :
        Of(kind) = NewTimer /\ measured[kind] = {} /\ recent[kind] = {}
  BY DEF Init, Of
<1>4. TypeOK
  BY <1>1, <1>2 DEF Init, TypeOK
<1>5. ASSUME NEW kind \in Kinds PROVE TimerInv(kind)
  BY <1>1, <1>2, <1>3 DEF TimerInv, Begun, Kept, Init
<1> QED BY <1>3, <1>4, <1>5 DEF IInv, DelayIsNotMeasured

\* What the other timer and the passing of time leave as it is.
LEMMA TimerFrame ==
  ASSUME TypeOK, NEW kind \in Kinds, TimerInv(kind), now' \in Nat, now <= now',
         Of(kind)' = Of(kind), measured'[kind] = measured[kind],
         recent'[kind] = recent[kind]
  PROVE  TimerInv(kind)'
<1>1. Of(kind) \in Timer /\ now \in Nat
  BY DEF TypeOK, Of
<1>2. Begun(Of(kind))'
  BY <1>1, IntervalAssumption DEF TimerInv, Begun, Timer
<1>3. Kept(Of(kind), measured[kind], recent[kind])'
  BY DEF TimerInv, Kept
<1> QED BY <1>2, <1>3 DEF TimerInv

\* A timer that is called while it does not record.
LEMMA PreparedInv ==
  ASSUME IInv, NEW kind \in Kinds, ~Of(kind).recording,
         Of(kind)' = Prepared(Of(kind)), UNCHANGED <<now, measured, recent>>
  PROVE  Of(kind)' \in Timer /\ TimerInv(kind)'
<1>1. Of(kind) \in Timer /\ now \in Nat \ {0} /\ TimerInv(kind)
  BY DEF IInv, TypeOK, Of
<1>2. /\ Prepared(Of(kind)) \in Timer
      /\ Begun(Prepared(Of(kind)))
      /\ Prepared(Of(kind)).min = Of(kind).min
      /\ Prepared(Of(kind)).max = Of(kind).max
  BY <1>1, PreparedFacts DEF TimerInv
<1>3. Begun(Of(kind))'
  BY <1>2 DEF Begun
<1>4. Kept(Of(kind), measured[kind], recent[kind])'
  BY <1>1, <1>2 DEF TimerInv, Kept
<1> QED BY <1>2, <1>3, <1>4 DEF TimerInv

\* An interval of a timer that records ends: it began after the delay.
LEMMA MeasuredInv ==
  ASSUME IInv, NEW kind \in Kinds, Of(kind).recording,
         NEW diff, diff = now - Of(kind).from,
         NEW u, u = Measured(Of(kind), diff),
         Of(kind)' = u \/ Of(kind)' = [u EXCEPT !.from = now],
         Note(kind, diff), now' = now
  PROVE  /\ Of(kind)' \in Timer
         /\ TimerInv(kind)'
         /\ \A k \in Kinds : measured'[k] \in SUBSET (0..MaxTime)
                             /\ recent'[k] \in SUBSET (0..MaxTime)
         /\ \A k \in Kinds \ {kind} :
              measured'[k] = measured[k] /\ recent'[k] = recent[k]
         /\ DelayIsNotMeasured'
<1>1. /\ Of(kind) \in Timer /\ TimerInv(kind)
      /\ now \in 1..MaxTime /\ MaxTime \in Nat /\ StartDelay \in Nat
      /\ measured \in [Kinds -> SUBSET (0..MaxTime)]
      /\ recent \in [Kinds -> SUBSET (0..MaxTime)]
  BY IntervalAssumption DEF IInv, TypeOK, Of
<1>2. /\ Of(kind).from \in Nat
      /\ StartDelay + 2 <= Of(kind).from /\ Of(kind).from <= now
      /\ Of(kind).start_time <= now
  BY <1>1 DEF TimerInv, Begun, Timer
<1>3. diff \in Nat /\ diff \in 0..MaxTime /\ diff + StartDelay + 2 <= now
  BY <1>1, <1>2
<1>4. Kept(Of(kind), measured[kind], recent[kind])
  BY <1>1 DEF TimerInv
<1>5. measured[kind] \in SUBSET Nat /\ recent[kind] \in SUBSET Nat
  BY <1>1
<1> DEFINE now_recent == IF recent[kind] = {None} \/ diff = None
                         THEN {diff} ELSE recent[kind] \union {diff}
<1>6. /\ u \in Timer /\ u.recording = Of(kind).recording
      /\ u.start_time = Of(kind).start_time /\ u.from = Of(kind).from
      /\ Kept(u, measured[kind] \union {diff}, now_recent)
  BY <1>1, <1>3, <1>4, <1>5, MeasuredFacts
<1>7. /\ measured' = [measured EXCEPT ![kind] = @ \union {diff}]
      /\ recent' = [recent EXCEPT ![kind] = now_recent]
  BY <1>1 DEF Note
<1>8. /\ measured'[kind] = measured[kind] \union {diff}
      /\ recent'[kind] = now_recent
      /\ \A k \in Kinds \ {kind} :
           measured'[k] = measured[k] /\ recent'[k] = recent[k]
  BY <1>1, <1>7
<1>9. /\ Of(kind)' \in Timer
      /\ Of(kind)'.start_time = u.start_time
      /\ Of(kind)'.from \in {u.from, now}
      /\ Of(kind)'.min = u.min /\ Of(kind)'.max = u.max
  BY <1>1, <1>6 DEF Timer
<1>10. Begun(Of(kind))'
  BY <1>1, <1>2, <1>6, <1>9 DEF Begun
<1>11. Kept(Of(kind), measured[kind], recent[kind])'
  BY <1>6, <1>8, <1>9 DEF Kept
<1>12. DelayIsNotMeasured'
  BY <1>3, <1>8 DEF IInv, DelayIsNotMeasured
<1>13. \A k \in Kinds : measured'[k] \in SUBSET (0..MaxTime)
                        /\ recent'[k] \in SUBSET (0..MaxTime)
  <2>1. now_recent \subseteq 0..MaxTime
    BY <1>1, <1>3
  <2> QED BY <1>1, <1>3, <1>8, <2>1
<1> QED BY <1>8, <1>9, <1>10, <1>11, <1>12, <1>13 DEF TimerInv

LEMMA CycleTickInv == IInv /\ CycleTick => IInv'
<1> SUFFICES ASSUME IInv, CycleTick PROVE IInv'
  OBVIOUS
<1>1. /\ Of("cycle") = cycle /\ Of("cycle")' = cycle'
      /\ Of("period") = period /\ Of("period")' = period'
      /\ "cycle" \in Kinds /\ "period" \in Kinds /\ Kinds = {"cycle", "period"}
  BY DEF Of, Kinds
<1>2. now' = now /\ period' = period /\ TypeOK /\ now \in Nat
  BY DEF CycleTick, IInv, TypeOK
<1>3. CASE ~cycle.recording
  <2>1. cycle' = Prepared(cycle) /\ UNCHANGED <<now, period, measured, recent>>
    BY <1>3 DEF CycleTick
  <2>2. cycle' \in Timer /\ TimerInv("cycle")'
    BY <1>1, <1>3, <2>1, PreparedInv
  <2>3. TimerInv("period")'
    BY <1>1, <1>2, <2>1, TimerFrame DEF IInv
  <2>4. TypeOK' /\ DelayIsNotMeasured'
    BY <2>1, <2>2 DEF IInv, TypeOK, DelayIsNotMeasured
  <2> QED BY <1>1, <2>2, <2>3, <2>4 DEF IInv
<1>4. CASE cycle.recording
  <2> DEFINE diff == now - cycle.from
             u == Measured(cycle, diff)
  <2>1. cycle' = [u EXCEPT !.from = now] /\ Note("cycle", diff)
    BY <1>4 DEF CycleTick
  <2> HIDE DEF u
  <2>2. /\ cycle' \in Timer
        /\ TimerInv("cycle")'
        /\ \A k \in Kinds : measured'[k] \in SUBSET (0..MaxTime)
                            /\ recent'[k] \in SUBSET (0..MaxTime)
        /\ measured'["period"] = measured["period"]
        /\ recent'["period"] = recent["period"]
        /\ DelayIsNotMeasured'
    BY <1>1, <1>2, <1>4, <2>1, MeasuredInv DEF u
  <2>3. TimerInv("period")'
    BY <1>1, <1>2, <2>2, TimerFrame DEF IInv
  <2>4. TypeOK'
    BY <1>2, <2>1, <2>2 DEF TypeOK, Note
  <2> QED BY <1>1, <2>2, <2>3, <2>4 DEF IInv
<1> QED BY <1>3, <1>4

LEMMA PeriodStartInv == IInv /\ PeriodStart => IInv'
<1> SUFFICES ASSUME IInv, PeriodStart PROVE IInv'
  OBVIOUS
<1>1. /\ Of("cycle") = cycle /\ Of("cycle")' = cycle'
      /\ Of("period") = period /\ Of("period")' = period'
      /\ "cycle" \in Kinds /\ "period" \in Kinds /\ Kinds = {"cycle", "period"}
  BY DEF Of, Kinds
<1>2. /\ UNCHANGED <<now, cycle, measured, recent>> /\ now \in Nat
      /\ period \in Timer /\ TypeOK /\ TimerInv("period")
  BY <1>1 DEF PeriodStart, IInv, TypeOK
<1>3. period' \in Timer /\ TimerInv("period")'
  <2>1. CASE ~period.recording
    BY <1>1, <1>2, <2>1, PreparedInv DEF PeriodStart
  <2>2. CASE period.recording
    <3>1. period' = [period EXCEPT !.from = now]
      BY <2>2 DEF PeriodStart
    <3>2. /\ period' \in Timer /\ period'.start_time = period.start_time
          /\ period'.from = now
          /\ period'.min = period.min /\ period'.max = period.max
      BY <1>2, <3>1 DEF Timer
    <3>3. /\ period.start_time <= now
          /\ StartDelay + 2 <= period.from /\ period.from <= now
      BY <1>1, <1>2, <2>2 DEF TimerInv, Begun
    <3>4. Begun(Of("period"))'
      BY <1>1, <1>2, <3>2, <3>3, IntervalAssumption DEF Begun, Timer
    <3>5. Kept(Of("period"), measured["period"], recent["period"])'
      BY <1>1, <1>2, <3>2 DEF TimerInv, Kept
    <3> QED BY <3>2, <3>4, <3>5 DEF TimerInv
  <2> QED BY <2>1, <2>2
<1>4. TimerInv("cycle")'
  BY <1>1, <1>2, TimerFrame DEF IInv
<1>5. TypeOK' /\ DelayIsNotMeasured'
  BY <1>2, <1>3 DEF IInv, TypeOK, DelayIsNotMeasured
<1> QED BY <1>1, <1>3, <1>4, <1>5 DEF IInv

LEMMA PeriodStopInv == IInv /\ PeriodStop => IInv'
<1> SUFFICES ASSUME IInv, PeriodStop PROVE IInv'
  OBVIOUS
<1>1. /\ Of("cycle") = cycle /\ Of("cycle")' = cycle'
      /\ Of("period") = period /\ Of("period")' = period'
      /\ "cycle" \in Kinds /\ "period" \in Kinds /\ Kinds = {"cycle", "period"}
  BY DEF Of, Kinds
<1>2. now' = now /\ cycle' = cycle /\ TypeOK /\ now \in Nat
  BY DEF PeriodStop, IInv, TypeOK
<1> DEFINE diff == now - period.from
           u == Measured(period, diff)
<1>3. period.recording /\ period' = u /\ Note("period", diff)
  BY DEF PeriodStop
<1> HIDE DEF u
<1>4. /\ period' \in Timer
      /\ TimerInv("period")'
      /\ \A k \in Kinds : measured'[k] \in SUBSET (0..MaxTime)
                          /\ recent'[k] \in SUBSET (0..MaxTime)
      /\ measured'["cycle"] = measured["cycle"]
      /\ recent'["cycle"] = recent["cycle"]
      /\ DelayIsNotMeasured'
  BY <1>1, <1>2, <1>3, MeasuredInv DEF u
<1>5. TimerInv("cycle")'
  BY <1>1, <1>2, <1>4, TimerFrame DEF IInv
<1>6. TypeOK'
  BY <1>2, <1>3, <1>4 DEF TypeOK, Note
<1> QED BY <1>1, <1>4, <1>5, <1>6 DEF IInv

LEMMA TimePassesInv == IInv /\ TimePasses => IInv'
<1> SUFFICES ASSUME IInv, TimePasses PROVE IInv'
  OBVIOUS
<1>1. /\ TypeOK /\ now \in 1..MaxTime /\ MaxTime \in Nat /\ now' = now + 1
      /\ now < MaxTime /\ UNCHANGED <<cycle, period, measured, recent>>
  BY IntervalAssumption DEF IInv, TypeOK, TimePasses, timers
<1>2. ASSUME NEW kind \in Kinds PROVE TimerInv(kind)'
  <2>1. Of(kind)' = Of(kind)
    BY <1>1 DEF Of
  <2> QED BY <1>1, <1>2, <2>1, TimerFrame DEF IInv
<1>3. TypeOK'
  BY <1>1 DEF TypeOK
<1>4. DelayIsNotMeasured'
  <2> SUFFICES ASSUME NEW kind \in Kinds, NEW diff \in measured[kind]
               PROVE  diff + StartDelay + 2 <= now + 1
    BY <1>1 DEF DelayIsNotMeasured
  <2>1. diff + StartDelay + 2 <= now /\ diff \in Nat /\ StartDelay \in Nat
    BY IntervalAssumption DEF IInv, TypeOK, DelayIsNotMeasured
  <2> QED BY <1>1, <2>1
<1> QED BY <1>2, <1>3, <1>4 DEF IInv

-----------------------------------------------------------------------------
(***************************************************************************)
(* IInv is an invariant: what each timer keeps is the longest and the      *)
(* shortest of what it measured, a 0 is forgotten with the next interval,  *)
(* and a timer that records began after the delay.                         *)
(***************************************************************************)
THEOREM InductiveInvariant == Spec => []IInv
<1>1. IInv /\ [Next]_vars => IInv'
  <2> SUFFICES ASSUME IInv, [Next]_vars PROVE IInv'
    OBVIOUS
  <2>1. CASE UNCHANGED vars
    BY <2>1 DEF vars, timers, IInv, TypeOK, TimerInv, Begun, Kept, Of,
                DelayIsNotMeasured
  <2> QED BY <2>1, CycleTickInv, PeriodStartInv, PeriodStopInv, TimePassesInv
          DEF Next
<1> QED BY <1>1, InitInv, PTL DEF Spec

(***************************************************************************)
(* The timers' members keep to their ranges: no interval is negative       *)
(* (cycle_timer.cpp:30, period_timer.cpp:44).                              *)
(***************************************************************************)
THEOREM TypeCorrect == Spec => []TypeOK
<1>1. IInv => TypeOK
  BY DEF IInv
<1> QED BY <1>1, InductiveInvariant, PTL

(***************************************************************************)
(* The longest interval reported is the longest ever measured, although 0  *)
(* counts as "none yet" (cycle_timer.cpp:35-38, period_timer.cpp:49-52).   *)
(***************************************************************************)
THEOREM TheLongestIsKept == Spec => []LongestIsKept
<1>1. IInv => LongestIsKept
  <2> SUFFICES ASSUME IInv, NEW kind \in Kinds, measured[kind] # {}
               PROVE  Of(kind).max = Max(measured[kind])
    BY DEF LongestIsKept, IInv, TimerInv, Kept
  <2>1. measured[kind] \subseteq Int
    BY IntervalAssumption DEF IInv, TypeOK
  <2>2. /\ Of(kind).max \in measured[kind]
        /\ \A d \in measured[kind] : Of(kind).max >= d
    BY DEF IInv, TimerInv, Kept
  <2> QED BY <2>1, <2>2, MaxIs
<1> QED BY <1>1, InductiveInvariant, PTL

(***************************************************************************)
(* The shortest interval reported is the shortest since the last one of    *)
(* length 0, which the next one wipes out with all that was measured       *)
(* before (cycle_timer.cpp:31-34, period_timer.cpp:45-48).                 *)
(***************************************************************************)
THEOREM TheShortestSinceAZero == Spec => []ShortestSinceZero
<1>1. IInv => ShortestSinceZero
  <2> SUFFICES ASSUME IInv, NEW kind \in Kinds, recent[kind] # {}
               PROVE  Of(kind).min = Min(recent[kind])
    BY DEF ShortestSinceZero, IInv, TimerInv, Kept
  <2>1. recent[kind] \subseteq Int
    BY IntervalAssumption DEF IInv, TypeOK
  <2>2. /\ Of(kind).min \in recent[kind]
        /\ \A d \in recent[kind] : Of(kind).min <= d
    BY DEF IInv, TimerInv, Kept
  <2> QED BY <2>1, <2>2, MinIs
<1> QED BY <1>1, InductiveInvariant, PTL

(***************************************************************************)
(* No interval that began during the start delay is measured               *)
(* (cycle_timer.cpp:14-27, period_timer.cpp:14-27).                        *)
(***************************************************************************)
THEOREM TheDelayIsNotMeasured == Spec => []DelayIsNotMeasured
<1>1. IInv => DelayIsNotMeasured
  BY DEF IInv
<1> QED BY <1>1, InductiveInvariant, PTL
===============================================================================
