--------------------------- MODULE ReleaseTimeProofs --------------------------
(***************************************************************************)
(* For every resolution of the clock, period, deadline, width of int,      *)
(* length of the set-up and uptime: the recorded release keeps its         *)
(* distance from the timer's while the timer is prompt, is always less     *)
(* than a period ahead of it, and what is pushed is its deadline.          *)
(***************************************************************************)
EXTENDS ReleaseTime, ArithmeticProofs

\* A period in ticks.
PeriodTicks == Period * TicksPerMs

\* The record is less than a period after the timer's next call; between the
\* dispatch and the call, after what that call will make of it.
AheadInv ==
  IF dispatched
  THEN \/ release * TicksPerMs < nextCall + 2 * PeriodTicks
       \/ release * TicksPerMs < now + PeriodTicks
  ELSE release * TicksPerMs < nextCall + PeriodTicks

\* While the timer is prompt they are in step; between the dispatch and the call
\* the record is a period further.
StepInv ==
  fits /\ prompt => InStep(IF dispatched THEN release - Period ELSE release)

\* What was pushed belongs to the release that is recorded, and the first
\* deadline to the first release, whether it fitted into an int or not.
PushedInv ==
  IF accounted = NotYet
  THEN /\ ~dispatched
       /\ \E r \in -SetUpTime .. nextCall + Period :
            InStep(r) /\ pushed = ToUint(r + Deadline)
  ELSE accounted <= release /\ pushed = ToUint(release + Deadline)

IInv == TypeOK /\ AheadInv /\ StepInv /\ PushedInv

-----------------------------------------------------------------------------
LEMMA ConstantTypes ==
  /\ TicksPerMs \in Nat \ {0} /\ Period \in Nat \ {0} /\ Deadline \in Nat \ {0}
  /\ MaxInt \in Nat \ {0} /\ SetUpTime \in Nat /\ MaxTime \in Nat
  /\ PeriodTicks \in Nat \ {0} /\ PeriodTicks >= TicksPerMs
<1>1. /\ TicksPerMs \in Nat \ {0} /\ Period \in Nat \ {0} /\ Deadline \in Nat \ {0}
      /\ MaxInt \in Nat \ {0} /\ MaxTime \in Nat
      /\ SetUpTime \in 0 .. MaxInt * TicksPerMs
  BY ReleaseAssumption
<1>2. MaxInt * TicksPerMs \in Nat
  BY <1>1
<1>3. Period * TicksPerMs \in Nat \ {0} /\ Period * TicksPerMs >= TicksPerMs
  BY <1>1
<1> QED BY <1>1, <1>2, <1>3 DEF PeriodTicks

\* uint arithmetic.
LEMMA ToUintFacts ==
  ASSUME NEW n \in Int
  PROVE  ToUint(n) \in 0 .. 2 * MaxInt + 1
<1> DEFINE w == 2 * MaxInt + 2
<1>1. w \in Nat \ {0}
  BY ConstantTypes
<1>2. n % w \in 0 .. w - 1
  <2> HIDE DEF w
  <2> QED BY <1>1
<1>3. ToUint(n) = n % w /\ w - 1 = 2 * MaxInt + 1
  BY ConstantTypes DEF ToUint
<1> HIDE DEF w
<1> QED BY <1>2, <1>3

\* Going through an int never makes a time later.
LEMMA ToIntFacts ==
  ASSUME NEW n \in Int, n >= -MaxInt
  PROVE  ToInt(n) \in Int /\ ToInt(n) <= n
<1> DEFINE w == 2 * MaxInt + 2
<1>1. w \in Nat \ {0}
  BY ConstantTypes
<1> DEFINE q == n \div w
<1>2. q \in Int /\ n % w = n - w * q /\ n % w \in 0 .. w - 1
  <2> HIDE DEF w
  <2> QED BY <1>1, SMT
<1>3. ToUint(n) = n % w
  BY DEF ToUint
<1>4. ToInt(n) = IF n % w <= MaxInt THEN n % w ELSE (n % w) - w
  BY <1>3 DEF ToInt
<1>5. n >= -MaxInt /\ MaxInt \in Nat /\ w > 2 * MaxInt + 1
  BY ConstantTypes
<1> HIDE DEF w, q
<1>6. q >= -1
  <2>1. SUFFICES ASSUME q <= -2 PROVE FALSE
    BY <1>2
  <2>2. w * q <= -(2 * w)
    BY <1>1, <1>2, <2>1
  <2>3. w * q \in Int
    BY <1>1, <1>2
  <2> QED BY <1>1, <1>2, <1>5, <2>2, <2>3
<1>7. CASE q = -1
  <2>1. n % w = n + w
    BY <1>1, <1>2, <1>7
  <2> QED BY <1>1, <1>4, <1>5, <2>1
<1>8. CASE q >= 0
  <2>1. w * q >= 0 /\ w * q \in Int
    BY <1>1, <1>2, <1>8
  <2> QED BY <1>1, <1>2, <1>4, <2>1
<1> QED BY <1>2, <1>6, <1>7, <1>8

-----------------------------------------------------------------------------
LEMMA InitInv == Init => IInv
<1> SUFFICES ASSUME Init PROVE IInv
  OBVIOUS
<1> DEFINE K == TicksPerMs
<1>1. /\ K \in Nat \ {0} /\ Period \in Nat \ {0} /\ Deadline \in Nat \ {0}
      /\ SetUpTime \in Nat /\ MaxTime \in Nat /\ MaxInt \in Nat
      /\ PeriodTicks \in Nat \ {0} /\ PeriodTicks >= K
      /\ SetUpTime <= MaxInt * K
  <2>1. SetUpTime \in 0 .. MaxInt * TicksPerMs
    BY ReleaseAssumption
  <2>2. MaxInt * TicksPerMs \in Int
    BY ConstantTypes
  <2> QED BY ConstantTypes, <2>1, <2>2
<1>2. PICK created \in SetUpAt : \E before, after \in created .. created + SetUpTime :
        LET first == FirstRelease(nextCall, before, after, TicksPerMs)
        IN  /\ before <= after
            /\ now \in after .. created + SetUpTime
            /\ nextCall = created + Period * TicksPerMs
            /\ release = ToInt(first)
            /\ pushed = ToUint(first + Deadline)
            /\ fits = (release = first)
  BY Zenon DEF Init
<1>3. created \in Nat /\ created + SetUpTime <= MaxTime
  BY <1>1, ReleaseAssumption
<1>4. PICK before, after \in created .. created + SetUpTime :
        /\ before <= after
        /\ now \in after .. created + SetUpTime
        /\ nextCall = created + Period * TicksPerMs
        /\ release = ToInt(FirstRelease(nextCall, before, after, TicksPerMs))
        /\ pushed = ToUint(FirstRelease(nextCall, before, after, TicksPerMs)
                             + Deadline)
        /\ fits = (release = FirstRelease(nextCall, before, after, TicksPerMs))
  BY <1>2
<1>5. /\ before \in Int /\ after \in Int /\ now \in Nat /\ now <= MaxTime
      /\ nextCall = created + PeriodTicks /\ nextCall \in Nat
      /\ after - before \in 0 .. SetUpTime
  BY <1>1, <1>3, <1>4 DEF PeriodTicks
<1>6. PICK first : first = FirstRelease(nextCall, before, after, TicksPerMs)
  OBVIOUS
<1>7. /\ first \in Int
      /\ nextCall - first * K
           \in (after - before) - (K - 1) .. (after - before) + 2 * (K - 1)
  <2>1. nextCall \in Int
    BY <1>5
  <2> QED BY <1>1, <1>5, <1>6, <2>1, FirstReleaseFacts, Zenon
<1>8. release = ToInt(first) /\ pushed = ToUint(first + Deadline)
      /\ fits = (release = first)
  BY <1>4, <1>6
<1> HIDE DEF K
<1>9. first * K \in Int
  BY <1>1, <1>7
<1>10. InStep(first)
  <2>1. nextCall - first * K \in 1 - K .. SetUpTime + 2 * (K - 1)
    BY <1>1, <1>5, <1>7, <1>9
  <2> QED BY <2>1 DEF InStep, Offsets, K
<1>11. first >= -MaxInt /\ first >= -SetUpTime
  <2>1. first * K >= K - SetUpTime - 2 * (K - 1)
    BY <1>1, <1>3, <1>5, <1>7, <1>9
  <2>2. first * K > -(SetUpTime + K)
    BY <1>1, <1>9, <2>1
  <2>3. ASSUME NEW m \in Nat, SetUpTime <= m * K, first <= -(m + 1) PROVE FALSE
    <3>1. first * K <= (-(m + 1)) * K
      BY <1>1, <1>7, <2>3
    <3>2. (-(m + 1)) * K = -(m * K) - K /\ m * K \in Int
      BY <1>1
    <3> QED BY <1>1, <1>9, <2>2, <2>3, <3>1, <3>2
  <2>4. SetUpTime * K >= SetUpTime
    BY <1>1
  <2> QED BY <1>1, <1>7, <2>3, <2>4
<1>12. first <= nextCall + Period
  <2>1. SUFFICES ASSUME first >= nextCall + 2 PROVE FALSE
    BY <1>1, <1>5, <1>7
  <2>2. first * K >= (nextCall + 2) * K
    BY <1>1, <1>5, <1>7, <2>1
  <2>3. (nextCall + 2) * K = nextCall * K + 2 * K /\ nextCall * K >= nextCall
    BY <1>1, <1>5
  <2>4. nextCall * K \in Int
    BY <1>1, <1>5
  <2> QED BY <1>1, <1>5, <1>7, <1>9, <2>2, <2>3, <2>4
<1>13. release \in Int /\ release <= first
  BY <1>7, <1>8, <1>11, ToIntFacts
<1>14. TypeOK
  <2>1. pushed \in 0 .. 2 * MaxInt + 1
    <3>1. first + Deadline \in Int
      BY <1>1, <1>7
    <3> QED BY <1>8, <3>1, ToUintFacts
  <2>2. fits \in BOOLEAN
    BY <1>8
  <2>3. dispatched = FALSE /\ accounted = NotYet /\ prompt = TRUE
    BY DEF Init
  <2>4. now \in 0..MaxTime /\ nextCall \in Nat /\ release \in Int
    BY <1>1, <1>5, <1>13
  <2> HIDE DEF Init
  <2> QED BY <2>1, <2>2, <2>3, <2>4 DEF TypeOK
<1>15. AheadInv
  <2>1. release * K <= first * K /\ release * K \in Int
    BY <1>1, <1>7, <1>13
  <2>2. release * K < nextCall + PeriodTicks
    BY <1>1, <1>5, <1>7, <1>9, <2>1
  <2> QED BY <2>2 DEF AheadInv, Init, K
<1>16. StepInv
  BY <1>8, <1>10 DEF StepInv, Init
<1>17. PushedInv
  <2>1. first \in -SetUpTime .. nextCall + Period
    BY <1>1, <1>5, <1>7, <1>11, <1>12
  <2> QED BY <1>8, <1>10, <2>1 DEF PushedInv, Init
<1> QED BY <1>14, <1>15, <1>16, <1>17 DEF IInv

-----------------------------------------------------------------------------
LEMMA TickInv == IInv /\ Tick => IInv'
<1> SUFFICES ASSUME IInv, Tick PROVE IInv'
  OBVIOUS
<1>1. now' = now + 1 /\ UNCHANGED <<nextCall, release, pushed, dispatched, fits,
                                    accounted, prompt>>
  BY DEF Tick
<1>2. TypeOK /\ TypeOK'
  BY <1>1, ConstantTypes DEF IInv, TypeOK, Tick
<1>3. AheadInv'
  <2>1. release * TicksPerMs \in Int /\ PeriodTicks \in Int
    BY <1>2, ConstantTypes DEF TypeOK
  <2>2. PeriodTicks' = PeriodTicks
    BY DEF PeriodTicks
  <2> QED BY <1>1, <1>2, <2>1, <2>2 DEF IInv, AheadInv, TypeOK
<1>4. StepInv'
  BY <1>1 DEF IInv, StepInv, InStep, Offsets
<1>5. PushedInv'
  BY <1>1 DEF IInv, PushedInv, InStep, Offsets
<1> QED BY <1>2, <1>3, <1>4, <1>5 DEF IInv

LEMMA DispatchInv == IInv /\ Dispatch => IInv'
<1> SUFFICES ASSUME IInv, Dispatch PROVE IInv'
  OBVIOUS
<1> DEFINE t == Millis(now, TicksPerMs)
<1>1. /\ now >= nextCall /\ ~dispatched /\ dispatched' = TRUE
      /\ release' = NextRelease(release, t, Period)
      /\ pushed' = ToUint(release' + Deadline)
      /\ accounted' = t
      /\ prompt' = (prompt /\ t <= release + Period)
      /\ UNCHANGED <<now, nextCall, fits>>
  BY DEF Dispatch
<1>2. /\ TypeOK
      /\ now \in Nat /\ nextCall \in Nat /\ release \in Int
      /\ fits \in BOOLEAN /\ prompt \in BOOLEAN
  BY ConstantTypes DEF IInv, TypeOK
<1>3. t \in Nat
  BY <1>2, ConstantTypes, MillisFacts
<1>4. /\ release' \in Int /\ release' >= t
      /\ \/ release' * TicksPerMs < nextCall + 2 * PeriodTicks
         \/ release' * TicksPerMs < now + PeriodTicks
      /\ t <= release + Period => release' = release + Period
  <2>1. release * TicksPerMs < nextCall + Period * TicksPerMs
    BY <1>1 DEF IInv, AheadInv, PeriodTicks
  <2>2. nextCall <= now
    BY <1>1, <1>2
  <2> QED BY <1>1, <1>2, <2>1, <2>2, ConstantTypes, RecordAfterDispatch, Zenon
          DEF PeriodTicks
<1> HIDE DEF t
<1>5. TypeOK'
  <2>1. pushed' \in 0 .. 2 * MaxInt + 1
    <3>1. release' + Deadline \in Int
      BY <1>4, ConstantTypes
    <3> QED BY <1>1, <3>1, ToUintFacts
  <2> QED BY <1>1, <1>2, <1>3, <1>4, <2>1 DEF TypeOK
<1>6. AheadInv'
  BY <1>1, <1>4 DEF AheadInv, PeriodTicks
<1>7. StepInv'
  <2>1. SUFFICES ASSUME fits, prompt, t <= release + Period
                 PROVE  InStep(release - Period)'
    BY <1>1 DEF StepInv
  <2>2. InStep(release)
    BY <1>1, <2>1 DEF IInv, StepInv
  <2>3. release' - Period = release
    BY <1>2, <1>4, <2>1, ConstantTypes
  <2> QED BY <1>1, <2>2, <2>3 DEF InStep, Offsets
<1>8. PushedInv'
  <2>1. accounted' # NotYet
    BY <1>1, <1>3 DEF NotYet
  <2>2. accounted' <= release' /\ pushed' = ToUint(release' + Deadline)
    BY <1>1, <1>3, <1>4
  <2> QED BY <2>1, <2>2 DEF PushedInv, ToUint
<1> QED BY <1>5, <1>6, <1>7, <1>8 DEF IInv

LEMMA CallInv == IInv /\ Call => IInv'
<1> SUFFICES ASSUME IInv, Call PROVE IInv'
  OBVIOUS
<1>1. /\ dispatched /\ dispatched' = FALSE
      /\ nextCall' = NextCall(nextCall, now, PeriodTicks)
      /\ prompt' = (prompt /\ now <= nextCall + PeriodTicks)
      /\ UNCHANGED <<now, release, pushed, fits, accounted>>
  BY DEF Call, PeriodTicks
<1>2. /\ TypeOK
      /\ now \in Nat /\ nextCall \in Nat /\ release \in Int
      /\ fits \in BOOLEAN /\ prompt \in BOOLEAN
  BY ConstantTypes DEF IInv, TypeOK
<1>3. release * TicksPerMs \in Int
  BY <1>2, ConstantTypes
<1>4. /\ nextCall' \in Nat
      /\ release * TicksPerMs < nextCall' + PeriodTicks
      /\ now <= nextCall + PeriodTicks => nextCall' = nextCall + PeriodTicks
  <2>1. \/ release * TicksPerMs < nextCall + 2 * PeriodTicks
        \/ release * TicksPerMs < now + PeriodTicks
    BY <1>1 DEF IInv, AheadInv
  <2> QED BY <1>1, <1>2, <1>3, <2>1, ConstantTypes, RecordAfterCall, Zenon
<1>5. TypeOK'
  BY <1>1, <1>2, <1>4 DEF TypeOK
<1>6. AheadInv'
  BY <1>1, <1>4 DEF AheadInv, PeriodTicks
<1>7. StepInv'
  <2>1. SUFFICES ASSUME fits, prompt, now <= nextCall + PeriodTicks
                 PROVE  InStep(release)'
    BY <1>1 DEF StepInv
  <2>2. InStep(release - Period)
    BY <1>1, <2>1 DEF IInv, StepInv
  <2>3. nextCall' - release * TicksPerMs = nextCall - (release - Period) * TicksPerMs
    <3>1. (release - Period) * TicksPerMs = release * TicksPerMs - PeriodTicks
      BY <1>2, ConstantTypes DEF PeriodTicks
    <3>2. nextCall' = nextCall + PeriodTicks
      BY <1>4, <2>1
    <3> QED BY <1>2, <1>3, <3>1, <3>2, ConstantTypes
  <2> QED BY <1>1, <2>2, <2>3 DEF InStep, Offsets
<1>8. PushedInv'
  <2>1. accounted # NotYet
    BY <1>1 DEF IInv, PushedInv
  <2> QED BY <1>1, <2>1 DEF IInv, PushedInv
<1> QED BY <1>5, <1>6, <1>7, <1>8 DEF IInv

-----------------------------------------------------------------------------
(***************************************************************************)
(* IInv is an invariant: how far the record may be from the timer, before  *)
(* and after the timer is called, prompt or not, and which release the     *)
(* last deadline pushed belongs to.                                        *)
(***************************************************************************)
THEOREM InductiveInvariant == Spec => []IInv
<1>1. IInv /\ [Next]_vars => IInv'
  <2> SUFFICES ASSUME IInv, [Next]_vars PROVE IInv'
    OBVIOUS
  <2>1. CASE UNCHANGED vars
    BY <2>1 DEF vars, IInv, TypeOK, AheadInv, StepInv, PushedInv, PeriodTicks,
                InStep, Offsets
  <2> QED BY <2>1, TickInv, DispatchInv, CallInv DEF Next
<1> QED BY <1>1, InitInv, PTL DEF Spec

(***************************************************************************)
(* The clock, the record and the deadline keep to their ranges: the record *)
(* is a long, the deadline a uint.                                         *)
(***************************************************************************)
THEOREM TypeCorrect == Spec => []TypeOK
<1>1. IInv => TypeOK
  BY DEF IInv
<1> QED BY <1>1, InductiveInvariant, PTL

(***************************************************************************)
(* While the timer is served within a period, what the readings of the     *)
(* set-up and of the dispatches cut off does not add up: the record stays  *)
(* in step with the timer (priority_memory_strategy.hpp:797-829,           *)
(* muex_test.cpp:236-246).                                                 *)
(***************************************************************************)
THEOREM TheRecordStaysInStep == Spec => []NoDrift
<1>1. IInv => NoDrift
  BY DEF IInv, StepInv, NoDrift
<1> QED BY <1>1, InductiveInvariant, PTL

(***************************************************************************)
(* Whatever the uptime at the set-up and however late the timer, the       *)
(* deadline pushed is that of a release in step with the timer, or of one  *)
(* that was not over when it was pushed and is less than a period after    *)
(* the timer's next call (priority_memory_strategy.hpp:797-831,            *)
(* 1303-1313).                                                             *)
(***************************************************************************)
THEOREM DeadlinesStayInReach == Spec => []DeadlineInReach
<1>1. IInv => DeadlineInReach
  <2> SUFFICES ASSUME IInv, ~dispatched
               PROVE  \E r \in -SetUpTime .. nextCall + Period :
                        /\ pushed = ToUint(r + Deadline)
                        /\ IF accounted = NotYet \/ (fits /\ prompt)
                           THEN InStep(r) ELSE InReach(r)
    BY DEF DeadlineInReach
  <2>1. CASE accounted = NotYet
    BY <2>1 DEF IInv, PushedInv
  <2>2. CASE accounted # NotYet
    <3>1. accounted <= release /\ pushed = ToUint(release + Deadline)
      BY <2>2 DEF IInv, PushedInv
    <3>2. release * TicksPerMs < nextCall + Period * TicksPerMs
      BY DEF IInv, AheadInv, PeriodTicks
    <3>3. /\ release \in Int /\ nextCall \in Nat /\ accounted \in Nat
          /\ Period \in Nat /\ TicksPerMs \in Nat \ {0} /\ SetUpTime \in Nat
      BY <2>2, ConstantTypes DEF IInv, TypeOK
    <3>4. release \in -SetUpTime .. nextCall + Period
      <4>1. SUFFICES release <= nextCall + Period
        BY <3>1, <3>3
      <4>2. SUFFICES ASSUME release >= nextCall + Period PROVE FALSE
        BY <3>3
      <4>3. release * TicksPerMs >= (nextCall + Period) * TicksPerMs
        BY <3>3, <4>2
      <4>4. /\ (nextCall + Period) * TicksPerMs
                 = nextCall * TicksPerMs + Period * TicksPerMs
            /\ nextCall * TicksPerMs >= nextCall
        BY <3>3
      <4>5. /\ nextCall * TicksPerMs \in Int /\ Period * TicksPerMs \in Int
            /\ release * TicksPerMs \in Int
        BY <3>3
      <4> QED BY <3>2, <3>3, <4>3, <4>4, <4>5
    <3>5. InReach(release)
      BY <3>1, <3>2 DEF InReach
    <3>6. fits /\ prompt => InStep(release)
      BY DEF IInv, StepInv
    <3> QED BY <2>2, <3>1, <3>4, <3>5, <3>6
  <2> QED BY <2>1, <2>2
<1> QED BY <1>1, InductiveInvariant, PTL
===============================================================================
