---------------------------- MODULE TimerArithmetic ----------------------------
(***************************************************************************)
(* How the memory strategy and rcl each move a periodic timer on to its    *)
(* next release.  The strategy does it when the timer is chosen, in whole  *)
(* milliseconds (priority_memory_strategy.hpp:796-829), rcl when it is     *)
(* called, in nanoseconds: what the two have to agree on is proved in      *)
(* ArithmeticProofs.  A fine clock has so many ticks to the millisecond.   *)
(***************************************************************************)
EXTENDS Integers

CeilDiv(a, b) == (a + b - 1) \div b

\* tv_sec * 1000 + tv_nsec / 1000000.
Millis(t, ticks) == t \div ticks

\* A duration's count() / 1000000: towards zero.
Truncated(d, ticks) == IF d >= 0 THEN d \div ticks ELSE -((-d) \div ticks)

\* The first release that is recorded for a timer next called at n: the clock
\* is read before, and then how long it is until n, both cut to milliseconds.
FirstRelease(n, before, after, ticks) ==
  Millis(before, ticks) + Truncated(n - after, ticks)

AbsDiff(a, b) == IF a >= b THEN a - b ELSE b - a

\* (mutant: one period too many when late by whole periods)
NextRelease_floor(r, t, period) ==
  LET diff == AbsDiff(t, r)
  IN  IF diff < period THEN r + period ELSE r + (diff \div period + 1) * period

\* The next release recorded when a timer recorded as released at r is
\* dispatched at time t.
NextRelease(r, t, period) ==
  LET diff == AbsDiff(t, r)
  IN  IF diff < period THEN r + period ELSE r + CeilDiv(diff, period) * period

\* rcl_timer_call at time t for a timer due at n: on to the next period, over
\* those that are past already.
NextCall(n, t, period) ==
  IF n + period >= t
  THEN n + period
  ELSE n + period + CeilDiv(t - (n + period), period) * period
===============================================================================
