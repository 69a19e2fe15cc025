--------------------------- MODULE MCIntervalTimers ---------------------------
(***************************************************************************)
(* A delay of two ticks and room for a few intervals after it.             *)
(***************************************************************************)
EXTENDS IntervalTimers
===============================================================================
