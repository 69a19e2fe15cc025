---------------------------- MODULE MCReleaseTime -----------------------------
(***************************************************************************)
(* Two ticks to the millisecond, a period of 4 ms; int wraps after 16 ms   *)
(* of uptime and uint after 32.                                            *)
(***************************************************************************)
EXTENDS ReleaseTime

\* Set up early, just before and after int's wrap, and around uint's.
Uptimes == {0, 3, 19, 20, 23, 24, 27, 52, 55, 60}
===============================================================================
