---------------------------- MODULE MCTimedExecutor ----------------------------
(***************************************************************************)
(* Instances of TimedExecutor for TLC: a node with a DEADLINE timer and a  *)
(* CHAIN_INDEPENDENT client, and a node with a CHAIN_AWARE subscription    *)
(* and a waitable nobody configured.                                       *)
(***************************************************************************)
EXTENDS TimedExecutor

CONSTANTS n1, n2

TwoNodes == {n1, n2}
AllEntities == {"t", "c", "s", "w"}
KindMap == [e \in AllEntities |->
              CASE e = "t" -> "timer" [] e = "c" -> "client"
                [] e = "s" -> "subscription" [] e = "w" -> "waitable"]
NodeMap == [e \in AllEntities |-> IF e \in {"t", "c"} THEN n1 ELSE n2]
ConfiguredSet == {"t", "s", "c"}
ScheduleMap == [e \in ConfiguredSet |->
                  CASE e = "t" -> "DEADLINE"
                    [] e = "s" -> "CHAIN_AWARE_PRIORITY"
                    [] e = "c" -> "CHAIN_INDEPENDENT_PRIORITY"]
PriorityMap == [e \in ConfiguredSet |-> 1]
===============================================================================
