------------------------ MODULE MCMultiThreadExecutor ------------------------
(***************************************************************************)
(* Instances of MultiThreadExecutor for TLC.  One mutually exclusive group *)
(* "node" (a node's default group) with a timer and a subscription, and,   *)
(* where a run wants it, one reentrant group "free" with a timer and a     *)
(* service.                                                                *)
(***************************************************************************)
EXTENDS MultiThreadExecutor, TLC

CONSTANTS c1, c2, w1, w2

OneCaller == {c1}
TwoCallers == {c1, c2}
OneWorker == {w1}
TwoWorkers == {w1, w2}
AllByFirst == [w \in Workers |-> c1]

NodeCallbacks == {"timer", "sub"}
TimerCallbacks == {"timer", "sub", "freeTimer"}
AllCallbacks == {"timer", "sub", "freeTimer", "service"}
NodeTimers == {"timer"}
AllTimers == {"timer", "freeTimer"}
SubscriptionSet == {"sub"}
NodeGroups == {"node"}
AllGroups == {"node", "free"}
ExclusiveGroups == {"node"}
GroupMap == [c \in Callbacks |->
               IF c \in {"freeTimer", "service"} THEN "free" ELSE "node"]
==============================================================================
