--------------------------- MODULE MCChainDeadlines ---------------------------
(***************************************************************************)
(* Instances of ChainDeadlines for TLC: two chains with relative deadlines *)
(* beyond their periods, so with two queues each (as chains 2 and 5 of     *)
(* arb_test.cpp), which share a timer (as chains 0 and 1 of the            *)
(* experiments) or have one each.  That the experiments themselves are     *)
(* what ChainDeadlines assumes is stated in Experiments, whose assumptions *)
(* TLC evaluates with this module.                                         *)
(***************************************************************************)
EXTENDS ChainDeadlines, Experiments

TwoChains == {0, 1}

\* By chain id.
Lengths == [c \in Chains |-> IF c = 0 THEN 2 ELSE 3]
Periods == [c \in Chains |-> IF c = 0 THEN 2 ELSE 3]
RelativeDeadlines == [c \in Chains |-> 4]

\* The second callbacks of both chains share a node, as those of MuExWorker do;
\* the others have a node, and so a mutually exclusive group, of their own.
GroupMap == [cb \in Callbacks |-> IF cb[2] = 2 THEN <<0, 2>> ELSE cb]

\* Nodes that may expire: with a callback in the middle of one chain and the
\* last one of the other; with the last one of chain 1; with a timer.
WorkerNode == {<<0, 2>>}
LastNode == {<<1, 3>>}
TimerNode == {<<0, 1>>}
AllNodes == WorkerNode \union LastNode \union TimerNode
===============================================================================
