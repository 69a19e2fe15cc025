---------------------------- MODULE MCResponseTime ----------------------------
(***************************************************************************)
(* The tables of theorem_1.cpp and theorem_2.cpp, and the two chains that  *)
(* theorem_1.cpp and blocking_time.cpp name besides.  A uint64_t has 30    *)
(* bits and a uint 15.                                                     *)
(***************************************************************************)
EXTENDS ResponseTime

SixChains == <<<<2, 16>>, <<2, 2, 9, 9>>, <<21, 8, 7, 2>>, <<23, 8, 14>>,
               <<18, 11, 8, 8>>, <<11, 22, 5, 18>>>>
SixDeadlines == <<80, 80, 120, 140, 160, 180>>

SixOn3 == [runtimes |-> SixChains, periods |-> SixDeadlines,
           deadlines |-> SixDeadlines, threads |-> 3]
SixOn2 == [runtimes |-> SixChains, periods |-> <<40, 40, 60, 70, 80, 90>>,
           deadlines |-> SixDeadlines, threads |-> 2]
TwoOn3 == [runtimes |-> <<<<50, 30>>, <<15, 15, 35, 35>>>>,
           periods |-> <<100, 110>>, deadlines |-> <<100, 110>>, threads |-> 3]
TwoOn2 == [runtimes |-> <<<<50, 60>>, <<15, 25, 35, 45>>>>,
           periods |-> <<100, 110>>, deadlines |-> <<250, 300>>, threads |-> 2]

Tables == <<{SixOn3, TwoOn3}, {SixOn2, TwoOn2}>>
===============================================================================
