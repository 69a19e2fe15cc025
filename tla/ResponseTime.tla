----------------------------- MODULE ResponseTime -----------------------------
(***************************************************************************)
(* The two off-line programs that bound the response time of a chain,      *)
(* theorem_1.cpp and theorem_2.cpp: for one chain after the other they     *)
(* look for the smallest time gap in which the demand of all chains leaves *)
(* a thread idle.  The arithmetic is unsigned and wraps at Wrap, the bound *)
(* theorem_1.cpp keeps at UintWrap; the search has no end but to find such *)
(* a gap.                                                                  *)
(***************************************************************************)
EXTENDS Sequences, Functions, TimerArithmetic

CONSTANTS
  Workloads,  \* of a program: [runtimes, periods, deadlines, threads]
  Wrap,       \* one more than the largest uint64_t
  UintWrap    \* one more than the largest uint

Programs == {1, 2}

ASSUME ResponseAssumption ==
  /\ Wrap \in Nat \ {0} /\ UintWrap \in 1 .. Wrap
  /\ \A p \in Programs : \A w \in Workloads[p] :
       /\ w.threads \in Nat \ {0}
       /\ w.runtimes \in Seq(Seq(Nat \ {0})) /\ w.runtimes # <<>>
       /\ \A c \in DOMAIN w.runtimes : w.runtimes[c] # <<>>
       /\ w.periods \in [DOMAIN w.runtimes -> Nat \ {0}]
       /\ w.deadlines \in [DOMAIN w.runtimes -> Nat \ {0}]

\* chain_runtimes, last_chain_callbacks, and the chains with a shorter deadline.
RuntimeIn(w, c) == SumFunction(w.runtimes[c])
LastRuntimeIn(w, c) == w.runtimes[c][Len(w.runtimes[c])]
UrgentIn(w, i) == {j \in DOMAIN w.runtimes : w.deadlines[j] < w.deadlines[i]}

\* No gap has a larger demand than this, nor is the gap that is found longer.
MostDemand(w, i) ==
  w.threads * RuntimeIn(w, i)
  + SumFunction([j \in UrgentIn(w, i) |->
      (CeilDiv(w.deadlines[i], w.periods[j]) + 1) * RuntimeIn(w, j)])
  + SumFunction([k \in DOMAIN w.runtimes |->
      CeilDiv(w.deadlines[k], w.periods[k]) * RuntimeIn(w, k)])

LongestGap(w, i) == MostDemand(w, i) \div w.threads + 1

\* Beside the numbers of the tables the unsigned ones are large.  threads times
\* the longest gap is one, so IdleIn need not wrap its product.
ASSUME WordAssumption ==
  \A p \in Programs : \A w \in Workloads[p] : \A i \in DOMAIN w.runtimes :
    /\ w.deadlines[i] < Wrap
    /\ MostDemand(w, i) < Wrap
    /\ w.threads * LongestGap(w, i) < Wrap
    /\ LongestGap(w, i) + RuntimeIn(w, i) < (IF p = 1 THEN UintWrap ELSE Wrap)
    /\ \A j \in UrgentIn(w, i) :
         w.deadlines[i] * w.periods[j] + RuntimeIn(w, j) <= Wrap

\* theorem_1.cpp:55 subtracts the whole window times the period from the gap.
\* That is more than the gap if deadlines differ by enough, as they do in the
\* tables.
ASSUME WindowAssumption ==
  \A w \in Workloads[1] : \A i \in DOMAIN w.runtimes : \A j \in UrgentIn(w, i) :
    (w.deadlines[i] - w.deadlines[j]) * w.periods[j] > LongestGap(w, i)

VARIABLES
  program,   \* which of the two programs
  workload,  \* its tables
  gap,       \* time_gap
  WCRT       \* the bounds found so far

vars == <<program, workload, gap, WCRT>>

Chains == DOMAIN workload.runtimes
Period(c) == workload.periods[c]
Deadline(c) == workload.deadlines[c]

Runtime(c) == RuntimeIn(workload, c)
LastRuntime(c) == LastRuntimeIn(workload, c)
Urgent(i) == UrgentIn(workload, i)

Least(a, b) == IF a <= b THEN a ELSE b
Minus(a, b) == (a - b) % Wrap

\* How much longer i's deadline is than j's, within the gap.
Window(i, j, g) == Least(g, Deadline(i) - Deadline(j))

\* (mutant: without the other threads)
OwnDemand_oneThread(i) == Runtime(i) - LastRuntime(i)

\* All threads' time while i runs but for its last callback.
OwnDemand(i) == workload.threads * (Runtime(i) - LastRuntime(i))

\* (mutant: the difference saturates at 0)
UrgentDemand1_saturated(i, j, g) ==
  LET w == Window(i, j, g)
      rest == IF g >= w * Period(j) THEN g - w * Period(j) ELSE 0
  IN  (w \div Period(j)) * Runtime(j) + Least(Runtime(j), rest)

UrgentDemand1(i, j, g) ==
  LET w == Window(i, j, g)
  IN  (w \div Period(j)) * Runtime(j)
      + Least(Runtime(j), Minus(g, w * Period(j)))

\* Releases of j in w time units.
Instances(j, w) == Minus(w, 1) \div Period(j) + 1

UrgentDemand2(i, j, g) == Instances(j, Window(i, j, g)) * Runtime(j)

OtherDemand1(i, k, g) == IF k = i THEN 0 ELSE Least(Runtime(k), g)
OtherDemand2(k, g) == Instances(k, Deadline(k)) * Least(Runtime(k), g)

Demand1(i, g) ==
  (OwnDemand(i)
   + SumFunction([j \in Urgent(i) |-> UrgentDemand1(i, j, g)])
   + SumFunction([k \in Chains |-> OtherDemand1(i, k, g)])) % Wrap

Demand2(i, g) ==
  (OwnDemand(i)
   + SumFunction([j \in Urgent(i) |-> UrgentDemand2(i, j, g)])
   + SumFunction([k \in Chains |-> OtherDemand2(k, g)])
   - Least(Runtime(i), g)) % Wrap

Demand(i, g) == IF program = 1 THEN Demand1(i, g) ELSE Demand2(i, g)

-----------------------------------------------------------------------------
\* The chain that is looked at.
Current == Len(WCRT) + 1

TypeOK ==
  /\ program \in Programs
  /\ workload \in Workloads[program]
  /\ gap \in 0 .. Wrap - 1
  /\ WCRT \in Seq(0 .. Wrap - 1) /\ Len(WCRT) <= Len(workload.runtimes)

\* (mutant: the difference the wrong way round)
FirstGap_swapped(c) == LastRuntime(c) - Runtime(c)
FirstGap(c) == Runtime(c) - LastRuntime(c)

Init ==
  /\ program \in Programs
  /\ workload \in Workloads[program]
  /\ WCRT = <<>>
  /\ gap = FirstGap(1)

Searching == Current \in Chains

IdleIn(i, g) == Demand(i, g) < workload.threads * g

\* theorem_1.cpp keeps the bound in a uint.
Bound(n) == IF program = 1 THEN n % UintWrap ELSE n

Found ==
  /\ Searching
  /\ IdleIn(Current, gap)
  /\ WCRT' = Append(WCRT, Bound(gap + LastRuntime(Current) - 1))
  /\ gap' = IF Current + 1 \in Chains THEN FirstGap(Current + 1) ELSE gap
  /\ UNCHANGED <<program, workload>>

\* (mutant: given up at the deadline)
Longer_toDeadline ==
  /\ Searching
  /\ ~IdleIn(Current, gap)
  /\ gap < Deadline(Current)
  /\ gap' = gap + 1
  /\ UNCHANGED <<program, workload, WCRT>>

Longer ==
  /\ Searching
  /\ ~IdleIn(Current, gap)
  /\ gap' = gap + 1
  /\ UNCHANGED <<program, workload, WCRT>>

Next == Found \/ Longer

\* A sequential program goes on as long as it can.
Spec == Init /\ [][Next]_vars /\ WF_vars(Next)

-----------------------------------------------------------------------------
(***************************************************************************)
(* The demand as it would be over the integers.  Of theorem_1 it is what   *)
(* the line commented out says of the whole gap, for the window: whole     *)
(* periods, and what fits into the rest (theorem_1.cpp:54); of theorem_2   *)
(* every period that has begun.                                            *)
(***************************************************************************)
IntendedUrgent1(i, j, g) ==
  LET w == Window(i, j, g)
  IN  (w \div Period(j)) * Runtime(j) + Least(Runtime(j), w % Period(j))

IntendedUrgent2(i, j, g) == CeilDiv(Window(i, j, g), Period(j)) * Runtime(j)

IntendedOther2(k, g) == CeilDiv(Deadline(k), Period(k)) * Least(Runtime(k), g)

Intended1(i, g) ==
  OwnDemand(i)
  + SumFunction([j \in Urgent(i) |-> IntendedUrgent1(i, j, g)])
  + SumFunction([k \in Chains |-> OtherDemand1(i, k, g)])

Intended2(i, g) ==
  OwnDemand(i)
  + SumFunction([j \in Urgent(i) |-> IntendedUrgent2(i, j, g)])
  + SumFunction([k \in Chains |-> IntendedOther2(k, g)])
  - Least(Runtime(i), g)

Intended(i, g) == IF program = 1 THEN Intended1(i, g) ELSE Intended2(i, g)

(***************************************************************************)
(* Where the difference in theorem_1.cpp:55 is negative it wraps to a huge *)
(* number, of which the minimum takes a whole run of the chain: the demand *)
(* computed is never less than the intended one, so that no bound is too   *)
(* small for that (theorem_1.cpp:55, theorem_2.cpp:43-53).                 *)
(***************************************************************************)
NotUnderestimated == Searching => Demand(Current, gap) >= Intended(Current, gap)

(***************************************************************************)
(* No bound is below what the chain takes when it runs alone, although the *)
(* search starts without its last callback, one is subtracted, and the sum *)
(* is narrowed to a uint (theorem_1.cpp:48-72, theorem_2.cpp:39-62).       *)
(***************************************************************************)
CoversOwnRuntime == \A c \in DOMAIN WCRT : WCRT[c] >= Runtime(c)

(***************************************************************************)
(* The search ends: the demand of a chain stops growing with the gap, and  *)
(* no sum wraps before (theorem_1.cpp:50-76, theorem_2.cpp:40-64).         *)
(***************************************************************************)
EveryBoundIsFound == <>(Len(WCRT) = Len(workload.runtimes))
===============================================================================
