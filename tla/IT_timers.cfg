CONSTANTS
  StartDelay = 2
  MaxTime = 10
SPECIFICATION Spec
INVARIANTS
  TypeOK
  LongestIsKept
  ShortestSinceZero
  DelayIsNotMeasured
CHECK_DEADLOCK FALSE
