CONSTANTS
  TicksPerMs = 2
  Period = 4
  Deadline = 6
  MaxInt = 15
  SetUpAt <- Uptimes
  SetUpTime = 9
  MaxTime = 110
SPECIFICATION Spec
INVARIANTS
  TypeOK
  NoDrift
  DeadlineInReach
CHECK_DEADLOCK FALSE
