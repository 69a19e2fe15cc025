CONSTANTS
  Workloads <- Tables
  Wrap = 1073741824
  UintWrap = 32768
SPECIFICATION Spec
INVARIANTS
  TypeOK
  NotUnderestimated
  CoversOwnRuntime
PROPERTIES
  EveryBoundIsFound
CHECK_DEADLOCK FALSE
