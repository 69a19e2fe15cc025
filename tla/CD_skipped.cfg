SPECIFICATION Spec
CONSTANTS
  Chains <- TwoChains
  Length <- Lengths
  MaxLength = 3
  Period <- Periods
  Deadline <- RelativeDeadlines
  GroupOf <- GroupMap
  F1tenth = {FALSE}
  NumThreads = 2
  TicksPerMs = 2
  SetUpFrom = 2
  SetUpTo = 2
  MayOverwrite = FALSE
  MayOverrun = TRUE
  Expiring = {}
  MaxTime = 14
CHECK_DEADLOCK FALSE
INVARIANT
  RecordWithinAPeriod
