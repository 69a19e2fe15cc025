SPECIFICATION Spec
CONSTANTS
  Chains <- TwoChains
  Length <- Lengths
  MaxLength = 3
  Period <- Periods
  Deadline <- RelativeDeadlines
  GroupOf <- GroupMap
  F1tenth = {TRUE, FALSE}
  NumThreads = 2
  TicksPerMs = 2
  SetUpFrom = 2
  SetUpTo = 3
  MayOverwrite = TRUE
  MayOverrun = FALSE
  Expiring <- AllNodes
  MaxTime = 14
CHECK_DEADLOCK FALSE
INVARIANTS
  TypeOK
  ReadyHasDeadline
  SeenWithinAPeriod
  SeenIsDue
  RecordWithinAPeriod
  DeadlineLedger
  ChoiceIsFresh
PROPERTIES
  OlderInstanceFirst
  EarliestDeadlineFirst
