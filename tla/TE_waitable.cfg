SPECIFICATION FairSpec
CONSTANTS
  n1 = n1
  n2 = n2
  NoEntity = NoEntity
  Nodes <- TwoNodes
  Entities <- AllEntities
  Kind <- KindMap
  NodeOf <- NodeMap
  Configured <- ConfiguredSet
  SetSchedule <- ScheduleMap
  SetPriority <- PriorityMap
CHECK_DEADLOCK FALSE
PROPERTY
  WorkIsExecuted
