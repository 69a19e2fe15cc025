SPECIFICATION FairSpec
CONSTANTS
  c1 = c1
  c2 = c2
  w1 = w1
  w2 = w2
  NoCallback = NoCallback
  Callers <- TwoCallers
  Workers <- OneWorker
  SpawnedBy <- AllByFirst
  Callbacks <- AllTimers
  Timers <- AllTimers
  Subscriptions = {}
  Groups <- AllGroups
  MutuallyExclusive <- ExclusiveGroups
  GroupOf <- GroupMap
  MayOverrun = TRUE
  MayCancel = TRUE
INVARIANTS
  NoSharedTimer
  TimerCalledWhenDue
  IInv
PROPERTY
  CancelEndsSpin
