SPECIFICATION FairSpec
CONSTANTS
  c1 = c1
  c2 = c2
  w1 = w1
  w2 = w2
  NoCallback = NoCallback
  Callers <- TwoCallers
  Workers <- OneWorker
  SpawnedBy <- AllByFirst
  Callbacks <- AllCallbacks
  Timers <- AllTimers
  Subscriptions <- SubscriptionSet
  Groups <- AllGroups
  MutuallyExclusive <- ExclusiveGroups
  GroupOf <- GroupMap
  MayOverrun = FALSE
  MayCancel = FALSE
INVARIANTS
  GroupNotLost
  OneSpin
PROPERTIES
  WorkIsExecuted
  ShutdownEndsSpin
