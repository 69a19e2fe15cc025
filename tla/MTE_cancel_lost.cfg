SPECIFICATION Spec
CONSTANTS
  c1 = c1
  c2 = c2
  w1 = w1
  w2 = w2
  NoCallback = NoCallback
  Callers <- OneCaller
  Workers <- OneWorker
  SpawnedBy <- AllByFirst
  Callbacks <- NodeCallbacks
  Timers <- NodeTimers
  Subscriptions <- SubscriptionSet
  Groups <- NodeGroups
  MutuallyExclusive <- ExclusiveGroups
  GroupOf <- GroupMap
  MayOverrun = FALSE
  MayCancel = TRUE
INVARIANT
  GroupNotLost
