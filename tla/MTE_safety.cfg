SPECIFICATION Spec
CONSTANTS
  c1 = c1
  c2 = c2
  w1 = w1
  w2 = w2
  NoCallback = NoCallback
  Callers <- TwoCallers
  Workers <- OneWorker
  SpawnedBy <- AllByFirst
  Callbacks <- TimerCallbacks
  Timers <- AllTimers
  Subscriptions <- SubscriptionSet
  Groups <- AllGroups
  MutuallyExclusive <- ExclusiveGroups
  GroupOf <- GroupMap
  MayOverrun = FALSE
  MayCancel = TRUE
INVARIANTS
  TypeOK
  GroupMutex
  CollectedStaysFree
  IInv
PROPERTY
  ImplementsDispatch
