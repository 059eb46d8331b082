CONSTANTS
  o1 = o1  o2 = o2  n1 = n1  u1 = u1
  Jobs = {o1, o2, u1}
  Workers = {w1, w2}
  Nobody = nobody
  Kinds <- MCKinds
  KindOf <- MCKindOf
  Registered <- MCRegistered
  Recurring <- MCRecurring
  Limit = 1
  MaxAttempts = 2
  BackoffBase = 1
  BackoffCap = 3
  Interval = 1
  MaxTime = 2
  RollbackExpires = TRUE
SPECIFICATION FairSpec
CHECK_DEADLOCK FALSE
INVARIANTS OneRunner EffectsOnce OneLivePerChain
PROPERTIES StrandedForever LifecycleSpec DueGetsClaimed
