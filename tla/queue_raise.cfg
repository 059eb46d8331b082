CONSTANTS
  o1 = o1  o2 = o2  n1 = n1  u1 = u1
  Jobs = {n1, u1}
  Workers = {w1}
  Nobody = nobody
  Kinds <- MCKinds
  KindOf <- MCKindOf
  Registered <- MCRegistered
  Recurring <- MCRecurring
  Limit = 2
  MaxAttempts = 2
  BackoffBase = 1
  BackoffCap = 3
  Interval = 1
  MaxTime = 1
  RollbackExpires = TRUE
SPECIFICATION Spec
CHECK_DEADLOCK FALSE
PROPERTIES RaisedIsRecorded
