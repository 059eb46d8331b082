CONSTANTS
  s1 = s1  s2 = s2  a1 = a1  a2 = a2  m1 = m1  m2 = m2  t1 = t1  t2 = t2
  Null = Null
  Sessions = {s1, s2}
  Mappings = {m1, m2}
  Targets = {t1, t2}
  Actors = {a1, a2}
  Ops = {"create", "suggest", "confirm", "bulk", "reject", "retire", "edit"}
  MaxRequests = 3
SPECIFICATION FairSpec
INVARIANTS OnlyUsersConfirm OnlyBulkDeadlocks HistoryTellsRow ConfirmerMatchesStatus
PROPERTY LifecycleSpec EveryRequestAnswered
CHECK_DEADLOCK FALSE
