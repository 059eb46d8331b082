SPECIFICATION FairSpec
CONSTANTS
  i1 = i1  s1 = s1  p1 = p1
  Workers = {w1, w2}
  RowIds = {r1}
  Keys = {s1, p1}
  ItemKey <- MCItemKey
  Watched = {s1, p1}
  Values = {v0, v1}
  Absent = Absent  None = None
  Stock = {s1}
  Others = {p1}
  MaxSyncs = 3
INVARIANTS FreshUnlessPending OneAggregate RulesSeeAggregates
PROPERTIES CatchesUp
CHECK_DEADLOCK FALSE
