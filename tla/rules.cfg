SPECIFICATION RulesSpec
CONSTANTS
  Orders = {o1, o2, o3}
  Prices = {p1, p2}
  QualityRows = {q1, q2}
  Quantities <- MCQuantities
  UsageRows <- MCUsageRows
  LeadTimes = {0, 4}
  NeedDates = {1, 3, 5}
  OrderRows <- MCOrderRows
  PriceRows <- MCPriceRows
  DefectRates = {2, Null}
  DayTicks = 2
  Scale = 4
  MaxStored = 100
  MaxReports = 4
  MaxTime = 5
  Null = Null
INVARIANTS FiresRightly MissesLessThanADay
PROPERTIES WaitingOnlyCalms
CHECK_DEADLOCK FALSE
