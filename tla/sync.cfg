SPECIFICATION FairSpec
CONSTANTS
  it = it  wh = wh  stN = stN  stW = stW  q = q
  a = a  b = b  v0 = v0  v1 = v1
  Sources = {a, b}
  Sessions = {w1, w2}
  Keys = {it, wh, stN, stW, q}
  Rank <- MCRank
  ItemKey <- MCItemKey
  NamedIn <- MCNamedIn
  Elsewhere <- MCElsewhere
  Watched = {stN, stW, q}
  Nullable = {q}
  Unique = {it, wh}
  Values = {v0, v1}
  Default = v0  Null = Null
  Unset = Unset  Bad = Bad  NoRecord = NoRecord  Absent = Absent  None = None
  Feeds <- MCFeeds
  MaxCrashes = 1
INVARIANTS OneRowPerMaster
PROPERTIES CanonicalSpec Settles
CHECK_DEADLOCK FALSE
