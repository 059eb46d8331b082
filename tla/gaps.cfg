CONSTANTS
  s1 = s1  s2 = s2  g1 = g1  g2 = g2  g3 = g3  g4 = g4
  Sessions = {s1, s2}
  Gaps = {g1, g2, g3}
  Callers = {"check", "sync", "explain"}
SPECIFICATION FairSpec
CHECK_DEADLOCK FALSE
INVARIANT OneOpenGap HealthMatchesGap
PROPERTY StuckForever SourceGapCloses
