CONSTANTS
  Requests = {r1, r2, r3, r4}
  Sessions = {s1, s2}
  InitLevel = 2
  L5Allowed = FALSE
SYMMETRY MCSymmetry
SPECIFICATION Spec
CHECK_DEADLOCK FALSE
INVARIANTS CappedNeverL5 EventsExplainLevel
PROPERTIES LadderSpec
