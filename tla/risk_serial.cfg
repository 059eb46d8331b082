CONSTANTS
  c1 = c1  c2 = c2  f1 = f1  f2 = f2  g1 = g1  s1 = s1  s2 = s2
  Conditions = {c1, c2}
  Findings = {f1, f2, g1}
  CondOf <- TwoConditions
  Signals = {s1, s2}
  EvidenceOf <- OwnEvidence
  Unlinked = {c2}
  Workers = {w1}
  Requests = {r1}
  MaxPasses = 1
  None = None
SPECIFICATION Spec
CHECK_DEADLOCK FALSE
INVARIANTS OneLiveJob LinkedOnce ExplainedAndGrounded
PROPERTY RegisterSpec
