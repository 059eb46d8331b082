CONSTANTS
  c1 = c1  c2 = c2  f1 = f1  f2 = f2  g1 = g1  s1 = s1  s2 = s2
  Conditions = {c1}
  Findings = {f1, f2}
  CondOf <- OneCondition
  Signals = {s1}
  EvidenceOf <- OneEvidence
  Unlinked = {c1}
  Workers = {w1, w2}
  Requests = {r1}
  MaxPasses = 1
  None = None
SPECIFICATION Spec
SYMMETRY Same
CHECK_DEADLOCK FALSE
INVARIANTS NeverForgotten ExplainedAndGrounded
