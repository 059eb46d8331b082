--------------------------- MODULE MCRiskPipeline ---------------------------
(* Small instances of RiskPipeline for TLC. *)
EXTENDS RiskPipeline, TLC

CONSTANTS c1, c2, f1, f2, g1, s1, s2

\* One condition with two ids to its name: a duplicate, or a recurrence.
OneCondition  == [f \in {f1, f2} |-> c1]
OneEvidence   == [c \in {c1} |-> {s1}]

\* A second condition.  Unlinked, it rests on a purchase order of its own, s2.
TwoConditions == [f \in {f1, f2, g1} |-> IF f = g1 THEN c2 ELSE c1]
OwnEvidence   == [c \in {c1, c2} |-> IF c = c1 THEN {s1} ELSE {s2}]

\* The workers are alike, and so are the findings of one condition.
Same == Permutations(Workers) \cup Permutations(Findings)
=============================================================================
