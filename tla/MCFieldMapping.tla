--------------------------- MODULE MCFieldMapping ---------------------------
(* Small instances of FieldMapping for TLC. *)
EXTENDS FieldMapping, TLC

CONSTANTS s1, s2, a1, a2, m1, m2, t1, t2

\* Sessions, users, rows and targets are interchangeable (for runs of safety alone).
MCSymmetry == Permutations({s1, s2}) \cup Permutations({a1, a2})
              \cup Permutations({m1, m2}) \cup Permutations({t1, t2})
=============================================================================
