-------------------------- MODULE MCObservability ---------------------------
(* Small instances of Observability for TLC. *)
EXTENDS Observability, TLC

CONSTANTS s1, s2, g1, g2, g3, g4

\* Sessions and gap ids are interchangeable (for runs of safety alone).
MCSymmetry == Permutations({s1, s2}) \cup Permutations({g1, g2, g3, g4})
=============================================================================
