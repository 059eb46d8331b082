---------------------------- MODULE MCPromotion -----------------------------
(* Small instances of Promotion for TLC. *)
EXTENDS Promotion, TLC

MCSymmetry == Permutations(Sessions)
=============================================================================
