-------------------------- MODULE MCObservationLoop -------------------------
(* A small instance of ObservationLoop for TLC. *)
EXTENDS ObservationLoop, TLC

CONSTANTS i1, s1, p1  \* an item, its stock and its price

MCItemKey == [k \in Keys |-> i1]
=============================================================================
