---------------------------- MODULE MCRiskRules -----------------------------
(* A small instance of RiskRules for TLC. *)
EXTENDS RiskRules, TLC

MCQuantities == {-1, 0, 2, 7}

MCUsageRows == [quantity : {2}, span : {1, 3}] \cup {[quantity |-> 0, span |-> 1],
                 [quantity |-> -2, span |-> 1], [quantity |-> 45, span |-> 0]}

Open(t)    == [status |-> "open", expected |-> t, received |-> Null]
Taken(e, r) == [status |-> "received", expected |-> e, received |-> r]

MCOrderRows == {Open(t) : t \in {2, 5, 9}} \cup {Open(Null)}
               \cup {Taken(1, 7), Taken(1, 8), Taken(0, 13), Taken(2, 1)}
MCPriceRows == [value : {0, 20, 23}, from : {Null, 1, 2}]
=============================================================================
