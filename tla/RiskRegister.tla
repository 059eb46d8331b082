---------------------------- MODULE RiskRegister ----------------------------
(***************************************************************************)
(* What the risk module promises the people who read GET /risks: the       *)
(* register of findings, without jobs, workers or transactions.            *)
(*                                                                         *)
(*   - at most one finding of a condition is open at a time;               *)
(*   - a dismissed finding is never opened again, and a condition that     *)
(*     recurs is a new finding;                                            *)
(*   - an explanation, once there, stays.                                  *)
(***************************************************************************)
CONSTANTS Findings, CondOf

VARIABLES
  status,  \* "absent", "open" or "dismissed"
  ai       \* "pending", "ready" or "unavailable"

vars == <<status, ai>>

Init ==
  /\ status = [f \in Findings |-> "absent"]
  /\ ai = [f \in Findings |-> "pending"]

\* A detection opens a set of findings, at most one for each condition, and
\* only for conditions that have none open.
Detect(S) ==
  /\ \A f \in S, g \in Findings :
       CondOf[f] = CondOf[g] => status[g] # "open" /\ (g \in S => f = g)
  /\ \A f \in S : status[f] = "absent"
  /\ status' = [f \in Findings |-> IF f \in S THEN "open" ELSE status[f]]
  /\ UNCHANGED ai

\* A dismissed finding may still be explained: its job was queued before.
Explain(f) ==
  /\ status[f] # "absent" /\ ai[f] # "ready"
  /\ \E outcome \in {"ready", "unavailable"} : ai' = [ai EXCEPT ![f] = outcome]
  /\ UNCHANGED status

Dismiss(f) ==
  /\ status[f] = "open"
  /\ status' = [status EXCEPT ![f] = "dismissed"]
  /\ UNCHANGED ai

Next ==
  \/ \E S \in SUBSET Findings : Detect(S)
  \/ \E f \in Findings : Explain(f) \/ Dismiss(f)

Spec == Init /\ [][Next]_vars
=============================================================================
