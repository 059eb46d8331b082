-------------------------- MODULE PromotionLadder ---------------------------
(***************************************************************************)
(* What the promotion service promises about one capability: a request is  *)
(* decided once, an approval raises the level by exactly one and leaves    *)
(* one event, and the events form an unbroken ladder from the level the    *)
(* capability was seeded with.  Promotion.tla implements this as long as   *)
(* HTTP requests are served one after the other.                           *)
(***************************************************************************)
EXTENDS Integers, Sequences

CONSTANTS
  Requests,   \* ids of promotion requests
  InitLevel,  \* the level the capability was seeded with
  L5Allowed   \* capability.l5_allowed

VARIABLES
  level,   \* the capability's level
  status,  \* status[r] of each request, "absent" before it is created
  target,  \* proposed_to_level of each request
  events   \* the capability's level events, oldest first

vars == <<level, status, target, events>>

TopLevel == 5
Allowed(l) == l <= IF L5Allowed THEN TopLevel ELSE TopLevel - 1

Init ==
  /\ level = InitLevel
  /\ status = [r \in Requests |-> "absent"]
  /\ target = [r \in Requests |-> InitLevel]
  /\ events = <<>>

Propose(r) ==
  /\ status[r] = "absent" /\ Allowed(level + 1)
  /\ status' = [status EXCEPT ![r] = "pending"]
  /\ target' = [target EXCEPT ![r] = level + 1]
  /\ UNCHANGED <<level, events>>

Approve(r) ==
  /\ status[r] = "pending" /\ target[r] = level + 1
  /\ level' = level + 1
  /\ status' = [status EXCEPT ![r] = "approved"]
  /\ events' = Append(events, [req |-> r, from |-> level, to |-> level + 1])
  /\ UNCHANGED target

Reject(r) ==
  /\ status[r] = "pending"
  /\ status' = [status EXCEPT ![r] = "rejected"]
  /\ UNCHANGED <<level, target, events>>

Next == \E r \in Requests : Propose(r) \/ Approve(r) \/ Reject(r)

Spec == Init /\ [][Next]_vars
=============================================================================
