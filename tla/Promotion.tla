----------------------------- MODULE Promotion ------------------------------
(***************************************************************************)
(* Capability promotion (app/lorm/capability_service.py) under concurrent  *)
(* HTTP requests (app/api/routers/capabilities.py).                        *)
(*                                                                         *)
(* A session is one HTTP request being served with its own database        *)
(* session at READ COMMITTED.  Every SELECT is a step that copies what is  *)
(* committed at that moment into the session; the writes become visible    *)
(* together in the commit step.  The rows carry no version column and are  *)
(* not selected FOR UPDATE, so a commit overwrites whatever is there.      *)
(*                                                                         *)
(* One capability is modelled: a request names exactly one, and no         *)
(* operation touches two.                                                  *)
(***************************************************************************)
EXTENDS Integers, Sequences

CONSTANTS
  Requests,   \* ids of promotion requests (a bound)
  Sessions,   \* HTTP requests in flight at the same time
  InitLevel,  \* the level seed_capabilities gave the capability
  L5Allowed   \* capability.l5_allowed: no code changes it after the seed

VARIABLES
  level,   \* capability.level, 0 for L0 ... 5 for L5
  status,  \* promotion_request.status, "absent" before the insert
  target,  \* promotion_request.proposed_to_level
  events,  \* the capability_level_event rows in commit order
  pc,      \* pc[s]: where session s is
  req,     \* req[s]: the promotion request s works on
  seen,    \* seen[s]: cap.level as s read it
  overlap  \* history: two HTTP requests have been in flight at the same time

table   == <<level, status, target, events>>
session == <<pc, req, seen>>
vars    == <<level, status, target, events, pc, req, seen, overlap>>

Levels == 0..5
PCs    == {"idle", "proposing", "approving", "validated", "rejecting"}

ASSUME PromotionAssumption ==
  /\ InitLevel \in Levels
  /\ L5Allowed \in BOOLEAN
  /\ InitLevel = 5 => L5Allowed
  /\ Requests # {}

\* Mutant of ValidTarget: the l5_allowed check is dropped.
ValidTarget_NoCap(from, to) == to \in Levels /\ to - from = 1

\* _validate_target does not raise.
ValidTarget(from, to) ==
  /\ to \in Levels
  /\ to - from = 1
  /\ to = 5 => L5Allowed

Init ==
  /\ level = InitLevel
  /\ status = [r \in Requests |-> "absent"]
  /\ target = [r \in Requests |-> InitLevel]
  /\ events = <<>>
  /\ pc = [s \in Sessions |-> "idle"]
  /\ req = [s \in Sessions |-> CHOOSE r \in Requests : TRUE]
  /\ seen = [s \in Sessions |-> InitLevel]
  /\ overlap = FALSE

Goto(s, where, r, l) ==
  /\ pc' = [pc EXCEPT ![s] = where]
  /\ req' = [req EXCEPT ![s] = r]
  /\ seen' = [seen EXCEPT ![s] = l]
  /\ overlap' = (overlap \/ \E o \in Sessions \ {s} : pc[o] # "idle")

-----------------------------------------------------------------------------
(* POST /capabilities/{key}/promotion-requests                             *)

\* The level is read and the proposal validated; otherwise the request ends
\* with an error and the session never leaves idle.
ProposeRead(s) ==
  /\ pc[s] = "idle"
  /\ \E r \in Requests, t \in Levels :
       /\ status[r] = "absent" /\ \A o \in Sessions : pc[o] = "proposing" => req[o] # r
       /\ ValidTarget(level, t)
       /\ Goto(s, "proposing", r, level)
  /\ UNCHANGED table

ProposeCommit(s) ==
  /\ pc[s] = "proposing"
  /\ status' = [status EXCEPT ![req[s]] = "pending"]
  /\ target' = [target EXCEPT ![req[s]] = seen[s] + 1]
  /\ Goto(s, "idle", req[s], seen[s])
  /\ UNCHANGED <<level, events>>

-----------------------------------------------------------------------------
(* POST /promotion-requests/{id}/approve                                   *)

\* Mutant of Decidable: the already-decided check is dropped.
Decidable_Always(r) == status[r] # "absent"

\* get_promotion_request finds the row and it is pending (else 404, 409).
Decidable(r) == status[r] = "pending"

ApproveReadRequest(s) ==
  /\ pc[s] = "idle"
  /\ \E r \in Requests :
       /\ Decidable(r)
       /\ Goto(s, "approving", r, seen[s])
  /\ UNCHANGED table

\* get_capability_by_id is a second SELECT; the target is validated again.
ApproveReadCapability(s) ==
  /\ pc[s] = "approving"
  /\ ValidTarget(level, target[req[s]])
  /\ Goto(s, "validated", req[s], level)
  /\ UNCHANGED table

\* Mutant of the event an approval writes: from_level taken after the assignment.
LevelEvent_FromNew(s) ==
  [req |-> req[s], from |-> target[req[s]], to |-> target[req[s]]]

LevelEvent(s) == [req |-> req[s], from |-> seen[s], to |-> target[req[s]]]

\* flush and commit: both rows are updated and the event inserted.
ApproveCommit(s) ==
  /\ pc[s] = "validated"
  /\ level' = target[req[s]]
  /\ status' = [status EXCEPT ![req[s]] = "approved"]
  /\ events' = Append(events, LevelEvent(s))
  /\ Goto(s, "idle", req[s], seen[s])
  /\ UNCHANGED target

-----------------------------------------------------------------------------
(* POST /promotion-requests/{id}/reject                                    *)

RejectRead(s) ==
  /\ pc[s] = "idle"
  /\ \E r \in Requests :
       /\ Decidable(r)
       /\ Goto(s, "rejecting", r, seen[s])
  /\ UNCHANGED table

RejectCommit(s) ==
  /\ pc[s] = "rejecting"
  /\ status' = [status EXCEPT ![req[s]] = "rejected"]
  /\ Goto(s, "idle", req[s], seen[s])
  /\ UNCHANGED <<level, target, events>>

\* The request ends without a commit: the re-validation fails, the client goes
\* away, the connection is lost.  Everything it wrote is rolled back.
Abandon(s) ==
  /\ pc[s] # "idle"
  /\ Goto(s, "idle", req[s], seen[s])
  /\ UNCHANGED table

Next ==
  \E s \in Sessions :
    \/ ProposeRead(s) \/ ProposeCommit(s)
    \/ ApproveReadRequest(s) \/ ApproveReadCapability(s) \/ ApproveCommit(s)
    \/ RejectRead(s) \/ RejectCommit(s)
    \/ Abandon(s)

Spec == Init /\ [][Next]_vars

-----------------------------------------------------------------------------
(* Properties.                                                             *)

TypeOK ==
  /\ level \in Levels
  /\ status \in [Requests -> {"absent", "pending", "approved", "rejected"}]
  /\ target \in [Requests -> Levels]
  /\ events \in Seq([req : Requests, from : Levels, to : Levels])
  /\ pc \in [Sessions -> PCs]
  /\ req \in [Sessions -> Requests]
  /\ seen \in [Sessions -> Levels]
  /\ overlap \in BOOLEAN

\* A capability with l5_allowed = false never reaches L5, however approvals,
\* proposals and rejections interleave (_validate_target, both calls).
CappedNeverL5 == ~L5Allowed => level # 5

\* The audit trail explains the level: it is where the last committed event
\* says it went, and every event records a rise of exactly one.
EventsExplainLevel ==
  /\ level = IF events = <<>> THEN InitLevel ELSE events[Len(events)].to
  /\ \A i \in 1..Len(events) : events[i].to = events[i].from + 1

\* As long as HTTP requests do not overlap, promotion requests climb the
\* ladder: the service implements its promise (capability_service.py:6-8).
Ladder == INSTANCE PromotionLadder
LadderSpec == Ladder!Init /\ [][~overlap => Ladder!Next]_(Ladder!vars)

(* What the documentation promises and concurrent requests break.          *)

\* capability_service.py:6 "exactly one level at a time": every committed
\* change of the level is a rise by one.
ExactlyOneLevel == [][level' = level \/ level' = level + 1]_vars

\* test_double_approve_conflicts: a decided request conflicts with a second
\* decision; it keeps its status and gets no second event.
DecidedOnce ==
  /\ \A i, j \in 1..Len(events) : events[i].req = events[j].req => i = j
  /\ \A i \in 1..Len(events) : status[events[i].req] = "approved"
=============================================================================
