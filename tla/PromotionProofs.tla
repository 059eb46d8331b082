-------------------------- MODULE PromotionProofs ---------------------------
(***************************************************************************)
(* Proofs about Promotion, for any number of requests and sessions and any *)
(* level a capability is seeded with.                                      *)
(***************************************************************************)
EXTENDS Promotion, TLAPS

\* What a session remembers from its reads: a proposal is one step above the
\* level it saw and below the cap, and so is the target of a validated approval.
SessionMemory ==
  \A s \in Sessions :
    /\ pc[s] = "proposing" => ValidTarget(seen[s], seen[s] + 1)
    /\ pc[s] = "validated" => ValidTarget(seen[s], target[req[s]])

\* A session that decides a request works on a row that has been inserted, so
\* its target does not change any more.
TargetsSettled ==
  \A s \in Sessions : pc[s] \in {"approving", "validated", "rejecting"} => status[req[s]] # "absent"

\* A row being inserted is nobody else's.
ProposalsFresh ==
  \A s, o \in Sessions :
    pc[s] = "proposing" =>
      /\ status[req[s]] = "absent"
      /\ pc[o] = "proposing" /\ o # s => req[o] # req[s]

IInv ==
  /\ TypeOK
  /\ SessionMemory
  /\ TargetsSettled
  /\ ProposalsFresh
  /\ CappedNeverL5
  /\ EventsExplainLevel

LEMMA InitIInv == Init => IInv
<1> SUFFICES ASSUME Init PROVE IInv
  OBVIOUS
<1> USE PromotionAssumption DEF Init
<1>1. (CHOOSE r \in Requests : TRUE) \in Requests
  OBVIOUS
<1>2. TypeOK
  <2>1. events \in Seq([req : Requests, from : Levels, to : Levels])
    OBVIOUS
  <2>2. req \in [Sessions -> Requests]
    BY <1>1, Zenon
  <2>3. InitLevel \in Levels
    OBVIOUS
  <2>4. overlap \in BOOLEAN
    OBVIOUS
  <2> QED BY <2>1, <2>2, <2>3, <2>4 DEF TypeOK, PCs
<1>3. SessionMemory /\ TargetsSettled /\ ProposalsFresh
  BY DEF SessionMemory, TargetsSettled, ProposalsFresh
<1>4. CappedNeverL5 /\ EventsExplainLevel
  BY DEF CappedNeverL5, EventsExplainLevel, Levels
<1> QED BY <1>2, <1>3, <1>4 DEF IInv

\* Steps that only move a session to a new place.
LEMMA TableUnchanged ==
  ASSUME IInv, UNCHANGED table
  PROVE  CappedNeverL5' /\ EventsExplainLevel'
BY DEF IInv, table, CappedNeverL5, EventsExplainLevel

LEMMA NextIInv == IInv /\ [Next]_vars => IInv'
<1> SUFFICES ASSUME IInv, [Next]_vars PROVE IInv'
  OBVIOUS
<1> USE PromotionAssumption
<1>1. ASSUME NEW s \in Sessions, ProposeRead(s) PROVE IInv'
  <2> USE <1>1 DEF ProposeRead, Goto, table
  <2>1. PICK r \in Requests, t \in Levels :
          /\ status[r] = "absent" /\ \A o \in Sessions : pc[o] = "proposing" => req[o] # r
          /\ ValidTarget(level, t)
          /\ Goto(s, "proposing", r, level)
    OBVIOUS
  <2>2. t = level + 1
    BY <2>1 DEF ValidTarget, IInv, TypeOK, Levels
  <2>3. TypeOK'
    BY <2>1 DEF IInv, TypeOK, PCs
  <2>4. SessionMemory'
    BY <2>1, <2>2 DEF IInv, TypeOK, SessionMemory
  <2>5. TargetsSettled' /\ ProposalsFresh'
    BY <2>1 DEF IInv, TypeOK, TargetsSettled, ProposalsFresh
  <2> QED BY <2>3, <2>4, <2>5, TableUnchanged DEF IInv
<1>2. ASSUME NEW s \in Sessions, ProposeCommit(s) PROVE IInv'
  <2> USE <1>2 DEF ProposeCommit, Goto
  <2>1. seen[s] + 1 \in Levels /\ req[s] \in Requests /\ status[req[s]] = "absent"
    BY DEF IInv, TypeOK, SessionMemory, ValidTarget, ProposalsFresh
  <2>2. TypeOK'
    BY <2>1 DEF IInv, TypeOK, PCs
  <2>3. SessionMemory'
    BY <2>1 DEF IInv, TypeOK, SessionMemory, TargetsSettled
  <2>4. TargetsSettled' /\ ProposalsFresh'
    BY <2>1 DEF IInv, TypeOK, TargetsSettled, ProposalsFresh
  <2>5. CappedNeverL5' /\ EventsExplainLevel'
    BY DEF IInv, CappedNeverL5, EventsExplainLevel
  <2> QED BY <2>2, <2>3, <2>4, <2>5 DEF IInv
<1>3. ASSUME NEW s \in Sessions, ApproveReadRequest(s) \/ RejectRead(s) PROVE IInv'
  <2>1. PICK r \in Requests, p \in {"approving", "rejecting"} :
          Decidable(r) /\ Goto(s, p, r, seen[s])
    BY <1>3 DEF ApproveReadRequest, RejectRead
  <2>2. UNCHANGED table
    BY <1>3 DEF ApproveReadRequest, RejectRead
  <2>3. TypeOK'
    BY <2>1, <2>2 DEF Goto, table, IInv, TypeOK, PCs
  <2>4. SessionMemory'
    BY <2>1, <2>2 DEF Goto, table, IInv, TypeOK, SessionMemory
  <2>5. TargetsSettled' /\ ProposalsFresh'
    BY <2>1, <2>2 DEF Decidable, Goto, table, IInv, TypeOK, TargetsSettled, ProposalsFresh
  <2> QED BY <2>2, <2>3, <2>4, <2>5, TableUnchanged DEF IInv
<1>4. ASSUME NEW s \in Sessions, ApproveReadCapability(s) PROVE IInv'
  <2> USE <1>4 DEF ApproveReadCapability, Goto, table
  <2>1. TypeOK'
    BY DEF IInv, TypeOK, PCs
  <2>2. SessionMemory'
    BY DEF IInv, TypeOK, SessionMemory
  <2>3. TargetsSettled' /\ ProposalsFresh'
    BY DEF IInv, TypeOK, TargetsSettled, ProposalsFresh
  <2> QED BY <2>1, <2>2, <2>3, TableUnchanged DEF IInv
<1>5. ASSUME NEW s \in Sessions, ApproveCommit(s) PROVE IInv'
  <2> USE <1>5 DEF ApproveCommit, Goto
  <2>1. /\ req[s] \in Requests /\ target[req[s]] \in Levels /\ seen[s] \in Levels
        /\ ValidTarget(seen[s], target[req[s]])
    BY DEF IInv, TypeOK, SessionMemory
  <2>2. LevelEvent(s) \in [req : Requests, from : Levels, to : Levels]
    BY <2>1 DEF LevelEvent
  <2>3. /\ events' \in Seq([req : Requests, from : Levels, to : Levels])
        /\ Len(events') = Len(events) + 1
        /\ events'[Len(events')] = LevelEvent(s)
        /\ \A i \in 1..Len(events) : events'[i] = events[i]
    BY <2>2 DEF IInv, TypeOK
  <2>4. TypeOK'
    BY <2>1, <2>3 DEF IInv, TypeOK, PCs
  <2>5. SessionMemory'
    BY DEF IInv, TypeOK, SessionMemory
  <2>6. TargetsSettled' /\ ProposalsFresh'
    BY <2>1 DEF IInv, TypeOK, TargetsSettled, ProposalsFresh
  <2>7. CappedNeverL5'
    BY <2>1 DEF ValidTarget, CappedNeverL5
  <2>8. EventsExplainLevel'
    <3>1. events' # <<>> /\ level' = events'[Len(events')].to
      <4>1. Len(events') # 0
        BY <2>3 DEF IInv, TypeOK
      <4>2. events'[Len(events')].to = target[req[s]]
        BY <2>3 DEF LevelEvent
      <4> QED BY <4>1, <4>2
    <3>2. \A i \in 1..Len(events') : events'[i].to = events'[i].from + 1
      <4> SUFFICES ASSUME NEW i \in 1..Len(events')
                   PROVE  events'[i].to = events'[i].from + 1
        OBVIOUS
      <4>1. CASE i \in 1..Len(events)
        BY <2>3, <4>1 DEF IInv, EventsExplainLevel
      <4>2. CASE i = Len(events')
        BY <2>1, <2>3, <4>2 DEF LevelEvent, ValidTarget, Levels
      <4>3. Len(events) \in Nat
        BY DEF IInv, TypeOK
      <4> QED BY <2>3, <4>1, <4>2, <4>3
    <3> QED BY <3>1, <3>2 DEF EventsExplainLevel
  <2> QED BY <2>4, <2>5, <2>6, <2>7, <2>8 DEF IInv
<1>6. ASSUME NEW s \in Sessions, RejectCommit(s) PROVE IInv'
  <2> USE <1>6 DEF RejectCommit, Goto
  <2>1. TypeOK'
    BY DEF IInv, TypeOK, PCs
  <2>2. SessionMemory'
    BY DEF IInv, TypeOK, SessionMemory
  <2>3. TargetsSettled' /\ ProposalsFresh'
    BY DEF IInv, TypeOK, TargetsSettled, ProposalsFresh
  <2>4. CappedNeverL5' /\ EventsExplainLevel'
    BY DEF IInv, CappedNeverL5, EventsExplainLevel
  <2> QED BY <2>1, <2>2, <2>3, <2>4 DEF IInv
<1>7. ASSUME NEW s \in Sessions, Abandon(s) PROVE IInv'
  <2> USE <1>7 DEF Abandon, Goto, table
  <2>1. TypeOK'
    BY DEF IInv, TypeOK, PCs
  <2>2. SessionMemory' /\ TargetsSettled' /\ ProposalsFresh'
    BY DEF IInv, TypeOK, SessionMemory, TargetsSettled, ProposalsFresh
  <2> QED BY <2>1, <2>2, TableUnchanged DEF IInv
<1>8. CASE UNCHANGED vars
  BY <1>8 DEF vars, IInv, TypeOK, SessionMemory, TargetsSettled, ProposalsFresh,
     CappedNeverL5, EventsExplainLevel
<1> QED BY <1>1, <1>2, <1>3, <1>4, <1>5, <1>6, <1>7, <1>8 DEF Next

LEMMA Inductive == Spec => []IInv
BY InitIInv, NextIInv, PTL DEF Spec

\* A capped capability never reaches L5, for any interleaving of any number of
\* proposals, approvals and rejections.
THEOREM CapHolds == Spec => []CappedNeverL5
BY Inductive, PTL DEF IInv

\* The level is always the one the last committed event names, and every event
\* is a rise by one.
THEOREM AuditTrailExplainsLevel == Spec => []EventsExplainLevel
BY Inductive, PTL DEF IInv

-----------------------------------------------------------------------------
(* As long as HTTP requests do not overlap.                                *)

\* One HTTP request is in flight, and nothing has changed since its reads.
Undisturbed ==
  /\ \A s, o \in Sessions : pc[s] # "idle" /\ pc[o] # "idle" => s = o
  /\ \A s \in Sessions :
       /\ pc[s] \in {"proposing", "validated"} => seen[s] = level
       /\ pc[s] \in {"approving", "validated", "rejecting"} => status[req[s]] = "pending"

LEMMA ReadsStayCurrent ==
  IInv /\ (~overlap => Undisturbed) /\ [Next]_vars => (~overlap => Undisturbed)'
<1> SUFFICES ASSUME IInv, ~overlap => Undisturbed, [Next]_vars, ~overlap' PROVE Undisturbed'
  OBVIOUS
<1>1. ASSUME NEW s \in Sessions, Next, NEW w, NEW r, NEW l, Goto(s, w, r, l)
      PROVE  ~overlap /\ Undisturbed /\ \A o \in Sessions \ {s} : pc[o] = "idle"
  BY <1>1 DEF Goto, IInv, TypeOK
<1>2. ASSUME NEW s \in Sessions, Next, ProposeRead(s) \/ ApproveReadCapability(s) \/ Abandon(s)
      PROVE  Undisturbed'
  <2>1. \E w, r, l : Goto(s, w, r, l)
    BY <1>2 DEF ProposeRead, ApproveReadCapability, Abandon
  <2>2. ~overlap /\ Undisturbed /\ \A o \in Sessions \ {s} : pc[o] = "idle"
    BY <1>1, <1>2, <2>1
  <2> QED BY <1>2, <2>2
      DEF ProposeRead, ApproveReadCapability, Abandon, Goto, table, IInv, TypeOK, Undisturbed
<1>3. ASSUME NEW s \in Sessions, Next, ApproveReadRequest(s) \/ RejectRead(s)
      PROVE  Undisturbed'
  <2>1. \E w, r, l : Goto(s, w, r, l)
    BY <1>3 DEF ApproveReadRequest, RejectRead
  <2>2. ~overlap /\ Undisturbed /\ \A o \in Sessions \ {s} : pc[o] = "idle"
    BY <1>1, <1>3, <2>1
  <2> QED BY <1>3, <2>2
      DEF ApproveReadRequest, RejectRead, Decidable, Goto, table, IInv, TypeOK, Undisturbed
<1>4. ASSUME NEW s \in Sessions, Next, ProposeCommit(s) \/ ApproveCommit(s) \/ RejectCommit(s)
      PROVE  Undisturbed'
  <2>1. \E w, r, l : Goto(s, w, r, l)
    BY <1>4 DEF ProposeCommit, ApproveCommit, RejectCommit
  <2>2. ~overlap /\ Undisturbed /\ \A o \in Sessions \ {s} : pc[o] = "idle"
    BY <1>1, <1>4, <2>1
  <2>3. \A o \in Sessions : pc'[o] = "idle"
    BY <1>4, <2>2 DEF ProposeCommit, ApproveCommit, RejectCommit, Goto, IInv, TypeOK
  <2> QED BY <2>3 DEF Undisturbed
<1>5. CASE UNCHANGED vars
  BY <1>5 DEF vars, Undisturbed
<1> QED BY <1>2, <1>3, <1>4, <1>5 DEF Next

LEMMA LadderStep ==
  ASSUME IInv, ~overlap => Undisturbed, [Next]_vars
  PROVE  [~overlap => Ladder!Next]_(Ladder!vars)
<1> SUFFICES ASSUME ~overlap PROVE [Ladder!Next]_(Ladder!vars)
  OBVIOUS
<1>1. ASSUME NEW s \in Sessions, ProposeCommit(s) PROVE Ladder!Next
  <2>1. /\ req[s] \in Requests /\ status[req[s]] = "absent"
        /\ seen[s] = level /\ ValidTarget(level, level + 1)
    BY <1>1 DEF ProposeCommit, IInv, TypeOK, ProposalsFresh, SessionMemory, Undisturbed
  <2>2. Ladder!Allowed(level + 1)
    BY <2>1, PromotionAssumption DEF ValidTarget, Levels, Ladder!Allowed, Ladder!TopLevel, IInv, TypeOK
  <2>3. Ladder!Propose(req[s])
    BY <1>1, <2>1, <2>2 DEF ProposeCommit, Ladder!Propose
  <2> QED BY <2>1, <2>3 DEF Ladder!Next
<1>2. ASSUME NEW s \in Sessions, ApproveCommit(s) PROVE Ladder!Next
  <2>1. /\ req[s] \in Requests /\ status[req[s]] = "pending"
        /\ seen[s] = level /\ target[req[s]] = level + 1
    BY <1>2 DEF ApproveCommit, IInv, TypeOK, SessionMemory, ValidTarget, Levels, Undisturbed
  <2>2. Ladder!Approve(req[s])
    BY <1>2, <2>1 DEF ApproveCommit, LevelEvent, Ladder!Approve
  <2> QED BY <2>1, <2>2 DEF Ladder!Next
<1>3. ASSUME NEW s \in Sessions, RejectCommit(s) PROVE Ladder!Next
  <2>1. req[s] \in Requests /\ status[req[s]] = "pending"
    BY <1>3 DEF RejectCommit, IInv, TypeOK, Undisturbed
  <2>2. Ladder!Reject(req[s])
    BY <1>3, <2>1 DEF RejectCommit, Ladder!Reject
  <2> QED BY <2>1, <2>2 DEF Ladder!Next
<1>4. ASSUME NEW s \in Sessions,
             \/ ProposeRead(s) \/ ApproveReadRequest(s) \/ ApproveReadCapability(s)
             \/ RejectRead(s) \/ Abandon(s)
      PROVE  UNCHANGED Ladder!vars
  BY <1>4 DEF ProposeRead, ApproveReadRequest, ApproveReadCapability, RejectRead, Abandon,
     table, Ladder!vars
<1>5. CASE UNCHANGED vars
  BY <1>5 DEF vars, Ladder!vars
<1> QED BY <1>1, <1>2, <1>3, <1>4, <1>5 DEF Next

\* As long as HTTP requests do not overlap the service keeps its promise:
\* decided once, exactly one level, one event each.
THEOREM ServiceClimbsLadder == Spec => LadderSpec
<1>1. Init => Ladder!Init /\ Undisturbed
  BY DEF Init, Ladder!Init, Undisturbed
<1>2. IInv /\ (~overlap => Undisturbed) /\ [Next]_vars => (~overlap => Undisturbed)'
  BY ReadsStayCurrent
<1>3. IInv /\ (~overlap => Undisturbed) /\ [Next]_vars => [~overlap => Ladder!Next]_(Ladder!vars)
  BY LadderStep
<1> QED BY <1>1, <1>2, <1>3, Inductive, PTL DEF Spec, LadderSpec
=============================================================================
