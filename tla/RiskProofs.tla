----------------------------- MODULE RiskProofs -----------------------------
(***************************************************************************)
(* Theorems about detection, for every value of the constants: about       *)
(* RiskPipeline first, about the arithmetic of RiskRules at the end.       *)
(***************************************************************************)
EXTENDS RiskPipeline, RiskRules, FiniteSetTheorems, WellFoundedInduction, TLAPS

\* What changes the data and the waiting passes only, and adds no evidence.
DataChanges ==
  \/ \E c \in Conditions : ConditionChanges(c)
  \/ \E s \in Signals : OrderOverwritten(s)
  \/ PassRequested \/ PassLost

-----------------------------------------------------------------------------
(* Counting jobs.                                                          *)

HasJob(f) == queued[f] > 0 \/ stuck[f] > 0 \/ Explainers(f) # {}

\* The count of _maybe_enqueue_explanation is zero exactly when there is no row.
LEMMA LiveJobsCount ==
  ASSUME TypeOK, NEW f \in Findings
  PROVE  LiveJobs(f) \in Nat /\ (LiveJobs(f) > 0 <=> HasJob(f))
<1>1. IsFiniteSet(Explainers(f))
  BY PipelineAssumption, FS_Subset DEF Explainers
<1>2. /\ Cardinality(Explainers(f)) \in Nat
      /\ Cardinality(Explainers(f)) = 0 <=> Explainers(f) = {}
  BY <1>1, FS_CardinalityType, FS_EmptySet
<1>3. queued[f] \in Nat /\ stuck[f] \in Nat
  BY DEF TypeOK
<1> QED BY <1>2, <1>3 DEF LiveJobs, HasJob

-----------------------------------------------------------------------------
(* Type correctness.                                                       *)

LEMMA TypeStep == TypeOK /\ [Next]_vars => TypeOK'
<1> SUFFICES ASSUME TypeOK, [Next]_vars PROVE TypeOK'
  OBVIOUS
<1> USE DEF TypeOK, PCs, AIStatuses, pipeline, rows, locals, buffer
<1>1. CASE DataChanges
  <2>1. CASE PassLost
    BY <2>1 DEF PassLost
  <2>2. CASE PassRequested
    BY <2>2 DEF PassRequested
  <2>3. ASSUME NEW c \in Conditions, ConditionChanges(c) PROVE TypeOK'
    BY <2>3 DEF ConditionChanges
  <2>4. ASSUME NEW s \in Signals, OrderOverwritten(s) PROVE TypeOK'
    BY <2>4 DEF OrderOverwritten
  <2> QED BY <1>1, <2>1, <2>2, <2>3, <2>4 DEF DataChanges
<1>2. ASSUME NEW s \in Signals, SignalObserved(s) PROVE TypeOK'
  BY <1>2 DEF SignalObserved
<1>3. ASSUME NEW r \in Requests, DismissRead(r) PROVE TypeOK'
  BY <1>3 DEF DismissRead
<1>4. ASSUME NEW r \in Requests, DismissCommit(r) PROVE TypeOK'
  BY <1>4 DEF DismissCommit
<1>5. ASSUME NEW w \in Workers, StartPass(w) PROVE TypeOK'
  BY <1>5 DEF StartPass
<1>6. ASSUME NEW w \in Workers, NEW f \in Findings, StartExplain(w, f) PROVE TypeOK'
  <2>1. Evidence(f) \subseteq Signals
    BY PipelineAssumption DEF Evidence, Linked
  <2>2. queued[f] - 1 \in Nat
    BY <1>6 DEF StartExplain
  <2> QED BY <1>6, <2>1, <2>2 DEF StartExplain
<1>7. ASSUME NEW w \in Workers, Find(w) PROVE TypeOK'
  <2>1. PICK c \in todo[w] : FindExisting(w, c) \/ FindNothing(w, c)
    BY <1>7 DEF Find
  <2>2. CASE FindExisting(w, c)
    BY <1>7, <2>2 DEF Find, FindExisting, Known, Open
  <2>3. CASE FindNothing(w, c)
    BY <1>7, <2>3 DEF Find, FindNothing, Free
  <2> QED BY <2>1, <2>2, <2>3
<1>8. ASSUME NEW w \in Workers, FindRaises(w) PROVE TypeOK'
  BY <1>8 DEF FindRaises, EndTransaction
<1>9. ASSUME NEW w \in Workers, Apply(w) PROVE TypeOK'
  <2>1. NewEvidence(at[w]) \subseteq Signals
    BY PipelineAssumption DEF NewEvidence
  <2>2. at[w] \in Findings
    BY <1>9 DEF Apply
  <2> QED BY <1>9, <2>1, <2>2 DEF Apply
<1>10. ASSUME NEW w \in Workers, CommitPass(w) PROVE TypeOK'
  BY <1>10 DEF CommitPass, EndTransaction
<1>11. ASSUME NEW w \in Workers, Explained(w) PROVE TypeOK'
  BY <1>11 DEF Explained, Kept, SetAI, EndExplain, EndTransaction
<1>12. ASSUME NEW w \in Workers, Unavailable(w) PROVE TypeOK'
  BY <1>12 DEF Unavailable, GivenUp, SetAI, EndExplain, EndTransaction
<1>13. ASSUME NEW w \in Workers, Interrupted(w) PROVE TypeOK'
  BY <1>13 DEF Interrupted, EndTransaction
<1>14. ASSUME NEW f \in Findings, BatchLost(f) PROVE TypeOK'
  BY <1>14 DEF BatchLost
<1>15. CASE UNCHANGED vars
  BY <1>15 DEF vars
<1> QED
  BY <1>1, <1>2, <1>3, <1>4, <1>5, <1>6, <1>7, <1>8, <1>9, <1>10, <1>11, <1>12, <1>13,
     <1>14, <1>15 DEF Next, Environment, Work, Handler, Faults, DataChanges

\* The columns and the local state of every worker keep their types.
THEOREM TypeCorrect == Spec => []TypeOK
<1>1. Init => TypeOK
  BY DEF Init, TypeOK, PCs, AIStatuses
<1> QED BY <1>1, TypeStep, PTL DEF Spec

-----------------------------------------------------------------------------
(* The inductive invariant.                                                *)

\* A row that is not there yet has no jobs and no explanation under way.
AbsentIsUntouched ==
  \A f \in Findings : status[f] = "absent" => ai[f] = "pending" /\ ~HasJob(f)

\* Uncommitted findings are invisible and belong to one pass.
FoundIsPrivate ==
  \A w \in Workers : \A f \in found[w] :
    /\ status[f] = "absent"
    /\ \A v \in Workers : f \in found[v] => v = w

\* What a pass has inserted it has asked an explanation for, or is about to.
FoundIsAskedFor ==
  \A w \in Workers : \A f \in found[w] :
    f \in newJobs[w] \/ (pc[w] = "applying" /\ at[w] = f /\ read[w] = "pending")

\* A pass touches findings that exist, or its own.
PassKnowsFinding ==
  \A w \in Workers :
    /\ pc[w] = "applying" => status[at[w]] # "absent" \/ at[w] \in found[w]
    /\ \A f \in newJobs[w] : status[f] # "absent" \/ f \in found[w]

\* What an explanation job has loaded: a finding that exists, an ai_status that
\* may be stale but never goes back to pending, and what has been
\* evidence at some time.
ExplainerKnows ==
  \A w \in Workers : pc[w] = "explaining" =>
    /\ status[at[w]] # "absent"
    /\ read[w] # "pending" => ai[at[w]] # "pending"
    /\ evidence[w] \subseteq Grounds(at[w])

EverObserved == observed \subseteq ever

DismissedExists == \A r \in Requests : dismissing[r] # None => status[dismissing[r]] # "absent"

NobodyForgotten ==
  \A f \in Findings : status[f] # "absent" /\ ai[f] = "pending" => HasJob(f)

IInv ==
  /\ TypeOK
  /\ AbsentIsUntouched
  /\ FoundIsPrivate
  /\ FoundIsAskedFor
  /\ PassKnowsFinding
  /\ ExplainerKnows
  /\ DismissedExists
  /\ NobodyForgotten
  /\ EverObserved
  /\ ExplainedAndGrounded

-----------------------------------------------------------------------------
LEMMA EverStep == EverObserved /\ [Next]_vars => EverObserved'
<1> SUFFICES ASSUME EverObserved, [Next]_vars PROVE EverObserved'
  OBVIOUS
<1> USE DEF pipeline, rows, locals, buffer
<1>1. ASSUME NEW s \in Signals, SignalObserved(s) PROVE EverObserved'
  BY <1>1 DEF EverObserved, SignalObserved
<1>2. ASSUME DataChanges PROVE EverObserved'
  BY <1>2 DEF EverObserved, DataChanges, ConditionChanges, OrderOverwritten, PassRequested,
     PassLost
<1>3. ASSUME UNCHANGED <<observed, ever>> PROVE EverObserved'
  BY <1>3 DEF EverObserved
<1>4. ASSUME NEW w \in Workers, Work(w) \/ Interrupted(w) PROVE UNCHANGED <<observed, ever>>
  BY <1>4 DEF Work, Handler, StartPass, StartExplain, Find, FindRaises, Apply, CommitPass,
     Explained, Unavailable, EndExplain, Interrupted
<1>5. ASSUME \/ \E r \in Requests : DismissRead(r) \/ DismissCommit(r)
             \/ \E f \in Findings : BatchLost(f)
             \/ UNCHANGED vars
      PROVE  UNCHANGED <<observed, ever>>
  BY <1>5 DEF DismissRead, DismissCommit, BatchLost, vars
<1> QED BY <1>1, <1>2, <1>3, <1>4, <1>5 DEF Next, Environment, Faults, DataChanges

\* Every step keeps the invariant; an action's untouched conjuncts share a step.
LEMMA InvStep == IInv /\ [Next]_vars => IInv'
<1> SUFFICES ASSUME IInv, [Next]_vars PROVE IInv'
  OBVIOUS
<1>0. TypeOK /\ TypeOK' /\ EverObserved /\ EverObserved'
  BY TypeStep, EverStep DEF IInv
<1> USE DEF pipeline, rows, locals, buffer
<1>1. CASE DataChanges
  <2>0. /\ UNCHANGED <<ever, rows, locals, dismissing>>
        /\ observed' \subseteq observed
    BY <1>1 DEF DataChanges, ConditionChanges, OrderOverwritten, PassRequested, PassLost
  <2>1. /\ AbsentIsUntouched'
        /\ FoundIsPrivate'
        /\ FoundIsAskedFor'
        /\ PassKnowsFinding'
        /\ ExplainerKnows'
        /\ DismissedExists'
        /\ NobodyForgotten'
        /\ ExplainedAndGrounded'
    BY <2>0, <1>0 DEF IInv, TypeOK, AbsentIsUntouched, FoundIsPrivate,
       FoundIsAskedFor, PassKnowsFinding, ExplainerKnows, DismissedExists,
       NobodyForgotten, ExplainedAndGrounded, HasJob, Explainers, Grounds, Linked
  <2> QED BY <1>0, <2>1 DEF IInv
<1>2. ASSUME NEW s \in Signals, SignalObserved(s) PROVE IInv'
  <2>1. ExplainerKnows'
    BY <1>2, <1>0 DEF IInv, TypeOK, ExplainerKnows, Grounds, Linked,
       SignalObserved
  <2>2. ExplainedAndGrounded'
    BY <1>2, <1>0 DEF IInv, TypeOK, ExplainedAndGrounded, Grounds, Linked,
       SignalObserved
  <2>3. /\ AbsentIsUntouched'
        /\ FoundIsPrivate'
        /\ FoundIsAskedFor'
        /\ PassKnowsFinding'
        /\ DismissedExists'
        /\ NobodyForgotten'
    BY <1>2, <1>0 DEF IInv, TypeOK, AbsentIsUntouched, FoundIsPrivate,
       FoundIsAskedFor, PassKnowsFinding, DismissedExists, NobodyForgotten,
       HasJob, Explainers, SignalObserved
  <2> QED BY <1>0, <2>1, <2>2, <2>3 DEF IInv
<1>3. ASSUME NEW r \in Requests, DismissRead(r) PROVE IInv'
  <2>1. DismissedExists'
    BY <1>3, <1>0 DEF IInv, TypeOK, DismissedExists, DismissRead
  <2>2. /\ AbsentIsUntouched'
        /\ FoundIsPrivate'
        /\ FoundIsAskedFor'
        /\ PassKnowsFinding'
        /\ ExplainerKnows'
        /\ NobodyForgotten'
        /\ ExplainedAndGrounded'
    BY <1>3, <1>0 DEF IInv, TypeOK, AbsentIsUntouched, FoundIsPrivate,
       FoundIsAskedFor, PassKnowsFinding, ExplainerKnows, NobodyForgotten,
       ExplainedAndGrounded, HasJob, Explainers, Grounds, Linked, DismissRead
  <2> QED BY <1>0, <2>1, <2>2 DEF IInv
<1>4. ASSUME NEW r \in Requests, DismissCommit(r) PROVE IInv'
  <2>1. AbsentIsUntouched'
    BY <1>4, <1>0 DEF IInv, TypeOK, AbsentIsUntouched, HasJob, Explainers,
       DismissCommit
  <2>2. FoundIsPrivate'
    BY <1>4, <1>0 DEF IInv, TypeOK, FoundIsPrivate, DismissedExists, DismissCommit
  <2>3. PassKnowsFinding'
    BY <1>4, <1>0 DEF IInv, TypeOK, PassKnowsFinding, DismissCommit
  <2>4. ExplainerKnows'
    BY <1>4, <1>0 DEF IInv, TypeOK, ExplainerKnows, Grounds, Linked,
       DismissCommit
  <2>5. DismissedExists'
    BY <1>4, <1>0 DEF IInv, TypeOK, DismissedExists, DismissCommit
  <2>6. NobodyForgotten'
    BY <1>4, <1>0 DEF IInv, TypeOK, NobodyForgotten, DismissedExists, HasJob,
       Explainers, DismissCommit
  <2>7. /\ FoundIsAskedFor'
        /\ ExplainedAndGrounded'
    BY <1>4, <1>0 DEF IInv, TypeOK, FoundIsAskedFor, ExplainedAndGrounded,
       Grounds, Linked, DismissCommit
  <2> QED BY <1>0, <2>1, <2>2, <2>3, <2>4, <2>5, <2>6, <2>7 DEF IInv
<1>5. ASSUME NEW w \in Workers, StartPass(w) PROVE IInv'
  <2>1. AbsentIsUntouched'
    BY <1>5, <1>0 DEF IInv, TypeOK, AbsentIsUntouched, HasJob, Explainers,
       StartPass
  <2>2. FoundIsAskedFor'
    BY <1>5, <1>0 DEF IInv, TypeOK, FoundIsAskedFor, StartPass
  <2>3. PassKnowsFinding'
    BY <1>5, <1>0 DEF IInv, TypeOK, PassKnowsFinding, StartPass
  <2>4. ExplainerKnows'
    BY <1>5, <1>0 DEF IInv, TypeOK, ExplainerKnows, Grounds, Linked, StartPass
  <2>5. NobodyForgotten'
    BY <1>5, <1>0 DEF IInv, TypeOK, NobodyForgotten, HasJob, Explainers, StartPass
  <2>6. /\ FoundIsPrivate'
        /\ DismissedExists'
        /\ ExplainedAndGrounded'
    BY <1>5, <1>0 DEF IInv, TypeOK, FoundIsPrivate, DismissedExists,
       ExplainedAndGrounded, Grounds, Linked, StartPass
  <2> QED BY <1>0, <2>1, <2>2, <2>3, <2>4, <2>5, <2>6 DEF IInv
<1>6. ASSUME NEW w \in Workers, NEW f \in Findings, StartExplain(w, f) PROVE IInv'
  <2>1. AbsentIsUntouched'
    BY <1>6, <1>0 DEF IInv, TypeOK, AbsentIsUntouched, HasJob, Explainers,
       StartExplain
  <2>2. FoundIsAskedFor'
    BY <1>6, <1>0 DEF IInv, TypeOK, FoundIsAskedFor, StartExplain
  <2>3. PassKnowsFinding'
    BY <1>6, <1>0 DEF IInv, TypeOK, PassKnowsFinding, StartExplain
  <2>4. ExplainerKnows'
    <3>1. Evidence(f) \subseteq Grounds(f)
      BY <1>0 DEF EverObserved, Evidence, Grounds
    <3> QED BY <3>1, <1>6, <1>0 DEF IInv, TypeOK, ExplainerKnows, AbsentIsUntouched, HasJob,
       Grounds, Linked, Explainers, StartExplain
  <2>5. NobodyForgotten'
    BY <1>6, <1>0 DEF IInv, TypeOK, NobodyForgotten, HasJob, Explainers,
       StartExplain
  <2>6. /\ FoundIsPrivate'
        /\ DismissedExists'
        /\ ExplainedAndGrounded'
    BY <1>6, <1>0 DEF IInv, TypeOK, FoundIsPrivate, DismissedExists,
       ExplainedAndGrounded, Grounds, Linked, StartExplain
  <2> QED BY <1>0, <2>1, <2>2, <2>3, <2>4, <2>5, <2>6 DEF IInv
<1>7. ASSUME NEW w \in Workers, Find(w) PROVE IInv'
  <2>1. AbsentIsUntouched'
    BY <1>7, <1>0 DEF IInv, TypeOK, AbsentIsUntouched, HasJob, Explainers, Find,
       FindExisting, FindNothing, Known, Open, Free
  <2>2. FoundIsPrivate'
    <3>1. CASE UNCHANGED found
      BY <1>7, <1>0, <3>1 DEF IInv, TypeOK, FoundIsPrivate, Find
    <3>2. ASSUME NEW f \in Findings, status[f] = "absent",
                 \A v \in Workers : f \notin found[v],
                 found' = [found EXCEPT ![w] = @ \cup {f}]
          PROVE  FoundIsPrivate'
      BY <1>7, <1>0, <3>2 DEF IInv, TypeOK, FoundIsPrivate, Find
    <3> QED BY <1>7, <3>1, <3>2 DEF Find, FindExisting, FindNothing, Free
  <2>3. FoundIsAskedFor'
    BY <1>7, <1>0 DEF IInv, TypeOK, FoundIsAskedFor, Find, FindExisting,
       FindNothing, Known, Open, Free
  <2>4. PassKnowsFinding'
    BY <1>7, <1>0 DEF IInv, TypeOK, PassKnowsFinding, Find, FindExisting,
       FindNothing, Known, Open, Free
  <2>5. ExplainerKnows'
    BY <1>7, <1>0 DEF IInv, TypeOK, ExplainerKnows, Grounds, Linked, Find,
       FindExisting, FindNothing, Known, Open, Free
  <2>6. NobodyForgotten'
    BY <1>7, <1>0 DEF IInv, TypeOK, NobodyForgotten, HasJob, Explainers, Find,
       FindExisting, FindNothing, Known, Open, Free
  <2>7. /\ DismissedExists'
        /\ ExplainedAndGrounded'
    BY <1>7, <1>0 DEF IInv, TypeOK, DismissedExists, ExplainedAndGrounded,
       Grounds, Linked, Find, FindExisting, FindNothing, Known, Open, Free
  <2> QED BY <1>0, <2>1, <2>2, <2>3, <2>4, <2>5, <2>6, <2>7 DEF IInv
<1>8. ASSUME NEW w \in Workers, FindRaises(w) PROVE IInv'
  <2>1. AbsentIsUntouched'
    BY <1>8, <1>0 DEF IInv, TypeOK, AbsentIsUntouched, HasJob, Explainers,
       FindRaises, EndTransaction
  <2>2. FoundIsPrivate'
    BY <1>8, <1>0 DEF IInv, TypeOK, FoundIsPrivate, FindRaises, EndTransaction
  <2>3. FoundIsAskedFor'
    BY <1>8, <1>0 DEF IInv, TypeOK, FoundIsAskedFor, FindRaises, EndTransaction
  <2>4. PassKnowsFinding'
    BY <1>8, <1>0 DEF IInv, TypeOK, PassKnowsFinding, FindRaises, EndTransaction
  <2>5. ExplainerKnows'
    BY <1>8, <1>0 DEF IInv, TypeOK, ExplainerKnows, Grounds, Linked, FindRaises,
       EndTransaction
  <2>6. NobodyForgotten'
    BY <1>8, <1>0 DEF IInv, TypeOK, NobodyForgotten, HasJob, Explainers,
       FindRaises, EndTransaction
  <2>7. /\ DismissedExists'
        /\ ExplainedAndGrounded'
    BY <1>8, <1>0 DEF IInv, TypeOK, DismissedExists, ExplainedAndGrounded,
       Grounds, Linked, FindRaises, EndTransaction
  <2> QED BY <1>0, <2>1, <2>2, <2>3, <2>4, <2>5, <2>6, <2>7 DEF IInv
<1>9. ASSUME NEW w \in Workers, Apply(w) PROVE IInv'
  <2>1. AbsentIsUntouched'
    BY <1>9, <1>0 DEF IInv, TypeOK, AbsentIsUntouched, HasJob, Explainers, Apply
  <2>2. FoundIsAskedFor'
    <3>1. ASSUME at[w] \in found[w], read[w] = "pending" PROVE Enqueues(w)
      <4>1. at[w] \in Findings /\ ~HasJob(at[w])
        BY <1>9, <1>0, <3>1 DEF IInv, TypeOK, AbsentIsUntouched, FoundIsPrivate, Apply
      <4>2. LiveJobs(at[w]) \in Nat /\ ~(LiveJobs(at[w]) > 0)
        BY <4>1, <1>0, LiveJobsCount
      <4> QED BY <4>2, <3>1 DEF Enqueues
    <3>2. CASE Enqueues(w)
      BY <3>2, <1>9, <1>0 DEF IInv, TypeOK, FoundIsAskedFor, Apply
    <3>3. CASE ~Enqueues(w)
      BY <3>1, <3>3, <1>9, <1>0 DEF IInv, TypeOK, FoundIsAskedFor, Apply
    <3> QED BY <3>2, <3>3
  <2>3. PassKnowsFinding'
    BY <1>9, <1>0 DEF IInv, TypeOK, PassKnowsFinding, Apply
  <2>4. ExplainerKnows'
    BY <1>9, <1>0 DEF IInv, TypeOK, ExplainerKnows, Grounds, Linked, Apply
  <2>5. NobodyForgotten'
    BY <1>9, <1>0 DEF IInv, TypeOK, NobodyForgotten, HasJob, Explainers, Apply
  <2>6. /\ FoundIsPrivate'
        /\ DismissedExists'
        /\ ExplainedAndGrounded'
    BY <1>9, <1>0 DEF IInv, TypeOK, FoundIsPrivate, DismissedExists,
       ExplainedAndGrounded, Grounds, Linked, Apply
  <2> QED BY <1>0, <2>1, <2>2, <2>3, <2>4, <2>5, <2>6 DEF IInv
<1>10. ASSUME NEW w \in Workers, CommitPass(w) PROVE IInv'
  <2>1. AbsentIsUntouched'
    BY <1>10, <1>0 DEF IInv, TypeOK, AbsentIsUntouched, PassKnowsFinding, HasJob,
       Explainers, CommitPass, EndTransaction
  <2>2. FoundIsPrivate'
    BY <1>10, <1>0 DEF IInv, TypeOK, FoundIsPrivate, CommitPass, EndTransaction
  <2>3. FoundIsAskedFor'
    BY <1>10, <1>0 DEF IInv, TypeOK, FoundIsAskedFor, CommitPass, EndTransaction
  <2>4. PassKnowsFinding'
    BY <1>10, <1>0 DEF IInv, TypeOK, PassKnowsFinding, CommitPass, EndTransaction
  <2>5. ExplainerKnows'
    BY <1>10, <1>0 DEF IInv, TypeOK, ExplainerKnows, Grounds, Linked, CommitPass,
       EndTransaction
  <2>6. DismissedExists'
    BY <1>10, <1>0 DEF IInv, TypeOK, DismissedExists, CommitPass, EndTransaction
  <2>7. NobodyForgotten'
    BY <1>10, <1>0 DEF IInv, TypeOK, NobodyForgotten, FoundIsAskedFor, HasJob,
       Explainers, CommitPass, EndTransaction
  <2>8. ExplainedAndGrounded'
    BY <1>10, <1>0 DEF IInv, TypeOK, ExplainedAndGrounded, Grounds, Linked,
       CommitPass, EndTransaction
  <2> QED BY <1>0, <2>1, <2>2, <2>3, <2>4, <2>5, <2>6, <2>7, <2>8 DEF IInv
<1>11. ASSUME NEW w \in Workers, Explained(w) PROVE IInv'
  <2>1. AbsentIsUntouched'
    BY <1>11, <1>0 DEF IInv, TypeOK, AbsentIsUntouched, HasJob, Explainers,
       Explained, Kept, SetAI, EndExplain, EndTransaction
  <2>2. FoundIsPrivate'
    BY <1>11, <1>0 DEF IInv, TypeOK, FoundIsPrivate, Explained, Kept, SetAI,
       EndExplain, EndTransaction
  <2>3. FoundIsAskedFor'
    BY <1>11, <1>0 DEF IInv, TypeOK, FoundIsAskedFor, Explained, Kept, SetAI,
       EndExplain, EndTransaction
  <2>4. PassKnowsFinding'
    BY <1>11, <1>0 DEF IInv, TypeOK, PassKnowsFinding, Explained, Kept, SetAI,
       EndExplain, EndTransaction
  <2>5. ExplainerKnows'
    BY <1>11, <1>0 DEF IInv, TypeOK, ExplainerKnows, Grounds, Linked, Explained,
       Kept, SetAI, EndExplain, EndTransaction
  <2>6. DismissedExists'
    BY <1>11, <1>0 DEF IInv, TypeOK, DismissedExists, Explained, Kept, SetAI,
       EndExplain, EndTransaction
  <2>7. NobodyForgotten'
    BY <1>11, <1>0 DEF IInv, TypeOK, NobodyForgotten, ExplainerKnows, HasJob,
       Explainers, Grounds, Linked, Explained, Kept, SetAI, EndExplain,
       EndTransaction
  <2>8. ExplainedAndGrounded'
    BY <1>11, <1>0 DEF IInv, TypeOK, ExplainedAndGrounded, ExplainerKnows,
       Grounds, Linked, Explained, Kept, SetAI, EndExplain, EndTransaction
  <2> QED BY <1>0, <2>1, <2>2, <2>3, <2>4, <2>5, <2>6, <2>7, <2>8 DEF IInv
<1>12. ASSUME NEW w \in Workers, Unavailable(w) PROVE IInv'
  <2>1. AbsentIsUntouched'
    BY <1>12, <1>0 DEF IInv, TypeOK, AbsentIsUntouched, HasJob, Explainers,
       Unavailable, GivenUp, SetAI, EndExplain, EndTransaction
  <2>2. FoundIsPrivate'
    BY <1>12, <1>0 DEF IInv, TypeOK, FoundIsPrivate, Unavailable, GivenUp, SetAI,
       EndExplain, EndTransaction
  <2>3. FoundIsAskedFor'
    BY <1>12, <1>0 DEF IInv, TypeOK, FoundIsAskedFor, Unavailable, GivenUp, SetAI,
       EndExplain, EndTransaction
  <2>4. PassKnowsFinding'
    BY <1>12, <1>0 DEF IInv, TypeOK, PassKnowsFinding, Unavailable, GivenUp,
       SetAI, EndExplain, EndTransaction
  <2>5. ExplainerKnows'
    BY <1>12, <1>0 DEF IInv, TypeOK, ExplainerKnows, Grounds, Linked,
       Unavailable, GivenUp, SetAI, EndExplain, EndTransaction
  <2>6. DismissedExists'
    BY <1>12, <1>0 DEF IInv, TypeOK, DismissedExists, Unavailable, GivenUp, SetAI,
       EndExplain, EndTransaction
  <2>7. NobodyForgotten'
    BY <1>12, <1>0 DEF IInv, TypeOK, NobodyForgotten, ExplainerKnows, HasJob,
       Explainers, Grounds, Linked, Unavailable, GivenUp, SetAI, EndExplain,
       EndTransaction
  <2>8. ExplainedAndGrounded'
    BY <1>12, <1>0 DEF IInv, TypeOK, ExplainedAndGrounded, Grounds, Linked,
       Unavailable, GivenUp, SetAI, EndExplain, EndTransaction
  <2> QED BY <1>0, <2>1, <2>2, <2>3, <2>4, <2>5, <2>6, <2>7, <2>8 DEF IInv
<1>13. ASSUME NEW w \in Workers, Interrupted(w) PROVE IInv'
  <2>1. AbsentIsUntouched'
    BY <1>13, <1>0 DEF IInv, TypeOK, AbsentIsUntouched, HasJob, Explainers,
       Interrupted, EndTransaction
  <2>2. FoundIsPrivate'
    BY <1>13, <1>0 DEF IInv, TypeOK, FoundIsPrivate, Interrupted, EndTransaction
  <2>3. FoundIsAskedFor'
    BY <1>13, <1>0 DEF IInv, TypeOK, FoundIsAskedFor, Interrupted, EndTransaction
  <2>4. PassKnowsFinding'
    BY <1>13, <1>0 DEF IInv, TypeOK, PassKnowsFinding, Interrupted, EndTransaction
  <2>5. ExplainerKnows'
    BY <1>13, <1>0 DEF IInv, TypeOK, ExplainerKnows, Grounds, Linked,
       Interrupted, EndTransaction
  <2>6. DismissedExists'
    BY <1>13, <1>0 DEF IInv, TypeOK, DismissedExists, Interrupted, EndTransaction
  <2>7. NobodyForgotten'
    BY <1>13, <1>0 DEF IInv, TypeOK, NobodyForgotten, HasJob, Explainers,
       Interrupted, EndTransaction
  <2>8. ExplainedAndGrounded'
    BY <1>13, <1>0 DEF IInv, TypeOK, ExplainedAndGrounded, Grounds, Linked,
       Interrupted, EndTransaction
  <2> QED BY <1>0, <2>1, <2>2, <2>3, <2>4, <2>5, <2>6, <2>7, <2>8 DEF IInv
<1>14. ASSUME NEW f \in Findings, BatchLost(f) PROVE IInv'
  <2>1. AbsentIsUntouched'
    BY <1>14, <1>0 DEF IInv, TypeOK, AbsentIsUntouched, HasJob, Explainers,
       BatchLost
  <2>2. NobodyForgotten'
    BY <1>14, <1>0 DEF IInv, TypeOK, NobodyForgotten, HasJob, Explainers,
       BatchLost
  <2>3. /\ FoundIsPrivate'
        /\ FoundIsAskedFor'
        /\ PassKnowsFinding'
        /\ ExplainerKnows'
        /\ DismissedExists'
        /\ ExplainedAndGrounded'
    BY <1>14, <1>0 DEF IInv, TypeOK, FoundIsPrivate, FoundIsAskedFor,
       PassKnowsFinding, ExplainerKnows, DismissedExists, ExplainedAndGrounded,
       Grounds, Linked, BatchLost
  <2> QED BY <1>0, <2>1, <2>2, <2>3 DEF IInv
<1>15. CASE UNCHANGED vars
  BY <1>15, <1>0 DEF vars, IInv, TypeOK, AbsentIsUntouched, FoundIsPrivate,
     FoundIsAskedFor, PassKnowsFinding, ExplainerKnows, DismissedExists,
     NobodyForgotten, ExplainedAndGrounded, HasJob, Explainers, Grounds, Linked
<1> QED
  BY <1>1, <1>2, <1>3, <1>4, <1>5, <1>6, <1>7, <1>8, <1>9, <1>10, <1>11, <1>12, <1>13, <1>14, <1>15
  DEF Next, Environment, Work, Handler, Faults, DataChanges

LEMMA Invariance == Spec => []IInv
<1>1. Init => IInv
  BY DEF Init, IInv, TypeOK, PCs, AIStatuses, AbsentIsUntouched, FoundIsPrivate,
     FoundIsAskedFor, PassKnowsFinding, ExplainerKnows, DismissedExists, NobodyForgotten,
     EverObserved, ExplainedAndGrounded, HasJob, Explainers
<1> QED BY <1>1, InvStep, PTL DEF Spec

\* For any number of workers, passes, faults and dismissals, a finding that waits
\* for its explanation has a job, or the stranded row of one.
THEOREM FindingsAreNeverForgotten == Spec => []NeverForgotten
<1>1. IInv => NeverForgotten
  BY LiveJobsCount DEF IInv, NobodyForgotten, NeverForgotten
<1> QED BY <1>1, Invariance, PTL

\* For any number of workers and any answers of the model, 'ready' findings have
\* an explanation, and explanations cite only what was evidence of their finding
\* when they were asked for, also where syncs overwrite the orders that are cited.
THEOREM ExplanationsAreGrounded == Spec => []ExplainedAndGrounded
<1>1. IInv => ExplainedAndGrounded
  BY DEF IInv
<1> QED BY <1>1, Invariance, PTL

-----------------------------------------------------------------------------
(* Links: one worker, any number of dismissals.                            *)

OneWorker == \A v, w \in Workers : v = w

\* A pass buffers only links that are not there.
BufferedIsNew ==
  \A w \in Workers, f \in Findings, s \in Signals :
    <<f, s>> \in newLinks[w] => links[f][s] = 0

LInv == TypeOK /\ LinkedOnce /\ BufferedIsNew

\* Apply buffers links that are new, CommitPass publishes them and empties the
\* buffer; nobody else touches links, and EndTransaction empties a buffer.
LEMMA LinksStep == OneWorker /\ LInv /\ [Next]_vars => LInv'
<1> SUFFICES ASSUME OneWorker, LInv, [Next]_vars PROVE LInv'
  OBVIOUS
<1>0. TypeOK /\ TypeOK'
  BY TypeStep DEF LInv
<1>1. ASSUME NEW w \in Workers, Apply(w) PROVE LinkedOnce' /\ BufferedIsNew'
  <2>1. UNCHANGED links
    BY <1>1 DEF Apply, rows
  <2>2. \A v \in Workers, f \in Findings, s \in Signals :
          <<f, s>> \in newLinks'[v] =>
            <<f, s>> \in newLinks[v] \/ (f = at[w] /\ s \in NewEvidence(at[w]))
    BY <1>0, <1>1 DEF TypeOK, Apply
  <2>3. \A s \in Signals, f \in Findings : s \in NewEvidence(f) => links[f][s] = 0
    <3> SUFFICES ASSUME NEW s \in Signals, NEW f \in Findings, s \in NewEvidence(f)
                 PROVE  links[f][s] = 0
      OBVIOUS
    <3>1. links[f][s] \in Nat /\ ~(links[f][s] > 0)
      BY <1>0 DEF TypeOK, NewEvidence, Linked
    <3> QED BY <3>1
  <2> QED BY <2>1, <2>2, <2>3 DEF LInv, LinkedOnce, BufferedIsNew
<1>2. ASSUME NEW w \in Workers, CommitPass(w) PROVE LinkedOnce' /\ BufferedIsNew'
  <2>1. \A v \in Workers : newLinks'[v] = {}
    BY <1>0, <1>2 DEF OneWorker, TypeOK, CommitPass, EndTransaction
  <2>2. \A f \in Findings, s \in Signals : links'[f][s] <= 1
    <3> SUFFICES ASSUME NEW f \in Findings, NEW s \in Signals PROVE links'[f][s] <= 1
      OBVIOUS
    <3>1. links'[f][s] = IF <<f, s>> \in newLinks[w] THEN links[f][s] + 1 ELSE links[f][s]
      BY <1>2 DEF CommitPass
    <3>2. links[f][s] <= 1 /\ (<<f, s>> \in newLinks[w] => links[f][s] = 0)
      BY DEF LInv, LinkedOnce, BufferedIsNew
    <3> QED BY <3>1, <3>2
  <2> QED BY <2>1, <2>2 DEF LinkedOnce, BufferedIsNew
<1>3. ASSUME UNCHANGED links, \A w \in Workers : newLinks'[w] \subseteq newLinks[w]
      PROVE  LinkedOnce' /\ BufferedIsNew'
  BY <1>3 DEF LInv, LinkedOnce, BufferedIsNew
<1>4. ASSUME NEW w \in Workers,
             \/ FindRaises(w) \/ Explained(w) \/ Unavailable(w) \/ Interrupted(w)
      PROVE  UNCHANGED links /\ \A v \in Workers : newLinks'[v] \subseteq newLinks[v]
  BY <1>0, <1>4 DEF TypeOK, FindRaises, Explained, Unavailable, Interrupted, EndExplain,
     EndTransaction, rows
<1>5. ASSUME NEW w \in Workers,
             \/ StartPass(w) \/ Find(w) \/ \E f \in Findings : StartExplain(w, f)
      PROVE  UNCHANGED <<links, newLinks>>
  BY <1>5 DEF StartPass, Find, StartExplain, rows, buffer
<1>6. ASSUME \/ DataChanges
             \/ \E s \in Signals : SignalObserved(s)
             \/ \E r \in Requests : DismissRead(r) \/ DismissCommit(r)
             \/ \E f \in Findings : BatchLost(f)
             \/ UNCHANGED vars
      PROVE  UNCHANGED <<links, newLinks>>
  BY <1>6 DEF DataChanges, ConditionChanges, OrderOverwritten, PassRequested, PassLost,
     SignalObserved, DismissRead, DismissCommit, BatchLost, rows, locals, buffer, vars
<1> QED
  BY <1>0, <1>1, <1>2, <1>3, <1>4, <1>5, <1>6
  DEF LInv, Next, Environment, Work, Handler, Faults, DataChanges

\* One worker links a signal to a finding once, whatever is dismissed meanwhile and
\* wherever passes are interrupted (_link_new_evidence; no constraint of the table
\* sees to it).
THEOREM OneWorkerLinksOnce == OneWorker => (Spec => []LinkedOnce)
<1> SUFFICES ASSUME OneWorker PROVE Spec => []LinkedOnce
  OBVIOUS
<1>1. Init => LInv
  BY DEF Init, LInv, LinkedOnce, BufferedIsNew, TypeOK, PCs, AIStatuses
<1>2. LInv => LinkedOnce
  BY DEF LInv
<1> QED BY <1>1, <1>2, LinksStep, PTL DEF Spec

-----------------------------------------------------------------------------
(***************************************************************************)
(* A pipeline with one worker and one dismissal at a time keeps the        *)
(* register of findings, for every set of conditions, findings and signals *)
(* and with faults anywhere.  The invariant below adds to IInv what holds  *)
(* because nobody else writes while a transaction is open.                 *)
(***************************************************************************)
Serial ==
  /\ \A v, w \in Workers : v = w
  /\ \A q, r \in Requests : q = r

\* At most one open finding per condition; a pass inserts at most one more, for
\* conditions without one, and does not come back to them.
OneOpen ==
  \A f, g \in Findings :
    CondOf[f] = CondOf[g] /\ status[f] = "open" /\ status[g] = "open" => f = g
FoundIsNew ==
  \A w \in Workers : \A f \in found[w] :
    /\ CondOf[f] \notin todo[w]
    /\ \A g \in Findings : CondOf[f] = CondOf[g] =>
         status[g] # "open" /\ (g \in found[w] => f = g)

\* At most one row of the job table speaks for a finding.
OneRow ==
  \A f \in Findings :
    /\ queued[f] + stuck[f] <= 1
    /\ Explainers(f) # {} => queued[f] + stuck[f] = 0

\* Whoever is going to explain a finding has no explanation to overwrite.
JobsAreNeeded ==
  /\ \A f \in Findings : queued[f] > 0 => ai[f] # "ready"
  /\ \A w \in Workers : pc[w] = "explaining" => ai[at[w]] # "ready"
  /\ \A w \in Workers : \A f \in newJobs[w] : ai[f] # "ready" /\ ~HasJob(f)

\* What the open transaction has read is what is there.
ReadIsCurrent ==
  \A w \in Workers : pc[w] \in {"applying", "explaining"} => read[w] = ai[at[w]]

\* A buffer belongs to a pass; a pass applies a condition once.
BufferOfPass ==
  \A w \in Workers :
    pc[w] \in {"idle", "explaining"} => found[w] = {} /\ newJobs[w] = {}

DismissingIsOpen == \A r \in Requests : dismissing[r] # None => status[dismissing[r]] = "open"

SInv ==
  /\ IInv
  /\ OneOpen
  /\ FoundIsNew
  /\ OneRow
  /\ JobsAreNeeded
  /\ ReadIsCurrent
  /\ BufferOfPass
  /\ DismissingIsOpen

-----------------------------------------------------------------------------
(* Preservation.                                                           *)

LEMMA SerialStep == Serial /\ SInv /\ [Next]_vars => SInv'
<1> SUFFICES ASSUME Serial, SInv, [Next]_vars PROVE SInv'
  OBVIOUS
<1>0. TypeOK /\ IInv /\ IInv'
  BY InvStep DEF SInv, IInv
<1> USE DEF pipeline, rows, locals, buffer
<1>1. CASE DataChanges
  <2>0. UNCHANGED <<rows, locals, dismissing>>
    BY <1>1 DEF DataChanges, ConditionChanges, OrderOverwritten, PassRequested, PassLost
  <2>1. /\ OneOpen'
        /\ FoundIsNew'
        /\ OneRow'
        /\ JobsAreNeeded'
        /\ ReadIsCurrent'
        /\ BufferOfPass'
        /\ DismissingIsOpen'
    BY <2>0, <1>0 DEF SInv, TypeOK, OneOpen, FoundIsNew, OneRow, JobsAreNeeded,
       ReadIsCurrent, BufferOfPass, DismissingIsOpen, Explainers, HasJob
  <2> QED BY <1>0, <2>1 DEF SInv
<1>2. ASSUME NEW s \in Signals, SignalObserved(s) PROVE SInv'
  <2>1. /\ OneOpen'
        /\ FoundIsNew'
        /\ OneRow'
        /\ JobsAreNeeded'
        /\ ReadIsCurrent'
        /\ BufferOfPass'
        /\ DismissingIsOpen'
    BY <1>2, <1>0 DEF SInv, TypeOK, OneOpen, FoundIsNew, OneRow, JobsAreNeeded,
       ReadIsCurrent, BufferOfPass, DismissingIsOpen, Explainers, HasJob,
       SignalObserved
  <2> QED BY <1>0, <2>1 DEF SInv
<1>3. ASSUME NEW r \in Requests, DismissRead(r) PROVE SInv'
  <2>1. DismissingIsOpen'
    BY <1>3, <1>0 DEF Serial, SInv, TypeOK, DismissingIsOpen, DismissRead
  <2>2. /\ OneOpen'
        /\ FoundIsNew'
        /\ OneRow'
        /\ JobsAreNeeded'
        /\ ReadIsCurrent'
        /\ BufferOfPass'
    BY <1>3, <1>0 DEF SInv, TypeOK, OneOpen, FoundIsNew, OneRow, JobsAreNeeded,
       ReadIsCurrent, BufferOfPass, Explainers, HasJob, DismissRead
  <2> QED BY <1>0, <2>1, <2>2 DEF SInv
<1>4. ASSUME NEW r \in Requests, DismissCommit(r) PROVE SInv'
  <2>1. OneOpen'
    BY <1>4, <1>0 DEF Serial, SInv, TypeOK, OneOpen, DismissCommit
  <2>2. FoundIsNew'
    BY <1>4, <1>0 DEF Serial, SInv, TypeOK, FoundIsNew, DismissCommit
  <2>3. DismissingIsOpen'
    BY <1>4, <1>0 DEF Serial, SInv, TypeOK, DismissingIsOpen, DismissCommit
  <2>4. /\ OneRow'
        /\ JobsAreNeeded'
        /\ ReadIsCurrent'
        /\ BufferOfPass'
    BY <1>4, <1>0 DEF SInv, TypeOK, OneRow, JobsAreNeeded, ReadIsCurrent,
       BufferOfPass, Explainers, HasJob, DismissCommit
  <2> QED BY <1>0, <2>1, <2>2, <2>3, <2>4 DEF SInv
<1>5. ASSUME NEW w \in Workers, StartPass(w) PROVE SInv'
  <2>1. FoundIsNew'
    BY <1>5, <1>0 DEF Serial, SInv, TypeOK, FoundIsNew, BufferOfPass, StartPass
  <2>2. OneRow'
    BY <1>5, <1>0 DEF Serial, SInv, TypeOK, OneRow, Explainers, StartPass
  <2>3. JobsAreNeeded'
    BY <1>5, <1>0 DEF Serial, SInv, TypeOK, JobsAreNeeded, HasJob, Explainers,
       StartPass
  <2>4. ReadIsCurrent'
    BY <1>5, <1>0 DEF Serial, SInv, TypeOK, ReadIsCurrent, StartPass
  <2>5. BufferOfPass'
    BY <1>5, <1>0 DEF Serial, SInv, TypeOK, BufferOfPass, StartPass
  <2>6. /\ OneOpen'
        /\ DismissingIsOpen'
    BY <1>5, <1>0 DEF SInv, TypeOK, OneOpen, DismissingIsOpen, StartPass
  <2> QED BY <1>0, <2>1, <2>2, <2>3, <2>4, <2>5, <2>6 DEF SInv
<1>6. ASSUME NEW w \in Workers, NEW f \in Findings, StartExplain(w, f) PROVE SInv'
  <2>1. OneRow'
    <3>1. queued[f] \in Nat /\ stuck[f] \in Nat /\ queued[f] = 1 /\ stuck[f] = 0
      <4>1. queued[f] \in Nat /\ stuck[f] \in Nat
        BY <1>0 DEF TypeOK
      <4>2. queued[f] > 0 /\ queued[f] + stuck[f] <= 1
        BY <1>6, <1>0 DEF SInv, OneRow, StartExplain
      <4> QED BY <4>1, <4>2
    <3>2. queued' = [queued EXCEPT ![f] = 0]
      BY <1>6, <3>1 DEF StartExplain
    <3>3. \A g \in Findings : g # f => Explainers(g)' = {}
      BY <1>6, <1>0 DEF Serial, TypeOK, Explainers, StartExplain
    <3> QED BY <1>6, <1>0, <3>1, <3>2, <3>3 DEF SInv, TypeOK, OneRow, StartExplain
  <2>2. JobsAreNeeded'
    BY <1>6, <1>0 DEF Serial, SInv, TypeOK, JobsAreNeeded, OneRow, BufferOfPass,
       HasJob, Explainers, StartExplain
  <2>3. ReadIsCurrent'
    BY <1>6, <1>0 DEF Serial, SInv, TypeOK, ReadIsCurrent, StartExplain
  <2>4. BufferOfPass'
    BY <1>6, <1>0 DEF Serial, SInv, TypeOK, BufferOfPass, StartExplain
  <2>5. /\ OneOpen'
        /\ FoundIsNew'
        /\ DismissingIsOpen'
    BY <1>6, <1>0 DEF SInv, TypeOK, OneOpen, FoundIsNew, DismissingIsOpen,
       StartExplain
  <2> QED BY <1>0, <2>1, <2>2, <2>3, <2>4, <2>5 DEF SInv
<1>7. ASSUME NEW w \in Workers, Find(w) PROVE SInv'
  <2>1. FoundIsNew'
    BY <1>7, <1>0 DEF Serial, SInv, TypeOK, FoundIsNew, Find, FindExisting,
       FindNothing, Known, Open, Free
  <2>2. OneRow'
    BY <1>7, <1>0 DEF Serial, SInv, TypeOK, OneRow, Explainers, Find,
       FindExisting, FindNothing, Known, Open, Free
  <2>3. JobsAreNeeded'
    BY <1>7, <1>0 DEF Serial, SInv, TypeOK, JobsAreNeeded, HasJob, Explainers,
       Find, FindExisting, FindNothing, Known, Open, Free
  <2>4. ReadIsCurrent'
    BY <1>7, <1>0 DEF Serial, SInv, TypeOK, ReadIsCurrent, IInv,
       AbsentIsUntouched, Find, FindExisting, FindNothing, Known, Open, Free
  <2>5. BufferOfPass'
    BY <1>7, <1>0 DEF Serial, SInv, TypeOK, BufferOfPass, Find, FindExisting,
       FindNothing, Known, Open, Free
  <2>6. /\ OneOpen'
        /\ DismissingIsOpen'
    BY <1>7, <1>0 DEF SInv, TypeOK, OneOpen, DismissingIsOpen, Find, FindExisting,
       FindNothing, Known, Open, Free
  <2> QED BY <1>0, <2>1, <2>2, <2>3, <2>4, <2>5, <2>6 DEF SInv
<1>8. ASSUME NEW w \in Workers, FindRaises(w) PROVE SInv'
  <2>1. OneOpen'
    BY <1>8, <1>0 DEF Serial, SInv, TypeOK, OneOpen, FindRaises, EndTransaction
  <2>2. FoundIsNew'
    BY <1>8, <1>0 DEF Serial, SInv, TypeOK, FoundIsNew, FindRaises, EndTransaction
  <2>3. OneRow'
    BY <1>8, <1>0 DEF Serial, SInv, TypeOK, OneRow, Explainers, FindRaises,
       EndTransaction
  <2>4. JobsAreNeeded'
    BY <1>8, <1>0 DEF Serial, SInv, TypeOK, JobsAreNeeded, HasJob, Explainers,
       FindRaises, EndTransaction
  <2>5. ReadIsCurrent'
    BY <1>8, <1>0 DEF Serial, SInv, TypeOK, ReadIsCurrent, FindRaises,
       EndTransaction
  <2>6. BufferOfPass'
    BY <1>8, <1>0 DEF Serial, SInv, TypeOK, BufferOfPass, FindRaises,
       EndTransaction
  <2>7. DismissingIsOpen'
    BY <1>8, <1>0 DEF Serial, SInv, TypeOK, DismissingIsOpen, FindRaises,
       EndTransaction
  <2> QED BY <1>0, <2>1, <2>2, <2>3, <2>4, <2>5, <2>6, <2>7 DEF SInv
<1>9. ASSUME NEW w \in Workers, Apply(w) PROVE SInv'
  <2>1. OneRow'
    BY <1>9, <1>0 DEF Serial, SInv, TypeOK, OneRow, Explainers, Apply
  <2>2. JobsAreNeeded'
    <3>1. ASSUME Enqueues(w) PROVE ~HasJob(at[w]) /\ ai[at[w]] # "ready"
      <4>1. at[w] \in Findings /\ read[w] = ai[at[w]]
        BY <1>9, <1>0 DEF SInv, TypeOK, ReadIsCurrent, Apply
      <4> QED BY <4>1, <3>1, <1>0, LiveJobsCount DEF Enqueues
    <3>2. \A f \in Findings : HasJob(f) <=> HasJob(f)'
      BY <1>9, <1>0 DEF TypeOK, HasJob, Explainers, Apply
    <3>3. \A f \in newJobs'[w] : f \in newJobs[w] \/ (f = at[w] /\ Enqueues(w))
      BY <1>9, <1>0 DEF TypeOK, Apply
    <3>4. \A v \in Workers : newJobs'[v] \subseteq Findings /\ v = w
      BY <1>0, <1>9, InvStep DEF Serial, IInv, TypeOK
    <3> QED BY <1>9, <1>0, <3>1, <3>2, <3>3, <3>4 DEF SInv, TypeOK, JobsAreNeeded, Apply
  <2>3. ReadIsCurrent'
    BY <1>9, <1>0 DEF Serial, SInv, TypeOK, ReadIsCurrent, Apply
  <2>4. BufferOfPass'
    BY <1>9, <1>0 DEF Serial, SInv, TypeOK, BufferOfPass, Apply
  <2>5. /\ OneOpen'
        /\ FoundIsNew'
        /\ DismissingIsOpen'
    BY <1>9, <1>0 DEF SInv, TypeOK, OneOpen, FoundIsNew, DismissingIsOpen, Apply
  <2> QED BY <1>0, <2>1, <2>2, <2>3, <2>4, <2>5 DEF SInv
<1>10. ASSUME NEW w \in Workers, CommitPass(w) PROVE SInv'
  <2>1. OneOpen'
    BY <1>10, <1>0 DEF Serial, SInv, TypeOK, OneOpen, FoundIsNew, CommitPass,
       EndTransaction
  <2>2. FoundIsNew'
    BY <1>10, <1>0 DEF Serial, SInv, TypeOK, FoundIsNew, BufferOfPass, CommitPass,
       EndTransaction
  <2>3. OneRow'
    BY <1>10, <1>0 DEF Serial, SInv, TypeOK, OneRow, JobsAreNeeded, Explainers,
       HasJob, CommitPass, EndTransaction
  <2>4. JobsAreNeeded'
    BY <1>10, <1>0 DEF Serial, SInv, TypeOK, JobsAreNeeded, BufferOfPass, HasJob,
       Explainers, CommitPass, EndTransaction
  <2>5. ReadIsCurrent'
    BY <1>10, <1>0 DEF Serial, SInv, TypeOK, ReadIsCurrent, CommitPass,
       EndTransaction
  <2>6. BufferOfPass'
    BY <1>10, <1>0 DEF Serial, SInv, TypeOK, BufferOfPass, CommitPass,
       EndTransaction
  <2>7. DismissingIsOpen'
    BY <1>10, <1>0 DEF Serial, SInv, TypeOK, DismissingIsOpen, IInv,
       FoundIsPrivate, CommitPass, EndTransaction
  <2> QED BY <1>0, <2>1, <2>2, <2>3, <2>4, <2>5, <2>6, <2>7 DEF SInv
<1>11. ASSUME NEW w \in Workers, Explained(w) PROVE SInv'
  <2>1. OneOpen'
    BY <1>11, <1>0 DEF Serial, SInv, TypeOK, OneOpen, Explained, SetAI,
       EndExplain, EndTransaction
  <2>2. FoundIsNew'
    BY <1>11, <1>0 DEF Serial, SInv, TypeOK, FoundIsNew, Explained, SetAI,
       EndExplain, EndTransaction
  <2>3. OneRow'
    BY <1>11, <1>0 DEF Serial, SInv, TypeOK, OneRow, Explainers, Explained, SetAI,
       EndExplain, EndTransaction
  <2>4. JobsAreNeeded'
    <3>1. pc[w] = "explaining" /\ at[w] \in Findings /\ newJobs[w] = {}
      BY <1>11, <1>0 DEF SInv, TypeOK, BufferOfPass, Explained
    <3>2. queued[at[w]] + stuck[at[w]] = 0
      BY <3>1 DEF SInv, OneRow, Explainers
    <3>3. queued[at[w]] = 0
      BY <3>1, <3>2, <1>0 DEF TypeOK
    <3>4. UNCHANGED queued /\ \A f \in Findings : f # at[w] => ai'[f] = ai[f]
      BY <1>11, <3>1, <1>0 DEF TypeOK, Explained, SetAI, EndExplain
    <3>5. \A v \in Workers : v = w /\ pc'[v] = "idle" /\ newJobs'[v] = {}
      BY <1>11, <1>0 DEF Serial, TypeOK, Explained, EndExplain, EndTransaction
    <3>6. \A f \in Findings : queued[f] > 0 => ai[f] # "ready"
      BY DEF SInv, JobsAreNeeded
    <3>7. \A f \in Findings : queued'[f] > 0 => ai'[f] # "ready"
      BY <3>3, <3>4, <3>6
    <3> QED BY <3>5, <3>7 DEF JobsAreNeeded
  <2>5. ReadIsCurrent'
    BY <1>11, <1>0 DEF Serial, SInv, TypeOK, ReadIsCurrent, Explained, SetAI,
       EndExplain, EndTransaction
  <2>6. BufferOfPass'
    BY <1>11, <1>0 DEF Serial, SInv, TypeOK, BufferOfPass, Explained, SetAI,
       EndExplain, EndTransaction
  <2>7. DismissingIsOpen'
    BY <1>11, <1>0 DEF Serial, SInv, TypeOK, DismissingIsOpen, Explained, SetAI,
       EndExplain, EndTransaction
  <2> QED BY <1>0, <2>1, <2>2, <2>3, <2>4, <2>5, <2>6, <2>7 DEF SInv
<1>12. ASSUME NEW w \in Workers, Unavailable(w) PROVE SInv'
  <2>1. OneOpen'
    BY <1>12, <1>0 DEF Serial, SInv, TypeOK, OneOpen, Unavailable, GivenUp, SetAI,
       EndExplain, EndTransaction
  <2>2. FoundIsNew'
    BY <1>12, <1>0 DEF Serial, SInv, TypeOK, FoundIsNew, Unavailable, GivenUp,
       SetAI, EndExplain, EndTransaction
  <2>3. OneRow'
    BY <1>12, <1>0 DEF Serial, SInv, TypeOK, OneRow, Explainers, Unavailable,
       GivenUp, SetAI, EndExplain, EndTransaction
  <2>4. JobsAreNeeded'
    BY <1>12, <1>0 DEF Serial, SInv, TypeOK, JobsAreNeeded, BufferOfPass, HasJob,
       Explainers, Unavailable, GivenUp, SetAI, EndExplain, EndTransaction
  <2>5. ReadIsCurrent'
    BY <1>12, <1>0 DEF Serial, SInv, TypeOK, ReadIsCurrent, Unavailable, GivenUp,
       SetAI, EndExplain, EndTransaction
  <2>6. BufferOfPass'
    BY <1>12, <1>0 DEF Serial, SInv, TypeOK, BufferOfPass, Unavailable, GivenUp,
       SetAI, EndExplain, EndTransaction
  <2>7. DismissingIsOpen'
    BY <1>12, <1>0 DEF Serial, SInv, TypeOK, DismissingIsOpen, Unavailable,
       GivenUp, SetAI, EndExplain, EndTransaction
  <2> QED BY <1>0, <2>1, <2>2, <2>3, <2>4, <2>5, <2>6, <2>7 DEF SInv
<1>13. ASSUME NEW w \in Workers, Interrupted(w) PROVE SInv'
  <2>1. OneOpen'
    BY <1>13, <1>0 DEF Serial, SInv, TypeOK, OneOpen, Interrupted, EndTransaction
  <2>2. FoundIsNew'
    BY <1>13, <1>0 DEF Serial, SInv, TypeOK, FoundIsNew, Interrupted,
       EndTransaction
  <2>3. OneRow'
    BY <1>13, <1>0 DEF Serial, SInv, TypeOK, OneRow, Explainers, Interrupted,
       EndTransaction
  <2>4. JobsAreNeeded'
    BY <1>13, <1>0 DEF Serial, SInv, TypeOK, JobsAreNeeded, HasJob, Explainers,
       Interrupted, EndTransaction
  <2>5. ReadIsCurrent'
    BY <1>13, <1>0 DEF Serial, SInv, TypeOK, ReadIsCurrent, Interrupted,
       EndTransaction
  <2>6. BufferOfPass'
    BY <1>13, <1>0 DEF Serial, SInv, TypeOK, BufferOfPass, Interrupted,
       EndTransaction
  <2>7. DismissingIsOpen'
    BY <1>13, <1>0 DEF Serial, SInv, TypeOK, DismissingIsOpen, Interrupted,
       EndTransaction
  <2> QED BY <1>0, <2>1, <2>2, <2>3, <2>4, <2>5, <2>6, <2>7 DEF SInv
<1>14. ASSUME NEW f \in Findings, BatchLost(f) PROVE SInv'
  <2>1. OneRow'
    BY <1>14, <1>0 DEF Serial, SInv, TypeOK, OneRow, Explainers, BatchLost
  <2>2. JobsAreNeeded'
    BY <1>14, <1>0 DEF Serial, SInv, TypeOK, JobsAreNeeded, HasJob, Explainers,
       BatchLost
  <2>3. /\ OneOpen'
        /\ FoundIsNew'
        /\ ReadIsCurrent'
        /\ BufferOfPass'
        /\ DismissingIsOpen'
    BY <1>14, <1>0 DEF SInv, TypeOK, OneOpen, FoundIsNew, ReadIsCurrent,
       BufferOfPass, DismissingIsOpen, BatchLost
  <2> QED BY <1>0, <2>1, <2>2, <2>3 DEF SInv
<1>15. CASE UNCHANGED vars
  BY <1>15, <1>0 DEF vars, SInv, TypeOK, OneOpen, FoundIsNew, OneRow, JobsAreNeeded,
     ReadIsCurrent, BufferOfPass, DismissingIsOpen, HasJob, Explainers
<1> QED
  BY <1>1, <1>2, <1>3, <1>4, <1>5, <1>6, <1>7, <1>8, <1>9, <1>10, <1>11, <1>12, <1>13, <1>14, <1>15
  DEF Next, Environment, Work, Handler, Faults, DataChanges

-----------------------------------------------------------------------------
LEMMA SerialInvariance == Serial => (Spec => []SInv)
<1> SUFFICES ASSUME Serial PROVE Spec => []SInv
  OBVIOUS
<1>1. Init => SInv
  <2>1. Init => IInv
    BY DEF Init, IInv, TypeOK, PCs, AIStatuses, AbsentIsUntouched, FoundIsPrivate,
       FoundIsAskedFor, PassKnowsFinding, ExplainerKnows, DismissedExists,
       NobodyForgotten, EverObserved, ExplainedAndGrounded, HasJob, Explainers
  <2> QED BY <2>1 DEF Init, SInv, OneOpen, FoundIsNew, OneRow, JobsAreNeeded,
       ReadIsCurrent, BufferOfPass, DismissingIsOpen, HasJob, Explainers
<1>2. SInv /\ [Next]_vars => SInv'
  BY SerialStep
<1> QED BY <1>1, <1>2, PTL DEF Spec

\* One worker never piles up explanation jobs for a finding: at most one row of
\* the queue speaks for it (_maybe_enqueue_explanation).
THEOREM SerialJobsDoNotPileUp == Serial => (Spec => []OneLiveJob)
<1> SUFFICES ASSUME Serial PROVE Spec => []OneLiveJob
  OBVIOUS
<1>1. SInv => OneLiveJob
  <2> SUFFICES ASSUME SInv, NEW f \in Findings PROVE LiveJobs(f) <= 1
    BY DEF OneLiveJob
  <2>1. queued[f] \in Nat /\ stuck[f] \in Nat
    BY DEF SInv, IInv, TypeOK
  <2>2. CASE Explainers(f) = {}
    BY <2>1, <2>2, FS_EmptySet DEF LiveJobs, SInv, OneRow
  <2>3. CASE Explainers(f) # {}
    <3>1. PICK w \in Workers : Explainers(f) = {w}
      BY <2>3 DEF Explainers, Serial
    <3>2. Cardinality(Explainers(f)) = 1
      BY <3>1, FS_Singleton
    <3>3. queued[f] + stuck[f] = 0
      BY <2>3 DEF SInv, OneRow
    <3> QED BY <2>1, <3>2, <3>3 DEF LiveJobs
  <2> QED BY <2>2, <2>3
<1> QED BY <1>1, SerialInvariance, PTL

\* One worker and one dismissal at a time implement the register of findings:
\* one open finding per condition, no reopening, explanations that stay.
THEOREM SerialImplementsRegister == Serial => (Spec => RegisterSpec)
<1> SUFFICES ASSUME Serial PROVE Spec => RegisterSpec
  OBVIOUS
<1>1. Init => Register!Init
  BY DEF Init, Register!Init
<1>2. ASSUME SInv, [Next]_vars PROVE [Register!Next]_(Register!vars)
  <2> USE DEF Register!vars, rows, locals, buffer
  <2>0. TypeOK
    BY <1>2 DEF SInv, IInv
  <2>1. ASSUME NEW r \in Requests, DismissCommit(r) PROVE Register!Next
    BY <1>2, <2>0, <2>1 DEF DismissCommit, SInv, DismissingIsOpen, TypeOK, Register!Next,
       Register!Dismiss
  <2>2. ASSUME NEW w \in Workers, CommitPass(w) PROVE Register!Next
    <3>1. found[w] \in SUBSET Findings
      BY <2>0 DEF TypeOK
    <3>2. Register!Detect(found[w])
      BY <1>2, <2>2, <3>1 DEF CommitPass, SInv, FoundIsNew, IInv, FoundIsPrivate,
         Register!Detect
    <3> QED BY <3>1, <3>2 DEF Register!Next
  <2>3. ASSUME NEW w \in Workers, Explained(w) PROVE Register!Next
    <3>1. at[w] \in Findings /\ Register!Explain(at[w])
      BY <1>2, <2>0, <2>3 DEF Explained, SetAI, EndExplain, SInv, IInv, TypeOK, ExplainerKnows,
         JobsAreNeeded, ReadIsCurrent, Register!Explain
    <3> QED BY <3>1 DEF Register!Next
  <2>4. ASSUME NEW w \in Workers, Unavailable(w) PROVE Register!Next \/ UNCHANGED <<status, ai>>
    <3>1. CASE read[w] = "unavailable"
      BY <2>4, <3>1 DEF Unavailable, GivenUp, SetAI, EndExplain
    <3>2. CASE read[w] # "unavailable"
      <4>1. at[w] \in Findings /\ Register!Explain(at[w])
        BY <1>2, <2>0, <2>4, <3>2 DEF Unavailable, GivenUp, SetAI, EndExplain, SInv, IInv,
           TypeOK, ExplainerKnows, JobsAreNeeded, Register!Explain
      <4> QED BY <4>1 DEF Register!Next
    <3> QED BY <3>1, <3>2
  <2>5. ASSUME NEW w \in Workers,
               \/ StartPass(w) \/ Find(w) \/ FindRaises(w) \/ Apply(w) \/ Interrupted(w)
               \/ \E f \in Findings : StartExplain(w, f)
        PROVE  UNCHANGED <<status, ai>>
    BY <2>5 DEF StartPass, Find, FindRaises, Apply, Interrupted, StartExplain
  <2>6. ASSUME \/ DataChanges
               \/ \E s \in Signals : SignalObserved(s)
               \/ \E r \in Requests : DismissRead(r)
               \/ \E f \in Findings : BatchLost(f)
               \/ UNCHANGED vars
        PROVE  UNCHANGED <<status, ai>>
    BY <2>6 DEF DataChanges, ConditionChanges, OrderOverwritten, PassRequested, PassLost,
       SignalObserved, DismissRead, BatchLost, vars
  <2> QED BY <1>2, <2>1, <2>2, <2>3, <2>4, <2>5, <2>6
      DEF Next, Environment, Work, Handler, Faults, DataChanges
<1> QED BY <1>1, <1>2, SerialInvariance, PTL DEF Spec, RegisterSpec, Register!Spec

-----------------------------------------------------------------------------
(* RiskRules: induction over the subsets of a finite set.                  *)

\* Any set of subsets has one with no other of them inside.
LEMMA SmallestSubset ==
  ASSUME NEW S, IsFiniteSet(S), NEW Bad \in SUBSET SUBSET S, Bad # {}
  PROVE  \E t \in Bad : \A u \in Bad : u \subseteq t => u = t
<1>1. IsWellFoundedOn(StrictSubsetOrdering(S), SUBSET S)
  BY FS_StrictSubsetOrderingWellFounded, FS_FiniteSubsetsOfFinite
<1>2. PICK t \in Bad : \A u \in Bad : <<u, t>> \notin StrictSubsetOrdering(S)
  BY <1>1, WFMin
<1> QED BY <1>2 DEF StrictSubsetOrdering

\* A finite set has a least element under a total order.
LEMMA LeastOfFinite ==
  ASSUME NEW S, IsFiniteSet(S), S # {}, NEW R,
         \A x, y \in S : <<x, y>> \in R \/ <<y, x>> \in R,
         \A x, y, z \in S : <<x, y>> \in R /\ <<y, z>> \in R => <<x, z>> \in R
  PROVE  \E x \in S : \A y \in S : <<x, y>> \in R
<1> DEFINE Bad == {T \in SUBSET S : T # {} /\ ~\E x \in T : \A y \in T : <<x, y>> \in R}
<1> SUFFICES ASSUME Bad # {} PROVE FALSE
  OBVIOUS
<1>1. PICK T \in Bad : \A u \in Bad : u \subseteq T => u = T
  <2>1. Bad \subseteq SUBSET S
    OBVIOUS
  <2> HIDE DEF Bad
  <2> QED BY <2>1, SmallestSubset
<1>2. PICK x \in T : TRUE
  OBVIOUS
<1>3. T \ {x} \notin Bad
  <2>1. T \ {x} \subseteq T /\ T \ {x} # T
    BY <1>2
  <2> HIDE DEF Bad
  <2> QED BY <1>1, <2>1
<1>4. CASE T \ {x} = {}
  BY <1>2, <1>4
<1>5. CASE T \ {x} # {}
  <2>1. PICK m \in T \ {x} : \A y \in T \ {x} : <<m, y>> \in R
    BY <1>3, <1>5
  <2>2. CASE <<m, x>> \in R
    BY <1>2, <2>1, <2>2
  <2>3. CASE <<x, m>> \in R
    BY <1>2, <2>1, <2>3
  <2> QED BY <1>2, <2>1, <2>2, <2>3
<1> QED BY <1>4, <1>5

LEMMA MinOfFinite ==
  ASSUME NEW S \in SUBSET Int, IsFiniteSet(S), S # {}
  PROVE  Min(S) \in S /\ \A y \in S : Min(S) <= y
<1> DEFINE R == {p \in Int \X Int : p[1] <= p[2]}
<1>1. \A x, y \in S : <<x, y>> \in R <=> x <= y
  OBVIOUS
<1>2. /\ \A x, y \in S : <<x, y>> \in R \/ <<y, x>> \in R
      /\ \A x, y, z \in S : <<x, y>> \in R /\ <<y, z>> \in R => <<x, z>> \in R
  BY <1>1
<1>3. \E x \in S : \A y \in S : <<x, y>> \in R
  <2> HIDE DEF R
  <2> QED BY <1>2, LeastOfFinite
<1>4. \E x \in S : \A y \in S : x <= y
  BY <1>1, <1>3
<1> QED BY <1>4 DEF Min

-----------------------------------------------------------------------------
(* Sums over finite sets: MapThenSumSet takes one element after another.   *)

Chosen(s) == CHOOSE x \in s : TRUE

\* g maps every subset of T to the sum of f over it.
SumsUp(g, f, T) ==
  \A s \in SUBSET T : g[s] = IF s = {} THEN 0 ELSE f[Chosen(s)] + g[s \ {Chosen(s)}]

IntSums(g, f, T) == g \in [SUBSET T -> Int] /\ SumsUp(g, f, T)

\* Such maps agree where both are defined, and there is one for every f.
LEMMA SumsAgree ==
  ASSUME NEW S, IsFiniteSet(S), NEW f, NEW T \in SUBSET S, NEW U \in SUBSET S,
         NEW g, NEW h, SumsUp(g, f, T), SumsUp(h, f, U),
         NEW s \in SUBSET (T \cap U)
  PROVE  g[s] = h[s]
<1> DEFINE Bad == {t \in SUBSET (T \cap U) : g[t] # h[t]}
<1> SUFFICES ASSUME Bad # {} PROVE FALSE
  OBVIOUS
<1>1. PICK t \in Bad : \A u \in Bad : u \subseteq t => u = t
  <2>1. Bad \subseteq SUBSET S
    OBVIOUS
  <2> HIDE DEF Bad
  <2> QED BY <2>1, SmallestSubset
<1>2. t # {}
  BY DEF SumsUp
<1>3. Chosen(t) \in t
  BY <1>2 DEF Chosen
<1>4. g[t \ {Chosen(t)}] = h[t \ {Chosen(t)}]
  BY <1>1, <1>3
<1> QED BY <1>2, <1>4 DEF SumsUp

LEMMA SumsExist ==
  ASSUME NEW S, IsFiniteSet(S), NEW f \in [S -> Int]
  PROVE  \E g : IntSums(g, f, S)
<1> DEFINE Bad == {T \in SUBSET S : ~\E g : IntSums(g, f, T)}
<1> SUFFICES ASSUME Bad # {} PROVE FALSE
  BY Zenon
<1>1. PICK T \in Bad : \A u \in Bad : u \subseteq T => u = T
  <2>1. Bad \subseteq SUBSET S
    OBVIOUS
  <2> HIDE DEF Bad
  <2> QED BY <2>1, SmallestSubset
<1> DEFINE G(u) == CHOOSE g : IntSums(g, f, u)
<1>2. ASSUME NEW u \in SUBSET T, u # T PROVE IntSums(G(u), f, u)
  <2>1. \E g : IntSums(g, f, u)
    BY <1>1, <1>2
  <2> QED BY <2>1, Zenon
<1> DEFINE Smaller(u) == u \ {Chosen(u)}
           val == [u \in SUBSET T |->
                     IF u # T THEN G(u)[u]
                     ELSE IF T = {} THEN 0 ELSE f[Chosen(T)] + G(Smaller(T))[Smaller(T)]]
<1>3. ASSUME NEW u \in SUBSET T, u # {} PROVE Chosen(u) \in u
  BY <1>3 DEF Chosen
<1>4. ASSUME NEW u \in SUBSET T, u # T PROVE G(u)[u] \in Int
  BY <1>2, <1>4 DEF IntSums, SumsUp
<1> HIDE DEF G
<1>5. val \in [SUBSET T -> Int]
  <2>1. ASSUME T # {} PROVE f[Chosen(T)] \in Int /\ G(Smaller(T))[Smaller(T)] \in Int
    BY <1>3, <1>4, <2>1
  <2> QED BY <1>4, <2>1
<1>6. ASSUME NEW u \in SUBSET T
      PROVE  val[u] = IF u = {} THEN 0 ELSE f[Chosen(u)] + val[Smaller(u)]
  <2>1. CASE u = T
    BY <1>3, <2>1
  <2>2. CASE u # T /\ u = {}
    BY <1>2, <2>2 DEF IntSums, SumsUp
  <2>3. CASE u # T /\ u # {}
    <3>1. val[u] = G(u)[u] /\ val[Smaller(u)] = G(Smaller(u))[Smaller(u)]
      BY <1>3, <2>3
    <3>2. G(u)[u] = f[Chosen(u)] + G(u)[Smaller(u)]
      BY <1>2, <2>3 DEF IntSums, SumsUp
    <3>3. G(u)[Smaller(u)] = G(Smaller(u))[Smaller(u)]
      <4>1. IntSums(G(u), f, u) /\ IntSums(G(Smaller(u)), f, Smaller(u))
        BY <1>2, <1>3, <2>3
      <4>2. u \in SUBSET S /\ Smaller(u) \in SUBSET S
        OBVIOUS
      <4>3. Smaller(u) \in SUBSET (u \cap Smaller(u))
        OBVIOUS
      <4> DEFINE v == Smaller(u)
      <4>4. IntSums(G(v), f, v) /\ v \in SUBSET S /\ v \in SUBSET (u \cap v)
        BY <4>1, <4>2, <4>3
      <4> HIDE DEF Smaller, v
      <4>5. G(u)[v] = G(v)[v]
        BY <4>1, <4>2, <4>4, SumsAgree DEF IntSums
      <4> QED BY <4>5 DEF v
    <3> QED BY <2>3, <3>1, <3>2, <3>3
  <2> QED BY <2>1, <2>2, <2>3
<1>7. IntSums(val, f, T)
  BY <1>5, <1>6 DEF IntSums, SumsUp
<1> HIDE DEF val
<1> QED BY <1>1, <1>7

\* TotalLate and DaysLate are what these sums are.
LEMMA TotalLateSums ==
  ASSUME IsFiniteSet(Received), \A o \in Received : Late(o) \in Int
  PROVE  \E g : IntSums(g, [o \in Received |-> Late(o)], Received) /\ TotalLate = g[Received]
<1> DEFINE f == [o \in Received |-> Late(o)]
           Is(g) == g = [s \in SUBSET Received |->
                           IF s = {} THEN 0
                           ELSE LET x == CHOOSE x \in s : TRUE IN Late(x) + g[s \ {x}]]
           h == CHOOSE g : Is(g)
<1>1. PICK g : IntSums(g, f, Received)
  <2>1. f \in [Received -> Int]
    OBVIOUS
  <2> HIDE DEF f
  <2> QED BY <2>1, SumsExist
<1>2. TotalLate = h[Received]
  BY DEF TotalLate, MapThenSumSet, MapThenFoldSet
<1>3. ASSUME NEW s \in SUBSET Received, s # {} PROVE Chosen(s) \in s
  BY <1>3 DEF Chosen
<1>4. Is(g)
  BY <1>1, <1>3 DEF IntSums, SumsUp, Chosen
<1>5. Is(h)
  <2> HIDE DEF Is
  <2> QED BY <1>4, Zenon
<1>6. SumsUp(h, f, Received)
  <2> HIDE DEF h
  <2> QED BY <1>3, <1>5 DEF SumsUp, Chosen
<1>7. h[Received] = g[Received]
  <2> HIDE DEF h, f
  <2> QED BY <1>1, <1>6, SumsAgree DEF IntSums
<1> HIDE DEF h, f
<1> QED BY <1>1, <1>2, <1>7 DEF f

\* The days of all delays, each rounded down: what SupplierDelay sums.
DaysLate == MapThenSumSet(LAMBDA o : WholeDays(Late(o)), Received)

LEMMA DaysLateSums ==
  ASSUME IsFiniteSet(Received), \A o \in Received : WholeDays(Late(o)) \in Int
  PROVE  \E g : /\ IntSums(g, [o \in Received |-> WholeDays(Late(o))], Received)
                /\ DaysLate = g[Received]
<1> DEFINE f == [o \in Received |-> WholeDays(Late(o))]
           Is(g) == g = [s \in SUBSET Received |->
                           IF s = {} THEN 0
                           ELSE LET x == CHOOSE x \in s : TRUE
                                IN  WholeDays(Late(x)) + g[s \ {x}]]
           h == CHOOSE g : Is(g)
<1>1. PICK g : IntSums(g, f, Received)
  <2>1. f \in [Received -> Int]
    OBVIOUS
  <2> HIDE DEF f
  <2> QED BY <2>1, SumsExist
<1>2. DaysLate = h[Received]
  BY DEF DaysLate, MapThenSumSet, MapThenFoldSet
<1>3. ASSUME NEW s \in SUBSET Received, s # {} PROVE Chosen(s) \in s
  BY <1>3 DEF Chosen
<1>4. Is(g)
  BY <1>1, <1>3 DEF IntSums, SumsUp, Chosen
<1>5. Is(h)
  <2> HIDE DEF Is
  <2> QED BY <1>4, Zenon
<1>6. SumsUp(h, f, Received)
  <2> HIDE DEF h
  <2> QED BY <1>3, <1>5 DEF SumsUp, Chosen
<1>7. h[Received] = g[Received]
  <2> HIDE DEF h, f
  <2> QED BY <1>1, <1>6, SumsAgree DEF IntSums
<1> HIDE DEF h, f
<1> QED BY <1>1, <1>2, <1>7 DEF f

\* Rounding each value down loses less than one D per value.
LEMMA FlooredSums ==
  ASSUME NEW S, IsFiniteSet(S), NEW f \in [S -> Int], NEW w \in [S -> Int],
         NEW D \in Nat \ {0}, \A x \in S : w[x] * D <= f[x] /\ f[x] < w[x] * D + D,
         NEW g, NEW h, IntSums(g, f, S), IntSums(h, w, S)
  PROVE  /\ g[S] \in Int /\ h[S] \in Int
         /\ h[S] * D <= g[S] /\ g[S] <= h[S] * D + Cardinality(S) * (D - 1)
<1> DEFINE Close(s) == /\ h[s] * D <= g[s]
                       /\ g[s] <= h[s] * D + Cardinality(s) * (D - 1)
           Bad == {s \in SUBSET S : ~Close(s)}
<1>1. \A s \in SUBSET S : g[s] \in Int /\ h[s] \in Int /\ Cardinality(s) \in Nat
  BY FS_Subset, FS_CardinalityType DEF IntSums
<1>2. ASSUME Bad # {} PROVE FALSE
  <2>1. PICK t \in Bad : \A u \in Bad : u \subseteq t => u = t
    <3>1. Bad \subseteq SUBSET S
      OBVIOUS
    <3>2. Bad # {}
      BY <1>2
    <3> HIDE DEF Bad
    <3> QED BY <3>1, <3>2, SmallestSubset
  <2>2. t # {}
    <3>1. g[{}] = 0 /\ h[{}] = 0
      BY DEF IntSums, SumsUp
    <3>2. Cardinality({}) = 0
      BY FS_EmptySet
    <3>3. 0 * D = 0 /\ 0 * (D - 1) = 0
      OBVIOUS
    <3>4. Close({})
      BY <3>1, <3>2, <3>3
    <3> QED BY <3>4
  <2> DEFINE x == Chosen(t)
             u == t \ {x}
  <2>3. x \in t /\ x \in S /\ u \in SUBSET S
    BY <2>2 DEF Chosen
  <2>4. Close(u)
    BY <2>1, <2>3
  <2>5. g[t] = f[x] + g[u] /\ h[t] = w[x] + h[u]
    BY <2>2 DEF IntSums, SumsUp
  <2>6. Cardinality(t) = Cardinality(u) + 1
    <3>1. IsFiniteSet(t)
      BY FS_Subset
    <3>2. Cardinality(u) = Cardinality(t) - 1
      BY <2>3, <3>1, FS_RemoveElement
    <3> QED BY <1>1, <2>3, <3>2
  <2>7. /\ f[x] \in Int /\ w[x] \in Int /\ g[u] \in Int /\ h[u] \in Int
        /\ Cardinality(u) \in Nat
    BY <1>1, <2>3
  <2>8. w[x] * D <= f[x] /\ f[x] <= w[x] * D + (D - 1)
    BY <2>3, <2>7
  <2>9. ~Close(t)
    OBVIOUS
  <2> HIDE DEF x, u, Bad
  <2>10. h[t] * D = w[x] * D + h[u] * D
    BY <2>5, <2>7
  <2>11. Cardinality(t) * (D - 1) = Cardinality(u) * (D - 1) + (D - 1)
    BY <2>6, <2>7
  <2> QED BY <2>4, <2>5, <2>7, <2>8, <2>9, <2>10, <2>11
<1>3. Close(S)
  BY <1>2
<1> QED BY <1>1, <1>3

-----------------------------------------------------------------------------
(* Integer arithmetic.                                                     *)

\* Factors can be cancelled.
LEMMA Times ==
  ASSUME NEW a \in Int, NEW b \in Int, NEW c \in Nat \ {0}
  PROVE  /\ a * c \in Int
         /\ a < b <=> a * c < b * c
         /\ a <= b <=> a * c <= b * c
OBVIOUS

LEMMA Floor ==
  ASSUME NEW a \in Int, NEW b \in Nat \ {0}
  PROVE  /\ a \div b \in Int
         /\ (a \div b) * b <= a
         /\ a < (a \div b) * b + b
OBVIOUS

LEMMA FloorBelow ==
  ASSUME NEW a \in Int, NEW b \in Nat \ {0}, NEW k \in Int
  PROVE  (a \div b < k) <=> (a < k * b)
<1> DEFINE q == a \div b
<1>1. q \in Int /\ q * b <= a /\ a < q * b + b
  BY Floor
<1>2. ASSUME q < k PROVE a < k * b
  <2>1. q + 1 <= k
    BY <1>1, <1>2
  <2>2. (q + 1) * b <= k * b
    BY <1>1, <2>1, Times
  <2>3. (q + 1) * b = q * b + b
    BY <1>1
  <2> QED BY <1>1, <2>2, <2>3, Times
<1>3. ASSUME k <= q PROVE k * b <= a
  <2>1. k * b <= q * b
    BY <1>1, <1>3, Times
  <2> QED BY <1>1, <2>1, Times
<1> QED BY <1>1, <1>2, <1>3, Times

\* What is stored of n / d, against a whole number of days.
LEMMA RoundedType ==
  ASSUME NEW n \in Int, NEW d \in Nat \ {0}
  PROVE  Rounded(n, d) \in Int
<1>1. Scale \in Nat \ {0}
  BY RulesAssumption
<1>2. 2 * d \in Nat \ {0} /\ 2 * Scale * n + d \in Int /\ 2 * Scale * (-n) + d \in Int
  BY <1>1
<1>3. (2 * Scale * n + d) \div (2 * d) \in Int /\ (2 * Scale * (-n) + d) \div (2 * d) \in Int
  BY <1>2, Floor
<1> QED BY <1>3 DEF Rounded

LEMMA RoundedBelow ==
  ASSUME NEW n \in Int, NEW d \in Nat \ {0}, NEW k \in Nat \ {0}
  PROVE  /\ Rounded(n, d) < k * Scale => n < d * k
         /\ n * Scale + d < d * Scale * k => Rounded(n, d) < k * Scale
<1> DEFINE S == Scale
<1>1. S \in Nat \ {0}
  BY RulesAssumption
<1>2. 2 * d \in Nat \ {0} /\ k * S \in Nat \ {0} /\ S * n \in Int /\ d * k \in Nat \ {0}
      /\ d * S * k \in Int /\ S * d * k \in Int
  BY <1>1
<1>3. CASE n >= 0
  <2> DEFINE a == 2 * S * n + d
  <2>1. a \in Int /\ Rounded(n, d) = a \div (2 * d)
    BY <1>1, <1>3 DEF Rounded
  <2>2. Rounded(n, d) < k * S <=> a < (k * S) * (2 * d)
    <3> HIDE DEF a
    <3> QED BY <1>2, <2>1, FloorBelow
  <2>3. (k * S) * (2 * d) = 2 * ((d * k) * S) /\ a = 2 * (n * S) + d
    BY <1>1
  <2>4. n < d * k <=> n * S < (d * k) * S
    BY <1>1, <1>2, Times
  <2>5. d * S * k = (d * k) * S
    BY <1>1
  <2> HIDE DEF a
  <2>6. n * S \in Int /\ (d * k) * S \in Int
    BY <1>1, <1>2
  <2> QED BY <2>2, <2>3, <2>4, <2>5, <2>6
<1>4. CASE n < 0
  <2> DEFINE a == 2 * S * (-n) + d
  <2>1. a \in Int /\ Rounded(n, d) = -(a \div (2 * d)) /\ a >= 0
    <3>1. 2 * S * (-n) \in Nat
      BY <1>1, <1>4
    <3> QED BY <1>4, <3>1 DEF Rounded
  <2>2. ~(a \div (2 * d) < 0)
    <3> HIDE DEF a
    <3>1. a \div (2 * d) < 0 <=> a < 0 * (2 * d)
      BY <1>2, <2>1, FloorBelow
    <3> QED BY <2>1, <3>1
  <2>3. a \div (2 * d) \in Int
    <3> HIDE DEF a
    <3> QED BY <1>2, <2>1, Floor
  <2> QED BY <1>2, <1>4, <2>1, <2>2, <2>3
<1> QED BY <1>3, <1>4

\* The relational rules fire if the cover falls short, and the more days there are
\* the more severely.
LEMMA ShortfallMeans ==
  ASSUME NEW cover \in Int, NEW days \in Int
  PROVE  /\ Shortfall(cover, days) \in 0..3
         /\ Shortfall(cover, days) > 0 <=> days > 0 /\ cover < days * Scale
<1>1. days * Scale \in Int /\ cover \in Int
  BY RulesAssumption
<1> QED BY <1>1 DEF Shortfall, Severity

LEMMA ShortfallGrows ==
  ASSUME NEW cover \in Int, NEW d \in Int, NEW e \in Int, d <= e
  PROVE  Shortfall(cover, d) <= Shortfall(cover, e)
<1> DEFINE x == d * Scale
           y == e * Scale
<1>1. x \in Int /\ y \in Int /\ x <= y
  BY RulesAssumption, Times
<1>2. d > 0 => x > 0
  BY RulesAssumption, Times
<1>3. Severity(x - cover, x, <<3, 4>>, <<1, 4>>) =
        IF 4 * cover <= x THEN 3 ELSE IF 4 * cover <= 3 * x THEN 2 ELSE 1
  <2> HIDE DEF x
  <2> QED BY <1>1 DEF Severity
<1>4. Severity(y - cover, y, <<3, 4>>, <<1, 4>>) =
        IF 4 * cover <= y THEN 3 ELSE IF 4 * cover <= 3 * y THEN 2 ELSE 1
  <2> HIDE DEF y
  <2> QED BY <1>1 DEF Severity
<1>5. Shortfall(cover, d) = IF d <= 0 \/ cover >= x THEN 0
        ELSE IF 4 * cover <= x THEN 3 ELSE IF 4 * cover <= 3 * x THEN 2 ELSE 1
  BY <1>3 DEF Shortfall
<1>6. Shortfall(cover, e) = IF e <= 0 \/ cover >= y THEN 0
        ELSE IF 4 * cover <= y THEN 3 ELSE IF 4 * cover <= 3 * y THEN 2 ELSE 1
  BY <1>4 DEF Shortfall
<1> HIDE DEF x, y
<1> QED BY <1>1, <1>2, <1>5, <1>6

\* The comparison of the supplier's rule.
LEMMA ExcessMeans ==
  ASSUME NEW sum \in Int, NEW n \in Nat \ {0}
  PROVE  Excess(sum, n, <<3, 1>>) > 0 <=> sum > 3 * n
BY DEF Excess, Severity

-----------------------------------------------------------------------------
(* Type correctness of RiskRules.                                          *)

RulesTypeOK ==
  /\ stock \in Int \cup {Null} /\ lead \in Int \cup {Null} /\ now \in Nat
  /\ usage \in UsageRows \cup {Null}
  /\ demands \in SUBSET Int /\ IsFiniteSet(demands)
  /\ order \in [Orders -> OrderRows \cup {Null}]
  /\ agg # Null => agg.cover \in Int \cup {Null} /\ agg.next \in Int \cup {Null}

LEMMA ExpectedIsFinite ==
  ASSUME RulesTypeOK
  PROVE  Expected \in SUBSET Int /\ IsFiniteSet(Expected)
<1> DEFINE O == {p \in Orders : order[p] # Null /\ order[p].status = "open"
                                /\ order[p].expected # Null}
           f == [p \in O |-> order[p].expected]
<1>1. \A p \in O : order[p] \in OrderRows /\ order[p].expected \in Int
  BY RulesAssumption DEF RulesTypeOK
<1>2. Expected = {order[p].expected : p \in O}
  BY DEF Expected
<1>3. Expected \in SUBSET Int
  BY <1>1, <1>2
<1>4. f \in Surjection(O, Expected)
  BY <1>2 DEF Surjection
<1>5. IsFiniteSet(O)
  BY RulesAssumption, FS_Subset
<1> HIDE DEF f, O
<1> QED BY <1>3, <1>4, <1>5, FS_Surjection

LEMMA NextDeliveryMeans ==
  ASSUME RulesTypeOK
  PROVE  /\ NextDelivery \in Int \cup {Null}
         /\ NextDelivery # Null => NextDelivery \in Expected
         /\ NextDelivery # Null => \A e \in Expected : NextDelivery <= e
         /\ Expected # {} => NextDelivery # Null
<1>1. Expected \in SUBSET Int /\ IsFiniteSet(Expected)
  BY ExpectedIsFinite
<1>2. Expected # {} => Min(Expected) \in Expected /\ \A e \in Expected : Min(Expected) <= e
  BY <1>1, MinOfFinite
<1> QED BY <1>1, <1>2, RulesAssumption DEF NextDelivery

LEMMA CoverMeans ==
  ASSUME RulesTypeOK, stock # Null
  PROVE  /\ Cover \in Int \cup {Null}
         /\ Cover # Null <=> usage # Null /\ usage.quantity > 0
         /\ Cover # Null => /\ Rate \in Nat \ {0} /\ Lasts \in Int
                            /\ Cover = Rounded(Lasts, Rate)
<1>1. CASE usage = Null
  BY <1>1 DEF Cover
<1>2. CASE usage # Null
  <2>1. usage.quantity \in Int /\ SpanOf(usage) \in Int
    BY <1>2, RulesAssumption DEF RulesTypeOK, SpanOf
  <2>2. stock \in Int
    BY DEF RulesTypeOK
  <2>3. Lasts \in Int /\ (usage.quantity > 0 => Rate \in Nat \ {0})
    BY <2>1, <2>2 DEF Lasts, Rate
  <2>4. CASE usage.quantity <= 0
    BY <1>2, <2>1, <2>4 DEF Cover
  <2>5. CASE usage.quantity > 0
    <3>1. Cover = Rounded(Lasts, Rate)
      BY <1>2, <2>1, <2>5 DEF Cover, Lasts, Rate
    <3>2. Rounded(Lasts, Rate) \in Int
      BY <2>3, <2>5, RoundedType
    <3> QED BY <1>2, <2>3, <2>5, <3>1, <3>2, RulesAssumption
  <2> QED BY <2>1, <2>4, <2>5
<1> QED BY <1>1, <1>2

LEMMA RulesTypeStep == RulesTypeOK /\ [RulesNext]_rulesVars => RulesTypeOK'
<1> SUFFICES ASSUME RulesTypeOK, [RulesNext]_rulesVars PROVE RulesTypeOK'
  OBVIOUS
<1>1. CASE Recompute
  <2>1. PICK trend \in Trends : agg' = [cover |-> Cover, next |-> NextDelivery, trend |-> trend]
    BY <1>1 DEF Recompute
  <2>2. Cover \in Int \cup {Null}
    BY <1>1, CoverMeans DEF Recompute
  <2>3. NextDelivery \in Int \cup {Null}
    BY NextDeliveryMeans
  <2> QED BY <1>1, <2>1, <2>2, <2>3 DEF Recompute, reported, RulesTypeOK
<1>2. CASE Report
  <2>1. agg' = agg /\ now' = now
    BY <1>2 DEF Report
  <2>2. stock' \in Int \cup {Null} /\ lead' \in Int \cup {Null} /\ usage' \in UsageRows \cup {Null}
    BY <1>2, RulesAssumption DEF Report, Reports, RulesTypeOK
  <2>3. demands' \in SUBSET Int /\ IsFiniteSet(demands')
    <3>1. CASE demands' = demands
      BY <3>1 DEF RulesTypeOK
    <3>2. CASE \E d \in NeedDates : demands' = demands \cup {d}
      BY <3>2, RulesAssumption, FS_AddElement DEF RulesTypeOK
    <3> QED BY <1>2, <3>1, <3>2 DEF Report, Reports
  <2>4. order' \in [Orders -> OrderRows \cup {Null}]
    <3>1. CASE order' = order
      BY <3>1 DEF RulesTypeOK
    <3>2. CASE \E o \in Orders, r \in OrderRows : order' = [order EXCEPT ![o] = r]
      BY <3>2 DEF RulesTypeOK
    <3> QED BY <1>2, <3>1, <3>2 DEF Report, Reports
  <2> QED BY <2>1, <2>2, <2>3, <2>4 DEF RulesTypeOK
<1>3. CASE Tick
  BY <1>3 DEF Tick, reported, RulesTypeOK
<1>4. CASE UNCHANGED rulesVars
  BY <1>4 DEF rulesVars, reported, RulesTypeOK
<1> QED BY <1>1, <1>2, <1>3, <1>4 DEF RulesNext

\* Every column of the rows and of the aggregate, and the clock, keeps its type
\* (observation/models.py:101-128).
THEOREM RulesTypeCorrect == RulesSpec => []RulesTypeOK
<1>1. RulesInit => RulesTypeOK
  BY RulesAssumption, FS_EmptySet DEF RulesInit, RulesTypeOK
<1> QED BY <1>1, RulesTypeStep, PTL DEF RulesSpec

-----------------------------------------------------------------------------
(* What the rules find.                                                    *)

\* A stock that covers less than some whole days is gone by then.
LEMMA GoneByThen ==
  ASSUME RulesTypeOK, stock # Null, Cover # Null,
         NEW days \in Int, Shortfall(Cover, days) > 0,
         NEW ticks \in Int, days * DayTicks <= ticks
  PROVE  GoneBefore(ticks)
<1>1. /\ Rate \in Nat \ {0} /\ Lasts \in Int
      /\ Cover \in Int /\ Cover = Rounded(Lasts, Rate)
  BY CoverMeans
<1>2. days \in Nat \ {0} /\ Cover < days * Scale
  BY <1>1, ShortfallMeans
<1>3. Lasts < Rate * days
  BY <1>1, <1>2, RoundedBelow
<1>4. DayTicks \in Nat \ {0}
  BY RulesAssumption
<1>5. /\ Rate * days \in Int /\ Lasts * DayTicks \in Int /\ Rate * ticks \in Int
      /\ (Rate * days) * DayTicks \in Int
  BY <1>1, <1>2, <1>4
<1>6. Lasts * DayTicks < (Rate * days) * DayTicks
  BY <1>1, <1>3, <1>4, <1>5, Times
<1>7. (days * DayTicks) * Rate <= ticks * Rate
  <2>1. days * DayTicks \in Int
    BY <1>4
  <2> QED BY <1>1, <2>1, Times
<1>8. (Rate * days) * DayTicks = (days * DayTicks) * Rate /\ ticks * Rate = Rate * ticks
  BY <1>1, <1>4
<1>9. Lasts * DayTicks < Rate * ticks
  BY <1>5, <1>6, <1>7, <1>8
<1> QED BY <1>9 DEF GoneBefore

\* What the floors of the delays lose, one by one and together.
LEMMA LateIsInt ==
  ASSUME RulesTypeOK, NEW o \in Received
  PROVE  /\ Late(o) \in Int /\ WholeDays(Late(o)) \in Int
         /\ WholeDays(Late(o)) * DayTicks <= Late(o)
         /\ Late(o) < WholeDays(Late(o)) * DayTicks + DayTicks
<1>1. order[o] \in OrderRows
  BY DEF RulesTypeOK, Received
<1>2. order[o].expected \in Int /\ order[o].received \in Int
  BY <1>1, RulesAssumption DEF Received
<1>3. Late(o) \in Int
  BY <1>2 DEF Late
<1> QED BY <1>3, RulesAssumption, Floor DEF WholeDays

LEMMA LateOnTheWhole ==
  ASSUME RulesTypeOK
  PROVE  /\ Cardinality(Received) \in Nat /\ TotalLate \in Int /\ DaysLate \in Int
         /\ DaysLate * DayTicks <= TotalLate
         /\ TotalLate <= DaysLate * DayTicks + Cardinality(Received) * (DayTicks - 1)
<1> DEFINE f == [o \in Received |-> Late(o)]
           w == [o \in Received |-> WholeDays(Late(o))]
<1>1. IsFiniteSet(Received) /\ Cardinality(Received) \in Nat
  <2>1. Received \in SUBSET Orders /\ IsFiniteSet(Orders)
    BY RulesAssumption DEF Received
  <2> QED BY <2>1, FS_Subset, FS_CardinalityType
<1>2. f \in [Received -> Int] /\ w \in [Received -> Int]
  BY LateIsInt
<1>3. \A o \in Received : w[o] * DayTicks <= f[o] /\ f[o] < w[o] * DayTicks + DayTicks
  BY LateIsInt
<1>4. DayTicks \in Nat \ {0}
  BY RulesAssumption
<1>5. PICK g : IntSums(g, f, Received) /\ TotalLate = g[Received]
  BY <1>1, LateIsInt, TotalLateSums
<1>6. PICK h : IntSums(h, w, Received) /\ DaysLate = h[Received]
  BY <1>1, LateIsInt, DaysLateSums
<1> HIDE DEF f, w
<1>7. /\ g[Received] \in Int /\ h[Received] \in Int
      /\ h[Received] * DayTicks <= g[Received]
      /\ g[Received] <= h[Received] * DayTicks + Cardinality(Received) * (DayTicks - 1)
  BY <1>1, <1>2, <1>3, <1>4, <1>5, <1>6, FlooredSums
<1> QED BY <1>1, <1>5, <1>6, <1>7

LEMMA SupplierDelayMeans ==
  ASSUME RulesTypeOK
  PROVE  SupplierDelay > 0 <=>
           Cardinality(Received) >= 3 /\ DaysLate > 3 * Cardinality(Received)
<1>1. Cardinality(Received) \in Nat /\ DaysLate \in Int
  BY LateOnTheWhole
<1>2. SupplierDelay = IF Cardinality(Received) < 3 THEN 0
                      ELSE Excess(DaysLate, Cardinality(Received), <<3, 1>>)
  BY DEF SupplierDelay, DaysLate
<1>3. CASE Cardinality(Received) < 3
  BY <1>1, <1>2, <1>3
<1>4. CASE Cardinality(Received) >= 3
  <2>1. Cardinality(Received) \in Nat \ {0}
    BY <1>1, <1>4
  <2>2. Excess(DaysLate, Cardinality(Received), <<3, 1>>) > 0
          <=> DaysLate > 3 * Cardinality(Received)
    BY <1>1, <2>1, ExcessMeans
  <2> QED BY <1>1, <1>2, <1>4, <2>2
<1> QED BY <1>1, <1>3, <1>4

\* The days until a delivery.
LEMMA DaysUntil ==
  ASSUME RulesTypeOK, NEW t \in Int
  PROVE  /\ WholeDays(t - now) \in Int
         /\ WholeDays(t - now) * DayTicks <= t - now
         /\ t - now < WholeDays(t - now) * DayTicks + DayTicks
<1>1. t - now \in Int
  BY DEF RulesTypeOK
<1> QED BY <1>1, RulesAssumption, Floor DEF WholeDays

LEMMA Today ==
  ASSUME RulesTypeOK
  PROVE  WholeDays(now) \in Int
BY RulesAssumption, Floor DEF WholeDays, RulesTypeOK

LEMMA RightlyFired == RulesTypeOK => FiresRightly
<1> SUFFICES ASSUME RulesTypeOK PROVE FiresRightly
  OBVIOUS
<1>1. ASSUME Fresh, InsufficientUntilDelivery > 0, NEW e \in Expected
      PROVE  GoneBefore(e - now)
  <2>1. HasCover /\ agg.next # Null
    BY <1>1 DEF InsufficientUntilDelivery
  <2>2. stock # Null /\ Cover # Null /\ NextDelivery # Null
    BY <1>1, <2>1 DEF Fresh, HasCover
  <2> DEFINE days == WholeDays(NextDelivery - now)
  <2>3. Shortfall(Cover, days) > 0
    BY <1>1, <2>1 DEF Fresh, InsufficientUntilDelivery
  <2>4. NextDelivery \in Int /\ e \in Int /\ now \in Int /\ NextDelivery <= e
    BY <2>2, NextDeliveryMeans, ExpectedIsFinite DEF RulesTypeOK
  <2>5. days \in Int /\ days * DayTicks <= NextDelivery - now
    BY <2>4, DaysUntil
  <2>6. e - now \in Int /\ days * DayTicks <= e - now
    BY <2>4, <2>5, RulesAssumption
  <2> HIDE DEF days
  <2> QED BY <2>2, <2>3, <2>5, <2>6, GoneByThen
<1>2. ASSUME Fresh, ProductionStop > 0, NEW d \in demands
      PROVE  GoneBefore(DayTicks * (d - WholeDays(now)))
  <2>1. HasCover /\ demands # {}
    BY <1>2 DEF ProductionStop
  <2>2. stock # Null /\ Cover # Null
    BY <1>2, <2>1 DEF Fresh, HasCover
  <2> DEFINE days == Min(demands) - WholeDays(now)
  <2>3. Shortfall(Cover, days) > 0
    BY <1>2, <2>1 DEF Fresh, ProductionStop
  <2>4. Min(demands) \in Int /\ d \in Int /\ Min(demands) <= d /\ WholeDays(now) \in Int
    BY <2>1, MinOfFinite, Today DEF RulesTypeOK
  <2>5. days \in Int /\ d - WholeDays(now) \in Int /\ days <= d - WholeDays(now)
    BY <2>4
  <2>6. days * DayTicks <= (d - WholeDays(now)) * DayTicks
    BY <2>5, RulesAssumption, Times
  <2>7. (d - WholeDays(now)) * DayTicks = DayTicks * (d - WholeDays(now))
        /\ DayTicks * (d - WholeDays(now)) \in Int
    BY <2>5, RulesAssumption
  <2> HIDE DEF days
  <2> QED BY <2>2, <2>3, <2>5, <2>6, <2>7, GoneByThen
<1>3. ASSUME SupplierDelay > 0 PROVE TotalLate > 3 * DayTicks * Cardinality(Received)
  <2> DEFINE N == Cardinality(Received)
  <2>1. N \in Nat /\ DaysLate \in Int /\ DaysLate > 3 * N
    BY <1>3, SupplierDelayMeans, LateOnTheWhole
  <2>2. DayTicks \in Nat \ {0}
    BY RulesAssumption
  <2>3. (3 * N) * DayTicks < DaysLate * DayTicks
    BY <2>1, <2>2, Times
  <2>4. DaysLate * DayTicks <= TotalLate /\ TotalLate \in Int
    BY LateOnTheWhole
  <2>5. 3 * DayTicks * N = (3 * N) * DayTicks /\ (3 * N) * DayTicks \in Int
        /\ DaysLate * DayTicks \in Int
    BY <2>1, <2>2
  <2> QED BY <2>3, <2>4, <2>5
<1> QED BY <1>1, <1>2, <1>3 DEF FiresRightly

\* A stock that ends a unit of rounding before some whole days are over is seen to.
LEMMA SeenToEnd ==
  ASSUME RulesTypeOK, stock # Null, Consumed, NEW days \in Nat \ {0},
         Lasts * Scale + Rate < Rate * Scale * days
  PROVE  Cover \in Int /\ Cover # Null /\ Shortfall(Cover, days) > 0
<1>1. Cover # Null
  BY CoverMeans DEF Consumed, Rate
<1>2. Cover \in Int /\ Rate \in Nat \ {0} /\ Lasts \in Int /\ Cover = Rounded(Lasts, Rate)
  BY <1>1, CoverMeans
<1>3. Cover < days * Scale
  BY <1>2, RoundedBelow
<1> QED BY <1>1, <1>2, <1>3, ShortfallMeans

LEMMA LittleIsMissed == RulesTypeOK => MissesLessThanADay
<1> SUFFICES ASSUME RulesTypeOK PROVE MissesLessThanADay
  OBVIOUS
<1>1. Scale \in Nat \ {0} /\ DayTicks \in Nat \ {0}
  BY RulesAssumption
<1>2. ASSUME Fresh, Consumed PROVE Rate \in Nat \ {0} /\ Lasts \in Int
  <2>1. stock # Null /\ Cover # Null
    BY <1>2, CoverMeans DEF Fresh, Consumed, Rate
  <2> QED BY <2>1, CoverMeans
<1>3. ASSUME Fresh, Consumed, Expected # {},
             \A e \in Expected : e >= now + DayTicks /\ GoneADayBefore(e - now)
      PROVE  InsufficientUntilDelivery > 0
  <2> DEFINE m == NextDelivery
             days == WholeDays(m - now)
             R == Rate * Scale
             A == Lasts * Scale + R + Rate
  <2>1. m # Null /\ m \in Expected /\ m \in Int /\ now \in Int
    BY <1>3, NextDeliveryMeans, ExpectedIsFinite DEF RulesTypeOK
  <2>2. m - now >= DayTicks /\ A * DayTicks <= R * (m - now)
    BY <1>1, <1>3, <2>1 DEF GoneADayBefore
  <2>3. days \in Int /\ m - now < days * DayTicks + DayTicks
    BY <2>1, DaysUntil
  <2>4. days \in Nat \ {0}
    <3>1. 0 * DayTicks < days * DayTicks
      BY <1>1, <2>1, <2>2, <2>3
    <3> QED BY <1>1, <2>3, <3>1, Times
  <2>5. R \in Nat \ {0} /\ A \in Int
    BY <1>1, <1>2, <1>3
  <2> HIDE DEF days, m
  <2>6. A < R * (days + 1)
    <3>1. m - now < (days + 1) * DayTicks /\ (days + 1) * DayTicks \in Int /\ m - now \in Int
      BY <1>1, <2>1, <2>3, <2>4
    <3> HIDE DEF A, R
    <3>2. (m - now) * R < ((days + 1) * DayTicks) * R
      BY <2>5, <3>1, Times
    <3>3. /\ (m - now) * R = R * (m - now)
          /\ ((days + 1) * DayTicks) * R = (R * (days + 1)) * DayTicks
          /\ R * (days + 1) \in Int /\ (R * (days + 1)) * DayTicks \in Int
          /\ A * DayTicks \in Int /\ R * (m - now) \in Int
      BY <1>1, <2>1, <2>4, <2>5
    <3>4. A * DayTicks < (R * (days + 1)) * DayTicks
      BY <2>2, <3>2, <3>3
    <3> QED BY <1>1, <2>5, <3>3, <3>4, Times
  <2>7. Lasts * Scale + Rate < Rate * Scale * days
    <3>1. Rate * Scale * (days + 1) = Rate * Scale * days + Rate * Scale
      BY <1>1, <1>2, <1>3, <2>4
    <3>2. Lasts * Scale \in Int /\ Rate * Scale \in Int /\ Rate * Scale * days \in Int
      BY <1>1, <1>2, <1>3, <2>4
    <3> QED BY <1>2, <1>3, <2>6, <3>1, <3>2
  <2>8. Cover # Null /\ Shortfall(Cover, days) > 0
    BY <1>3, <2>4, <2>7, SeenToEnd DEF Fresh
  <2> QED BY <1>3, <2>1, <2>8 DEF InsufficientUntilDelivery, HasCover, Fresh, days, m
<1>4. ASSUME Fresh, Consumed, demands # {},
             \A d \in demands : /\ d > WholeDays(now)
                                /\ GoneADayBefore(DayTicks * (d - WholeDays(now)))
      PROVE  ProductionStop > 0
  <2> DEFINE days == Min(demands) - WholeDays(now)
             R == Rate * Scale
             A == Lasts * Scale + R + Rate
  <2>1. Min(demands) \in demands /\ Min(demands) \in Int /\ WholeDays(now) \in Int
    BY <1>4, MinOfFinite, Today DEF RulesTypeOK
  <2>2. days \in Nat \ {0}
    BY <1>4, <2>1
  <2>3. A * DayTicks <= R * (DayTicks * days)
    BY <1>4, <2>1 DEF GoneADayBefore
  <2>4. R \in Nat \ {0} /\ A \in Int
    BY <1>1, <1>2, <1>4
  <2> HIDE DEF days
  <2>5. A <= R * days
    <3> HIDE DEF A, R
    <3>1. R * (DayTicks * days) = (R * days) * DayTicks /\ R * days \in Int
      BY <1>1, <2>2, <2>4
    <3> QED BY <1>1, <2>3, <2>4, <3>1, Times
  <2>6. Lasts * Scale + Rate < Rate * Scale * days
    <3>1. Lasts * Scale \in Int /\ Rate * Scale \in Nat \ {0} /\ Rate * Scale * days \in Int
      BY <1>1, <1>2, <1>4, <2>2
    <3> QED BY <1>2, <1>4, <2>5, <3>1
  <2>7. Cover # Null /\ Shortfall(Cover, days) > 0
    BY <1>4, <2>2, <2>6, SeenToEnd DEF Fresh
  <2> QED BY <1>4, <2>7 DEF ProductionStop, HasCover, Fresh, days
<1>5. ASSUME Cardinality(Received) >= 3, TotalLate >= 4 * DayTicks * Cardinality(Received)
      PROVE  SupplierDelay > 0
  <2> DEFINE N == Cardinality(Received)
  <2>1. /\ N \in Nat /\ N >= 3 /\ TotalLate \in Int /\ DaysLate \in Int
        /\ TotalLate <= DaysLate * DayTicks + N * (DayTicks - 1)
    BY <1>5, LateOnTheWhole
  <2>2. 4 * DayTicks * N <= TotalLate
    BY <1>1, <1>5, <2>1
  <2> HIDE DEF N
  <2>3. /\ 4 * DayTicks * N = (3 * N) * DayTicks + N * DayTicks
        /\ N * (DayTicks - 1) = N * DayTicks - N
        /\ N * DayTicks \in Int /\ (3 * N) * DayTicks \in Int /\ DaysLate * DayTicks \in Int
    BY <1>1, <2>1
  <2>4. (3 * N) * DayTicks < DaysLate * DayTicks
    BY <2>1, <2>2, <2>3
  <2>5. 3 * N < DaysLate
    BY <1>1, <2>1, <2>4, Times
  <2> QED BY <1>5, <2>5, SupplierDelayMeans DEF N
<1> QED BY <1>3, <1>4, <1>5 DEF MissesLessThanADay

LEMMA FloorGrows ==
  ASSUME NEW a \in Int, NEW b \in Int, a <= b
  PROVE  WholeDays(a) \in Int /\ WholeDays(b) \in Int /\ WholeDays(a) <= WholeDays(b)
<1>1. DayTicks \in Nat \ {0}
  BY RulesAssumption
<1>2. /\ a \div DayTicks \in Int /\ b \div DayTicks \in Int
      /\ (a \div DayTicks) * DayTicks <= a
  BY <1>1, Floor
<1>3. b \div DayTicks < a \div DayTicks => b < (a \div DayTicks) * DayTicks
  BY <1>1, <1>2, FloorBelow
<1>4. (a \div DayTicks) * DayTicks \in Int
  BY <1>1, <1>2
<1> QED BY <1>2, <1>3, <1>4 DEF WholeDays

LEMMA WaitingStep ==
  ASSUME RulesTypeOK, [RulesNext]_rulesVars, now' # now
  PROVE  /\ InsufficientUntilDelivery' <= InsufficientUntilDelivery
         /\ ProductionStop' <= ProductionStop
<1>1. now' = now + 1 /\ UNCHANGED <<agg, demands>>
  BY DEF RulesNext, Recompute, Report, Tick, rulesVars, reported
<1>2. now \in Int /\ now + 1 \in Int
  BY DEF RulesTypeOK
<1>3. InsufficientUntilDelivery' <= InsufficientUntilDelivery
  <2>1. CASE HasCover /\ agg.next # Null
    <3>1. agg.cover \in Int /\ agg.next \in Int
      BY <2>1 DEF HasCover, RulesTypeOK
    <3> DEFINE d == WholeDays(agg.next - (now + 1))
               e == WholeDays(agg.next - now)
    <3>2. d \in Int /\ e \in Int /\ d <= e
      <4>1. agg.next - (now + 1) \in Int /\ agg.next - now \in Int
            /\ agg.next - (now + 1) <= agg.next - now
        BY <1>2, <3>1
      <4> QED BY <4>1, FloorGrows
    <3>3. InsufficientUntilDelivery = Shortfall(agg.cover, e)
      BY <2>1 DEF InsufficientUntilDelivery
    <3>4. InsufficientUntilDelivery' = Shortfall(agg.cover, d)
      BY <1>1, <2>1 DEF InsufficientUntilDelivery, HasCover, Shortfall, Severity, WholeDays
    <3> HIDE DEF d, e
    <3> QED BY <3>1, <3>2, <3>3, <3>4, ShortfallGrows
  <2>2. CASE ~(HasCover /\ agg.next # Null)
    BY <1>1, <2>2 DEF InsufficientUntilDelivery, HasCover
  <2> QED BY <2>1, <2>2
<1>4. ProductionStop' <= ProductionStop
  <2>1. CASE HasCover /\ demands # {}
    <3>1. agg.cover \in Int /\ Min(demands) \in Int
      BY <2>1, MinOfFinite DEF HasCover, RulesTypeOK
    <3> DEFINE d == Min(demands) - WholeDays(now + 1)
               e == Min(demands) - WholeDays(now)
    <3>2. d \in Int /\ e \in Int /\ d <= e
      <4>1. /\ WholeDays(now) \in Int /\ WholeDays(now + 1) \in Int
            /\ WholeDays(now) <= WholeDays(now + 1)
        BY <1>2, FloorGrows
      <4> QED BY <3>1, <4>1
    <3>3. ProductionStop = Shortfall(agg.cover, e)
      BY <2>1 DEF ProductionStop
    <3>4. ProductionStop' = Shortfall(agg.cover, d)
      BY <1>1, <2>1 DEF ProductionStop, HasCover, Shortfall, Severity, WholeDays
    <3> HIDE DEF d, e
    <3> QED BY <3>1, <3>2, <3>3, <3>4, ShortfallGrows
  <2>2. CASE ~(HasCover /\ demands # {})
    BY <1>1, <2>2 DEF ProductionStop, HasCover
  <2> QED BY <2>1, <2>2
<1> QED BY <1>3, <1>4

\* Whatever the scale of the columns, the ticks of the clock and the rows reported:
\* on a fresh aggregate a relational rule fires only if the stock is gone before
\* every open order, or demand, and the supplier's only if the orders are as late
\* as it says (rules.py:119-209).
THEOREM RulesFireRightly == RulesSpec => []FiresRightly
BY RulesTypeCorrect, RightlyFired, PTL

\* What floors and rounding hide from the rules is less than a day
\* (rules.py:119-209).
THEOREM RulesMissLittle == RulesSpec => []MissesLessThanADay
BY RulesTypeCorrect, LittleIsMissed, PTL

\* The rules find less from day to day while nothing is recomputed, as the cover is
\* not counted down (rules.py:125-128, 162-170).
THEOREM RulesCalmDown == RulesSpec => WaitingOnlyCalms
<1>1. RulesTypeOK /\ [RulesNext]_rulesVars =>
        [now' # now => /\ InsufficientUntilDelivery' <= InsufficientUntilDelivery
                       /\ ProductionStop' <= ProductionStop]_rulesVars
  BY WaitingStep
<1> QED BY <1>1, RulesTypeCorrect, PTL DEF RulesSpec, WaitingOnlyCalms
=============================================================================
