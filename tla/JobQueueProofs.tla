--------------------------- MODULE JobQueueProofs ---------------------------
(***************************************************************************)
(* Proofs about JobQueue, for any set of jobs, workers and kinds, any      *)
(* limits and either behaviour of a rollback.                              *)
(*                                                                         *)
(* The inductive invariant IInv adds to the safety properties what the     *)
(* pc of a process says about the rows in its batch.                       *)
(***************************************************************************)
EXTENDS JobQueue, TLAPS

\* The rows of a batch: still pending while the claim is open, running under
\* the name of their process afterwards; a process between passes has none.
BatchRows ==
  \A w \in Workers :
    /\ pc[w] \in {"new", "idle", "gone"} => batch[w] = {}
    /\ pc[w] = "claiming" => \A j \in batch[w] : status[j] = "pending"
    /\ pc[w] = "dispatching" =>
         \A j \in batch[w] : status[j] = "running" /\ lockedBy[j] = w

BatchesDisjoint == \A v, w \in Workers : v # w => batch[v] \cap batch[w] = {}

IInv ==
  /\ TypeOK
  /\ BatchRows
  /\ BatchesDisjoint
  /\ EffectsOnce
  /\ FailedAtLimit
  /\ OneLivePerChain

-----------------------------------------------------------------------------
\* What a process knows of the row it is about to run.
LEMMA NextRow ==
  ASSUME IInv, NEW w \in Workers, pc[w] = "dispatching", NEW j \in NextOf(w)
  PROVE  /\ j \in batch[w] /\ j \in Jobs
         /\ status[j] = "running" /\ lockedBy[j] = w
         /\ effects[j] = 0
         /\ attempts[j] \in 0..(MaxAttempts - 1)
<1>1. j \in batch[w] /\ j \in Jobs
  BY DEF NextOf, IInv, TypeOK
<1>2. status[j] = "running" /\ lockedBy[j] = w
  BY <1>1 DEF IInv, BatchRows
<1>3. effects[j] = 0
  BY <1>1, <1>2 DEF IInv, EffectsOnce
<1>4. attempts[j] \in 0..MaxAttempts /\ attempts[j] # MaxAttempts
  BY <1>1, <1>2 DEF IInv, TypeOK, FailedAtLimit
<1>5. attempts[j] \in 0..(MaxAttempts - 1)
  BY <1>4, ConstantsAssumption
<1> QED BY <1>1, <1>2, <1>3, <1>5

\* A selected batch holds due rows that no other process has locked.
LEMMA SelectedRows ==
  ASSUME NEW T \in OldestUpTo(Limit, Claimable)
  PROVE  /\ T \subseteq Jobs
         /\ \A j \in T : status[j] = "pending"
         /\ \A j \in T, w \in Workers : ~(pc[w] = "claiming" /\ j \in batch[w])
BY DEF OldestUpTo, Claimable, Due, RowLocked

\* What the retry of a row does to it, without the clock.
LEMMA FailOrRetryStep ==
  ASSUME IInv, NEW w \in Workers, pc[w] = "dispatching", NEW j \in NextOf(w), FailOrRetry(w, j)
  PROVE  IInv'
<1> DEFINE a == attempts[j] + 1
<1>1. /\ j \in batch[w] /\ j \in Jobs /\ status[j] = "running" /\ lockedBy[j] = w
      /\ effects[j] = 0 /\ attempts[j] \in 0..(MaxAttempts - 1)
  BY NextRow
<1>2. a \in 1..MaxAttempts /\ attempts'[j] = a
  BY <1>1, ConstantsAssumption DEF FailOrRetry, IInv, TypeOK
<1>3. now + Backoff(a) \in Nat
  BY <1>2, BackoffAssumption, ConstantsAssumption DEF IInv, TypeOK
<1>4. status' = [status EXCEPT ![j] = IF a >= MaxAttempts THEN "failed" ELSE "pending"]
  BY <1>2 DEF FailOrRetry, GivesUp
<1>5. TypeOK'
  <2>1. attempts' \in [Jobs -> 0..MaxAttempts]
    BY <1>2 DEF FailOrRetry, IInv, TypeOK
  <2>2. runAt' \in [Jobs -> Nat]
    BY <1>2, <1>3 DEF FailOrRetry, IInv, TypeOK
  <2>3. status' \in [Jobs -> Statuses]
    BY <1>4 DEF IInv, TypeOK, Statuses
  <2>4. lockedBy' \in [Jobs -> Workers \cup {Nobody}] /\ batch' \in [Workers -> SUBSET Jobs]
    BY DEF FailOrRetry, IInv, TypeOK
  <2> QED BY <2>1, <2>2, <2>3, <2>4 DEF FailOrRetry, IInv, TypeOK
<1>6. BatchesDisjoint'
  BY DEF FailOrRetry, IInv, TypeOK, BatchesDisjoint
<1>7. BatchRows'
  <2>1. \A v \in Workers : \A k \in batch'[v] : k \in batch[v] /\ k # j
    BY <1>1 DEF FailOrRetry, IInv, TypeOK, BatchesDisjoint
  <2>2. \A k \in Jobs : k # j => status'[k] = status[k] /\ lockedBy'[k] = lockedBy[k]
    BY <1>4 DEF FailOrRetry, IInv, TypeOK
  <2>3. pc' = pc
    BY DEF FailOrRetry
  <2> QED BY <2>1, <2>2, <2>3, <1>5 DEF IInv, TypeOK, BatchRows
<1>8. EffectsOnce'
  BY <1>1, <1>4 DEF FailOrRetry, IInv, TypeOK, EffectsOnce
<1>9. FailedAtLimit'
  BY <1>1, <1>2, <1>4, ConstantsAssumption DEF FailOrRetry, IInv, TypeOK, FailedAtLimit
<1>10. OneLivePerChain'
  BY <1>1, <1>4 DEF IInv, TypeOK, OneLivePerChain, Live
<1> QED BY <1>5, <1>6, <1>7, <1>8, <1>9, <1>10 DEF IInv

-----------------------------------------------------------------------------
LEMMA InitIInv == Init => IInv
<1> SUFFICES ASSUME Init PROVE IInv
  OBVIOUS
<1> USE ConstantsAssumption DEF Init
<1>1. TypeOK
  BY DEF TypeOK, Statuses, PCs, Args
<1>2. BatchRows /\ BatchesDisjoint /\ EffectsOnce /\ OneLivePerChain
  BY DEF BatchRows, BatchesDisjoint, EffectsOnce, OneLivePerChain, Live
<1>3. FailedAtLimit
  BY DEF FailedAtLimit
<1> QED BY <1>1, <1>2, <1>3 DEF IInv

LEMMA NextIInv == IInv /\ [Next]_vars => IInv'
<1> SUFFICES ASSUME IInv, [Next]_vars PROVE IInv'
  OBVIOUS
<1> USE ConstantsAssumption
<1>1. CASE Tick
  BY <1>1 DEF Tick, table, workers, IInv, TypeOK, BatchRows, BatchesDisjoint,
     EffectsOnce, FailedAtLimit, OneLivePerChain, Live
<1>2. ASSUME NEW j \in Jobs, Enqueue(j) PROVE IInv'
  <2> USE <1>2 DEF Enqueue, workers
  <2>1. TypeOK'
    BY DEF IInv, TypeOK, Statuses
  <2>2. BatchRows' /\ BatchesDisjoint'
    BY DEF IInv, TypeOK, BatchRows, BatchesDisjoint
  <2>3. EffectsOnce' /\ FailedAtLimit'
    BY DEF IInv, TypeOK, EffectsOnce, FailedAtLimit
  <2>4. OneLivePerChain'
    BY DEF IInv, TypeOK, OneLivePerChain, Live
  <2> QED BY <2>1, <2>2, <2>3, <2>4 DEF IInv
<1>3. ASSUME NEW w \in Workers,
             StartWorker(w) \/ StopWorker(w) \/ Crash(w) \/ PassFails(w) \/ EndPass(w)
      PROVE  IInv'
  <2>1. /\ UNCHANGED <<table, now>>
        /\ \/ batch' = [batch EXCEPT ![w] = {}]
           \/ UNCHANGED batch /\ batch[w] = {}
        /\ \E p \in {"idle", "gone"} : pc' = [pc EXCEPT ![w] = p]
        /\ arg' \in [Workers -> Args]
    BY <1>3 DEF StartWorker, StopWorker, Crash, PassFails, EndPass, AfterPass,
       IInv, TypeOK, BatchRows
  <2>2. TypeOK'
    BY <2>1 DEF IInv, TypeOK, table, PCs
  <2>3. BatchRows' /\ BatchesDisjoint'
    BY <2>1 DEF IInv, TypeOK, table, BatchRows, BatchesDisjoint
  <2>4. EffectsOnce' /\ FailedAtLimit' /\ OneLivePerChain'
    BY <2>1 DEF IInv, table, EffectsOnce, FailedAtLimit, OneLivePerChain, Live
  <2> QED BY <2>2, <2>3, <2>4 DEF IInv
<1>4. ASSUME NEW w \in Workers, ClaimSelect(w) PROVE IInv'
  <2>1. PICK T \in OldestUpTo(Limit, Claimable) : batch' = [batch EXCEPT ![w] = T]
    BY <1>4 DEF ClaimSelect
  <2>2. /\ T \subseteq Jobs
        /\ \A j \in T : status[j] = "pending"
        /\ \A j \in T, v \in Workers : ~(pc[v] = "claiming" /\ j \in batch[v])
    BY SelectedRows
  <2>3. TypeOK'
    BY <1>4, <2>1, <2>2 DEF ClaimSelect, table, IInv, TypeOK, PCs
  <2>4. \A v \in Workers : v # w => T \cap batch[v] = {}
    BY <2>2 DEF IInv, TypeOK, BatchRows, PCs
  <2>5. BatchesDisjoint'
    BY <2>1, <2>4 DEF IInv, TypeOK, BatchesDisjoint
  <2>6. BatchRows'
    BY <1>4, <2>1, <2>2 DEF ClaimSelect, table, IInv, TypeOK, BatchRows
  <2>7. EffectsOnce' /\ FailedAtLimit' /\ OneLivePerChain'
    BY <1>4 DEF ClaimSelect, table, IInv, EffectsOnce, FailedAtLimit, OneLivePerChain, Live
  <2> QED BY <2>3, <2>5, <2>6, <2>7 DEF IInv
<1>5. ASSUME NEW w \in Workers, ClaimCommit(w) PROVE IInv'
  <2> USE <1>5 DEF ClaimCommit
  <2>1. TypeOK'
    BY DEF IInv, TypeOK, Statuses, PCs
  <2>2. BatchesDisjoint'
    BY DEF IInv, BatchesDisjoint
  <2>3. \A j \in batch[w] : j \in Jobs /\ status[j] = "pending"
    BY DEF IInv, TypeOK, BatchRows
  <2>4. BatchRows'
    BY <2>3 DEF IInv, TypeOK, BatchRows, BatchesDisjoint
  <2>5. EffectsOnce' /\ FailedAtLimit'
    BY <2>3 DEF IInv, TypeOK, EffectsOnce, FailedAtLimit
  <2>6. OneLivePerChain'
    BY <2>3 DEF IInv, TypeOK, OneLivePerChain, Live
  <2> QED BY <2>1, <2>2, <2>4, <2>5, <2>6 DEF IInv
<1>6. ASSUME NEW w \in Workers, SkipJob(w) PROVE IInv'
  <2>1. TypeOK'
    BY <1>6 DEF SkipJob, table, IInv, TypeOK
  <2>2. BatchRows' /\ BatchesDisjoint'
    BY <1>6 DEF SkipJob, table, IInv, TypeOK, BatchRows, BatchesDisjoint
  <2>3. EffectsOnce' /\ FailedAtLimit' /\ OneLivePerChain'
    BY <1>6 DEF SkipJob, table, IInv, EffectsOnce, FailedAtLimit, OneLivePerChain, Live
  <2> QED BY <2>1, <2>2, <2>3 DEF IInv
<1>7. ASSUME NEW w \in Workers, RunUnregistered(w) PROVE IInv'
  BY <1>7, FailOrRetryStep DEF RunUnregistered
<1>8. ASSUME NEW w \in Workers, HandlerSucceeds(w) PROVE IInv'
  <2> PICK j \in NextOf(w) :
        /\ \E S \in SuccessorSets(j) :
             /\ status' = [k \in Jobs |-> IF k = j THEN "done"
                                          ELSE IF k \in S THEN "pending" ELSE status[k]]
             /\ runAt' = [k \in Jobs |-> IF k \in S THEN now + Interval ELSE runAt[k]]
        /\ lockedBy' = [lockedBy EXCEPT ![j] = Nobody]
        /\ effects' = [effects EXCEPT ![j] = @ + 1]
        /\ batch' = [batch EXCEPT ![w] = @ \ {j}]
    BY <1>8 DEF HandlerSucceeds
  <2>1. PICK S \in SuccessorSets(j) :
          /\ status' = [k \in Jobs |-> IF k = j THEN "done"
                                       ELSE IF k \in S THEN "pending" ELSE status[k]]
          /\ runAt' = [k \in Jobs |-> IF k \in S THEN now + Interval ELSE runAt[k]]
    OBVIOUS
  <2>2. pc[w] = "dispatching" /\ UNCHANGED <<attempts, now, pc, arg>>
    BY <1>8 DEF HandlerSucceeds
  <2>3. /\ j \in batch[w] /\ j \in Jobs /\ status[j] = "running" /\ lockedBy[j] = w
        /\ effects[j] = 0 /\ attempts[j] \in 0..(MaxAttempts - 1)
    BY <2>2, NextRow
  <2>4. /\ S \subseteq {k \in Jobs : status[k] = "absent" /\ KindOf[k] = KindOf[j]}
        /\ \A k, m \in S : k = m
        /\ KindOf[j] \notin Recurring => S = {}
    BY DEF SuccessorSets
  <2>5. TypeOK'
    BY <2>1, <2>2, <2>3 DEF IInv, TypeOK, Statuses
  <2>6. \A v \in Workers : \A k \in batch'[v] : k \in batch[v] /\ k # j /\ k \notin S
    BY <2>1, <2>3, <2>4 DEF IInv, TypeOK, BatchRows, BatchesDisjoint, PCs
  <2>7. BatchesDisjoint'
    BY <2>1 DEF IInv, TypeOK, BatchesDisjoint
  <2>8. BatchRows'
    BY <2>1, <2>2, <2>5, <2>6 DEF IInv, TypeOK, BatchRows
  <2>9. EffectsOnce'
    BY <2>1, <2>3, <2>4 DEF IInv, TypeOK, EffectsOnce
  <2>10. FailedAtLimit'
    BY <2>1, <2>2, <2>3, <2>4 DEF IInv, TypeOK, FailedAtLimit
  <2>11. OneLivePerChain'
    <3>1. \A k \in Jobs : status'[k] \in {"pending", "running"} =>
             k \in S \/ (k # j /\ status[k] \in {"pending", "running"})
      BY <2>1
    <3>2. \A k \in S : k \in Jobs /\ KindOf[k] = KindOf[j] /\ KindOf[j] \in Recurring
      BY <2>4
    <3> QED BY <2>3, <2>4, <3>1, <3>2 DEF IInv, OneLivePerChain, Live
  <2> QED BY <2>5, <2>7, <2>8, <2>9, <2>10, <2>11 DEF IInv
<1>9. ASSUME NEW w \in Workers, HandlerRaises(w) PROVE IInv'
  <2>1. CASE RollbackExpires
    BY <1>3, <1>9, <2>1 DEF HandlerRaises, PassFails
  <2>2. CASE ~RollbackExpires
    BY <1>9, <2>2, FailOrRetryStep DEF HandlerRaises
  <2> QED BY <2>1, <2>2
<1>10. CASE UNCHANGED vars
  BY <1>10 DEF vars, IInv, TypeOK, BatchRows, BatchesDisjoint,
     EffectsOnce, FailedAtLimit, OneLivePerChain, Live
<1> QED BY <1>1, <1>2, <1>3, <1>4, <1>5, <1>6, <1>7, <1>8, <1>9, <1>10 DEF Next, Dispatch

LEMMA Inductive == Spec => []IInv
BY InitIInv, NextIInv, PTL DEF Spec

-----------------------------------------------------------------------------
\* The job table and the workers' local state are well typed in every reachable
\* state; in particular attempts never passes max_attempts.
THEOREM TypeCorrect == Spec => []TypeOK
BY Inductive, PTL DEF IInv

\* claim_due hands every job to one process at a time, whatever interleaves.
THEOREM OneRunnerHolds == Spec => []OneRunner
<1>1. IInv => OneRunner
  BY DEF IInv, TypeOK, BatchRows, BatchesDisjoint, OneRunner
<1> QED BY <1>1, Inductive, PTL

\* The effects of a job are committed at most once, exactly when it is done.
THEOREM EffectsAtMostOnce == Spec => []EffectsOnce
BY Inductive, PTL DEF IInv

\* A job is failed exactly when its attempts are used up.
THEOREM FailedExactlyAtLimit == Spec => []FailedAtLimit
BY Inductive, PTL DEF IInv

\* A self-perpetuating job never has two live copies.
THEOREM ChainsNeverFork == Spec => []OneLivePerChain
BY Inductive, PTL DEF IInv

\* One step cannot touch a stranded row.
LEMMA StrandedStep ==
  ASSUME IInv, [Next]_vars, NEW j \in Jobs, Stranded(j)
  PROVE  status'[j] = "running" /\ lockedBy'[j] = lockedBy[j] /\ effects'[j] = effects[j]
<1> DEFINE Kept == status'[j] = "running" /\ lockedBy'[j] = lockedBy[j] /\ effects'[j] = effects[j]
<1> SUFFICES Kept
  OBVIOUS
<1>1. status[j] = "running" /\ \A w \in Workers : pc[w] = "dispatching" => j \notin batch[w]
  BY DEF Stranded, Holds
<1>2. ASSUME NEW w \in Workers, pc[w] = "dispatching", NEW k \in NextOf(w) PROVE k # j
  BY <1>1, <1>2 DEF NextOf
<1>3. ASSUME NEW w \in Workers, NEW k \in NextOf(w), pc[w] = "dispatching", FailOrRetry(w, k)
      PROVE  Kept
  BY <1>1, <1>2, <1>3 DEF FailOrRetry, IInv, TypeOK
<1>4. ASSUME NEW k \in Jobs, Enqueue(k) PROVE Kept
  BY <1>1, <1>4 DEF Enqueue, IInv, TypeOK
<1>5. ASSUME NEW w \in Workers, ClaimCommit(w) PROVE Kept
  BY <1>1, <1>5 DEF ClaimCommit, IInv, TypeOK, BatchRows
<1>6. ASSUME NEW w \in Workers, RunUnregistered(w) PROVE Kept
  BY <1>3, <1>6 DEF RunUnregistered
<1>7. ASSUME NEW w \in Workers, HandlerSucceeds(w) PROVE Kept
  <2>1. PICK k \in NextOf(w) :
          /\ \E S \in SuccessorSets(k) :
               status' = [i \in Jobs |-> IF i = k THEN "done"
                                         ELSE IF i \in S THEN "pending" ELSE status[i]]
          /\ lockedBy' = [lockedBy EXCEPT ![k] = Nobody]
          /\ effects' = [effects EXCEPT ![k] = @ + 1]
    BY <1>7 DEF HandlerSucceeds
  <2>2. k # j
    BY <1>2, <1>7 DEF HandlerSucceeds
  <2>3. \A S \in SuccessorSets(k) : j \notin S
    BY <1>1 DEF SuccessorSets
  <2> QED BY <1>1, <2>1, <2>2, <2>3 DEF IInv, TypeOK
<1>8. ASSUME NEW w \in Workers, HandlerRaises(w) PROVE Kept
  <2>1. CASE RollbackExpires
    BY <1>1, <1>8, <2>1 DEF HandlerRaises, table
  <2>2. CASE ~RollbackExpires
    BY <1>3, <1>8, <2>2 DEF HandlerRaises
  <2> QED BY <2>1, <2>2
<1>9. ASSUME UNCHANGED table PROVE Kept
  BY <1>1, <1>9 DEF table
<1>10. ASSUME NEW w \in Workers,
              \/ StartWorker(w) \/ StopWorker(w) \/ Crash(w) \/ PassFails(w)
              \/ ClaimSelect(w) \/ SkipJob(w) \/ EndPass(w)
       PROVE  Kept
  BY <1>9, <1>10 DEF StartWorker, StopWorker, Crash, PassFails, ClaimSelect, SkipJob, EndPass
<1>11. CASE Tick \/ UNCHANGED vars
  BY <1>9, <1>11 DEF Tick, vars, table
<1> QED BY <1>4, <1>5, <1>6, <1>7, <1>8, <1>10, <1>11 DEF Next, Dispatch

\* No later step of any process ever picks a stranded row up again.
THEOREM StrandedRowsStayStranded == Spec => StrandedForever
<1>1. IInv /\ [Next]_vars =>
        [\A j \in Jobs : Stranded(j) =>
           status'[j] = "running" /\ lockedBy'[j] = lockedBy[j] /\ effects'[j] = effects[j]]_vars
  BY StrandedStep
<1> QED BY <1>1, Inductive, PTL DEF Spec, StrandedForever

-----------------------------------------------------------------------------
(* The queue implements JobLifecycle.                                      *)

LEMMA RecordFailureStep ==
  ASSUME IInv, NEW w \in Workers, pc[w] = "dispatching", NEW j \in NextOf(w), FailOrRetry(w, j)
  PROVE  Lifecycle!RecordFailure(j)
<1>1. j \in Jobs /\ status[j] = "running" /\ attempts[j] \in 0..(MaxAttempts - 1)
  BY NextRow
<1>2. attempts'[j] = attempts[j] + 1
  BY <1>1 DEF FailOrRetry, IInv, TypeOK
<1>3. attempts'[j] < MaxAttempts <=> ~GivesUp(attempts'[j])
  BY <1>1, <1>2, ConstantsAssumption DEF GivesUp
<1> QED BY <1>1, <1>3 DEF FailOrRetry, Lifecycle!RecordFailure

LEMMA LifecycleStep == IInv /\ [Next]_vars => [Lifecycle!Next]_(Lifecycle!vars)
<1> SUFFICES ASSUME IInv, [Next]_vars PROVE [Lifecycle!Next]_(Lifecycle!vars)
  OBVIOUS
<1>1. ASSUME NEW j \in Jobs, Enqueue(j) PROVE Lifecycle!Next
  BY <1>1 DEF Enqueue, Lifecycle!Next, Lifecycle!Submit
<1>2. ASSUME NEW w \in Workers, ClaimCommit(w) PROVE Lifecycle!Next
  <2>1. batch[w] \in SUBSET Lifecycle!In("pending")
    BY <1>2 DEF ClaimCommit, IInv, TypeOK, BatchRows, Lifecycle!In
  <2>2. Lifecycle!Take(batch[w])
    BY <1>2 DEF ClaimCommit, Lifecycle!Take
  <2> QED BY <2>1, <2>2 DEF Lifecycle!Next
<1>3. ASSUME NEW w \in Workers, NEW j \in NextOf(w), pc[w] = "dispatching", FailOrRetry(w, j)
      PROVE  Lifecycle!Next
  <2>1. j \in Jobs
    BY <1>3 DEF NextOf, IInv, TypeOK
  <2> QED BY <1>3, <2>1, RecordFailureStep DEF Lifecycle!Next
<1>4. ASSUME NEW w \in Workers, HandlerSucceeds(w) PROVE Lifecycle!Next
  <2>1. PICK j \in NextOf(w) :
          /\ \E S \in SuccessorSets(j) :
               status' = [k \in Jobs |-> IF k = j THEN "done"
                                         ELSE IF k \in S THEN "pending" ELSE status[k]]
          /\ effects' = [effects EXCEPT ![j] = @ + 1]
    BY <1>4 DEF HandlerSucceeds
  <2>2. PICK S \in SuccessorSets(j) :
          status' = [k \in Jobs |-> IF k = j THEN "done"
                                    ELSE IF k \in S THEN "pending" ELSE status[k]]
    BY <2>1
  <2>3. j \in Jobs /\ status[j] = "running"
    BY <1>4, NextRow DEF HandlerSucceeds
  <2>4. S \in SUBSET Lifecycle!In("absent")
    BY DEF SuccessorSets, Lifecycle!In
  <2>5. Lifecycle!Perform(j, S)
    BY <1>4, <2>1, <2>2, <2>3 DEF HandlerSucceeds, Lifecycle!Perform
  <2> QED BY <2>3, <2>4, <2>5 DEF Lifecycle!Next
<1>5. ASSUME UNCHANGED table PROVE UNCHANGED Lifecycle!vars
  BY <1>5 DEF table, Lifecycle!vars
<1>6. ASSUME NEW w \in Workers,
             \/ StartWorker(w) \/ StopWorker(w) \/ Crash(w) \/ PassFails(w)
             \/ ClaimSelect(w) \/ SkipJob(w) \/ EndPass(w)
      PROVE  UNCHANGED Lifecycle!vars
  BY <1>5, <1>6 DEF StartWorker, StopWorker, Crash, PassFails, ClaimSelect, SkipJob, EndPass
<1>7. ASSUME NEW w \in Workers, RunUnregistered(w) PROVE Lifecycle!Next
  BY <1>3, <1>7 DEF RunUnregistered
<1>8. ASSUME NEW w \in Workers, HandlerRaises(w)
      PROVE  Lifecycle!Next \/ UNCHANGED Lifecycle!vars
  BY <1>3, <1>5, <1>8 DEF HandlerRaises
<1>9. CASE Tick \/ UNCHANGED vars
  BY <1>5, <1>9 DEF Tick, vars, table
<1> QED BY <1>1, <1>2, <1>4, <1>6, <1>7, <1>8, <1>9 DEF Next, Dispatch

\* The queue, with its workers, locks, clock and failures, implements the life
\* of a job: effects once, together with its successor, or bounded attempts.
THEOREM QueueImplementsLifecycle == Spec => LifecycleSpec
<1>1. Init => Lifecycle!Init
  BY DEF Init, Lifecycle!Init
<1> QED BY <1>1, LifecycleStep, Inductive, PTL DEF Spec, LifecycleSpec, Lifecycle!Spec
=============================================================================
