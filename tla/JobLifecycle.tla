---------------------------- MODULE JobLifecycle ----------------------------
(***************************************************************************)
(* What the durable queue promises to the code that enqueues a job, with   *)
(* no worker, lock, clock or transaction in sight: a job waits, is taken,  *)
(* and then is performed (its effects are committed, together with the     *)
(* jobs it hands on), put back after a failed attempt, or given up after   *)
(* the last one.  JobQueue.tla refines this specification.                 *)
(***************************************************************************)
EXTENDS Naturals

CONSTANTS
  Jobs,        \* job ids (rows that exist or may still be inserted)
  MaxAttempts  \* job.max_attempts

VARIABLES
  phase,    \* phase[j]: where job j is in its life
  tries,    \* tries[j]: failed attempts recorded so far
  effects   \* effects[j]: how many times j's effects were committed

vars == <<phase, tries, effects>>

Phases == {"absent", "pending", "running", "done", "failed"}

In(p) == {j \in Jobs : phase[j] = p}

Init ==
  /\ phase = [j \in Jobs |-> "absent"]
  /\ tries = [j \in Jobs |-> 0]
  /\ effects = [j \in Jobs |-> 0]

Submit(j) ==
  /\ phase[j] = "absent"
  /\ phase' = [phase EXCEPT ![j] = "pending"]
  /\ UNCHANGED <<tries, effects>>

\* Several jobs are taken at once.
Take(S) ==
  /\ phase' = [j \in Jobs |-> IF j \in S THEN "running" ELSE phase[j]]
  /\ UNCHANGED <<tries, effects>>

\* The effects of j and the jobs in Next are committed in one step.
Perform(j, Successors) ==
  /\ phase[j] = "running"
  /\ phase' = [k \in Jobs |-> IF k = j THEN "done"
                              ELSE IF k \in Successors THEN "pending"
                              ELSE phase[k]]
  /\ effects' = [effects EXCEPT ![j] = @ + 1]
  /\ UNCHANGED tries

\* A failed attempt is counted; the last one gives the job up.
RecordFailure(j) ==
  /\ phase[j] = "running"
  /\ tries' = [tries EXCEPT ![j] = @ + 1]
  /\ phase' = [phase EXCEPT ![j] = IF tries'[j] < MaxAttempts
                                   THEN "pending" ELSE "failed"]
  /\ UNCHANGED effects

Next ==
  \/ \E j \in Jobs : Submit(j) \/ RecordFailure(j)
  \/ \E S \in SUBSET In("pending") : Take(S)
  \/ \E j \in Jobs : \E Successors \in SUBSET In("absent") : Perform(j, Successors)

Spec == Init /\ [][Next]_vars
=============================================================================
