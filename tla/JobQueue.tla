------------------------------ MODULE JobQueue ------------------------------
(***************************************************************************)
(* The durable Postgres job queue (app/jobs/queue.py) and the worker       *)
(* processes that drain it (app/worker.py).                                *)
(*                                                                         *)
(* One variable per column of the job table that control depends on, one   *)
(* variable per piece of a worker's local state.  Each action is one       *)
(* database transaction or one step of process_once between transactions,  *)
(* so the steps of different workers interleave exactly where the code     *)
(* releases the database.  The claim takes two steps, because the rows it  *)
(* selects stay row-locked until its commit.                               *)
(***************************************************************************)
EXTENDS Integers, FiniteSets

CONSTANTS
  Jobs,        \* ids of the rows that exist or may still be inserted (a bound)
  Workers,     \* worker processes; WORKER_ID is drawn afresh by each process
  Kinds,       \* values of job.kind
  KindOf,      \* the kind of each job: written by the insert and never again
  Registered,  \* the kinds that have an entry in HANDLERS
  Recurring,   \* the kinds whose handler enqueues its own next run
  Limit,       \* the limit argument of process_once (25 in the code)
  MaxAttempts, \* job.max_attempts (5 by default)
  BackoffBase, BackoffCap,  \* _BACKOFF_BASE_SECONDS and _BACKOFF_CAP_SECONDS
  Interval,    \* interval_seconds of reschedule_recurring
  MaxTime,     \* bound on the clock
  RollbackExpires, \* TRUE: session.rollback() expires the Job instance (SQLAlchemy)
  Nobody       \* locked_by IS NULL

VARIABLES
  status, attempts, runAt, lockedBy, \* columns of the job table
  effects,  \* history: committed transactions that hold the effects of a job
  now,      \* datetime.now(UTC)
  pc,       \* pc[w]: where process w is
  arg,      \* arg[w]: the command line of process w
  batch     \* batch[w]: the jobs w has row-locked or claimed and not yet run

table   == <<status, attempts, runAt, lockedBy, effects>>
workers == <<pc, arg, batch>>
vars    == <<status, attempts, runAt, lockedBy, effects, now, pc, arg, batch>>

Statuses == {"absent", "pending", "running", "done", "failed"}
Args     == Kinds \cup {"poll", "all"}
PCs      == {"new", "idle", "claiming", "dispatching", "gone"}

\* _backoff: exponential, capped.
Backoff(a) == IF BackoffBase * 2^a < BackoffCap THEN BackoffBase * 2^a ELSE BackoffCap

ASSUME ConstantsAssumption ==
  /\ KindOf \in [Jobs -> Kinds]
  /\ Registered \subseteq Kinds
  /\ Recurring \subseteq Registered
  /\ {"poll", "all"} \cap Kinds = {}
  /\ Nobody \notin Workers
  /\ Limit \in Nat \ {0} /\ MaxAttempts \in Nat \ {0}
  /\ Interval \in Nat /\ MaxTime \in Nat
  /\ RollbackExpires \in BOOLEAN
ASSUME BackoffAssumption == \A a \in 1..MaxAttempts : Backoff(a) \in Nat

-----------------------------------------------------------------------------
Poller(w)   == arg[w] = "poll"
Wants(w, j) == arg[w] \in {"poll", "all"} \/ arg[w] = KindOf[j]

\* Mutants of Due: a claim that also takes running rows; one that forgets
\* retries.
Due_IncludesRunning(j) == status[j] \in {"pending", "running"} /\ runAt[j] <= now
Due_FirstAttemptOnly(j) == status[j] = "pending" /\ runAt[j] <= now /\ attempts[j] = 0

Due(j) == status[j] = "pending" /\ runAt[j] <= now
RowLocked(j) == \E w \in Workers : pc[w] = "claiming" /\ j \in batch[w]
Holds(w, j) == pc[w] = "dispatching" /\ j \in batch[w]

\* The job process_once reaches next: the batch is walked in run_at order.
NextOf(w) == {j \in batch[w] : \A k \in batch[w] : runAt[j] <= runAt[k]}

\* process_once has returned or raised: a poller sleeps, a --run-once process exits.
AfterPass(w) == IF Poller(w) THEN "idle" ELSE "gone"

Init ==
  /\ status = [j \in Jobs |-> "absent"]
  /\ attempts = [j \in Jobs |-> 0]
  /\ runAt = [j \in Jobs |-> 0]
  /\ lockedBy = [j \in Jobs |-> Nobody]
  /\ effects = [j \in Jobs |-> 0]
  /\ now = 0
  /\ pc = [w \in Workers |-> "new"]
  /\ arg = [w \in Workers |-> "poll"]
  /\ batch = [w \in Workers |-> {}]

-----------------------------------------------------------------------------
(* The clock, the producers and the operators of the worker processes.     *)

Tick ==
  /\ now < MaxTime
  /\ now' = now + 1
  /\ UNCHANGED <<table, workers>>

\* enqueue from a request or a seed script.  Nothing in the repository starts
\* a recurring chain: an operator inserts its first job, once.
Enqueue(j) ==
  /\ status[j] = "absent"
  /\ KindOf[j] \in Recurring =>
       \A k \in Jobs : KindOf[k] = KindOf[j] => status[k] = "absent"
  /\ status' = [status EXCEPT ![j] = "pending"]
  /\ runAt' = [runAt EXCEPT ![j] = now]
  /\ UNCHANGED <<attempts, lockedBy, effects, now, workers>>

\* python -m app.worker [--run-once [KIND]]
StartWorker(w) ==
  /\ pc[w] = "new"
  /\ pc' = [pc EXCEPT ![w] = "idle"]
  /\ \E a \in Args : arg' = [arg EXCEPT ![w] = a]
  /\ UNCHANGED <<table, now, batch>>

\* SIGINT or SIGTERM: the loop ends between two passes.
StopWorker(w) ==
  /\ pc[w] = "idle" /\ Poller(w)
  /\ pc' = [pc EXCEPT ![w] = "gone"]
  /\ UNCHANGED <<table, now, arg, batch>>

\* The process dies: its open transaction is rolled back, its batch forgotten.
Crash(w) ==
  /\ pc[w] \in {"idle", "claiming", "dispatching"}
  /\ pc' = [pc EXCEPT ![w] = "gone"]
  /\ batch' = [batch EXCEPT ![w] = {}]
  /\ UNCHANGED <<table, now, arg>>

\* An exception leaves process_once between two commits (a lost connection,
\* a failing COMMIT).  poll_loop prints it and polls again; the transaction is
\* rolled back and the rest of the batch is forgotten.
PassFails(w) ==
  /\ pc[w] \in {"claiming", "dispatching"}
  /\ pc' = [pc EXCEPT ![w] = AfterPass(w)]
  /\ batch' = [batch EXCEPT ![w] = {}]
  /\ UNCHANGED <<table, now, arg>>

-----------------------------------------------------------------------------
(* claim_due, inside the first transaction of process_once.                *)

\* Mutant of Claimable: a plain SELECT that neither locks nor skips.
Claimable_IgnoresLocks == {j \in Jobs : Due(j)}

Claimable == {j \in Jobs : Due(j) /\ ~RowLocked(j)}

\* SELECT ... ORDER BY run_at LIMIT n FOR UPDATE SKIP LOCKED
OldestUpTo(n, S) ==
  {T \in SUBSET S :
     /\ Cardinality(T) <= n
     /\ T = S \/ Cardinality(T) = n
     /\ \A j \in T, k \in S \ T : runAt[j] <= runAt[k]}

ClaimSelect(w) ==
  /\ pc[w] = "idle"
  /\ \E T \in OldestUpTo(Limit, Claimable) : batch' = [batch EXCEPT ![w] = T]
  /\ pc' = [pc EXCEPT ![w] = "claiming"]
  /\ UNCHANGED <<table, now, arg>>

ClaimCommit(w) ==
  /\ pc[w] = "claiming"
  /\ status' = [j \in Jobs |-> IF j \in batch[w] THEN "running" ELSE status[j]]
  /\ lockedBy' = [j \in Jobs |-> IF j \in batch[w] THEN w ELSE lockedBy[j]]
  /\ pc' = [pc EXCEPT ![w] = "dispatching"]
  /\ UNCHANGED <<attempts, runAt, effects, now, arg, batch>>

-----------------------------------------------------------------------------
(* The rest of process_once: one transaction per claimed job.              *)

\* Mutant of GivesUp: > instead of >=.
GivesUp_OffByOne(a) == a > MaxAttempts

GivesUp(a) == a >= MaxAttempts

\* mark_failed_or_retry and the commit after it.
FailOrRetry(w, j) ==
  /\ attempts' = [attempts EXCEPT ![j] = @ + 1]
  /\ lockedBy' = [lockedBy EXCEPT ![j] = Nobody]
  /\ IF GivesUp(attempts'[j])
     THEN /\ status' = [status EXCEPT ![j] = "failed"]
          /\ UNCHANGED runAt
     ELSE /\ status' = [status EXCEPT ![j] = "pending"]
          /\ runAt' = [runAt EXCEPT ![j] = now + Backoff(attempts'[j])]
  /\ batch' = [batch EXCEPT ![w] = @ \ {j}]
  /\ UNCHANGED <<effects, now, pc, arg>>

\* The job is of a kind this process was not asked for: the loop continues.
SkipJob(w) ==
  /\ pc[w] = "dispatching"
  /\ \E j \in NextOf(w) :
       /\ ~Wants(w, j)
       /\ batch' = [batch EXCEPT ![w] = @ \ {j}]
  /\ UNCHANGED <<table, now, pc, arg>>

RunUnregistered(w) ==
  /\ pc[w] = "dispatching"
  /\ \E j \in NextOf(w) :
       /\ Wants(w, j) /\ KindOf[j] \notin Registered
       /\ FailOrRetry(w, j)

\* The jobs a successful handler enqueues for its own chain: exactly one, of
\* its own kind, or none when the kind does not recur.  A chain that has used
\* up the ids the model gives it is followed no further (a bound).
SuccessorSets(j) ==
  LET free == {i \in Jobs : status[i] = "absent" /\ KindOf[i] = KindOf[j]}
  IN  IF KindOf[j] \in Recurring /\ free # {} THEN {{k} : k \in free} ELSE {{}}

\* The handler's writes, its reschedule_recurring and mark_done share a commit.
HandlerSucceeds(w) ==
  /\ pc[w] = "dispatching"
  /\ \E j \in NextOf(w) :
       /\ Wants(w, j) /\ KindOf[j] \in Registered
       /\ \E S \in SuccessorSets(j) :
            /\ status' = [k \in Jobs |-> IF k = j THEN "done"
                                         ELSE IF k \in S THEN "pending"
                                         ELSE status[k]]
            /\ runAt' = [k \in Jobs |-> IF k \in S THEN now + Interval ELSE runAt[k]]
       /\ lockedBy' = [lockedBy EXCEPT ![j] = Nobody]
       /\ effects' = [effects EXCEPT ![j] = @ + 1]
       /\ batch' = [batch EXCEPT ![w] = @ \ {j}]
  /\ UNCHANGED <<attempts, now, pc, arg>>

\* The handler's writes are rolled back.  The rollback expires the instance,
\* so reading job.id to re-fetch the row raises outside the async greenlet and
\* the exception leaves process_once before the failure is recorded.
HandlerRaises(w) ==
  /\ pc[w] = "dispatching"
  /\ \E j \in NextOf(w) :
       /\ Wants(w, j) /\ KindOf[j] \in Registered
       /\ IF RollbackExpires
          THEN /\ pc' = [pc EXCEPT ![w] = AfterPass(w)]
               /\ batch' = [batch EXCEPT ![w] = {}]
               /\ UNCHANGED <<table, now, arg>>
          ELSE FailOrRetry(w, j)

EndPass(w) ==
  /\ pc[w] = "dispatching" /\ batch[w] = {}
  /\ pc' = [pc EXCEPT ![w] = AfterPass(w)]
  /\ UNCHANGED <<table, now, arg, batch>>

-----------------------------------------------------------------------------
Dispatch(w) ==
  SkipJob(w) \/ RunUnregistered(w) \/ HandlerSucceeds(w) \/ HandlerRaises(w) \/ EndPass(w)

Next ==
  \/ Tick
  \/ \E j \in Jobs : Enqueue(j)
  \/ \E w \in Workers :
       \/ StartWorker(w) \/ StopWorker(w) \/ Crash(w) \/ PassFails(w)
       \/ ClaimSelect(w) \/ ClaimCommit(w) \/ Dispatch(w)

Spec == Init /\ [][Next]_vars

(***************************************************************************)
(* A live process keeps executing its loop, and a handler returns or       *)
(* raises: weak fairness.  The COMMIT of a claim that found rows may fail  *)
(* any number of times but not for ever: strong fairness.  Nothing is      *)
(* assumed of the clock, of the producers, of whoever starts and stops     *)
(* workers, nor of crashes.                                                *)
(***************************************************************************)
Fairness ==
  \A w \in Workers :
    /\ WF_vars(ClaimSelect(w) /\ Poller(w))
    /\ WF_vars(ClaimCommit(w))
    /\ SF_vars(ClaimCommit(w) /\ batch[w] # {})
    /\ WF_vars(Dispatch(w))

FairSpec == Spec /\ Fairness

-----------------------------------------------------------------------------
(* Properties.                                                             *)

\* The columns and the local state have the values the code can give them.
TypeOK ==
  /\ status \in [Jobs -> Statuses]
  /\ attempts \in [Jobs -> 0..MaxAttempts]
  /\ runAt \in [Jobs -> Nat]
  /\ lockedBy \in [Jobs -> Workers \cup {Nobody}]
  /\ effects \in [Jobs -> Nat]
  /\ now \in 0..MaxTime
  /\ pc \in [Workers -> PCs]
  /\ arg \in [Workers -> Args]
  /\ batch \in [Workers -> SUBSET Jobs]

\* SKIP LOCKED at work (queue.py:3-4 "multiple workers can run safely"): a job
\* is in the hands of one process at a time, and the row says which one.
OneRunner ==
  /\ \A v, w \in Workers : v # w => batch[v] \cap batch[w] = {}
  /\ \A w \in Workers : \A j \in batch[w] :
       pc[w] = "dispatching" => status[j] = "running" /\ lockedBy[j] = w

\* However many processes, retries, crashes and failed passes: the effects of
\* a job are committed at most once, and exactly when the job is done, because
\* _run_job commits the handler's writes together with mark_done.
EffectsOnce ==
  \A j \in Jobs : effects[j] = IF status[j] = "done" THEN 1 ELSE 0

\* mark_failed_or_retry gives a job up at its last attempt and only then.
FailedAtLimit ==
  \A j \in Jobs : status[j] = "failed" <=> attempts[j] = MaxAttempts

Live(j) == status[j] \in {"pending", "running"}

\* A self-perpetuating job never forks: retries, crashes and several workers
\* leave at most one live job in the chain (observe_source_handler).
OneLivePerChain ==
  \A j, k \in Jobs :
    /\ KindOf[j] = KindOf[k] /\ KindOf[j] \in Recurring
    /\ Live(j) /\ Live(k)
    => j = k

\* A running row that no live process is going to run.
Stranded(j) == status[j] = "running" /\ \A w \in Workers : ~Holds(w, j)

\* locked_at is written by claim_due and read by nobody: a row left behind by
\* a crash, a failed pass or a kind filter stays running under that name.
StrandedForever ==
  [][\A j \in Jobs : Stranded(j) =>
       status'[j] = "running" /\ lockedBy'[j] = lockedBy[j] /\ effects'[j] = effects[j]]_vars

\* The queue implements the life of a job that its callers rely on.
Lifecycle == INSTANCE JobLifecycle WITH phase <- status, tries <- attempts
LifecycleSpec == Lifecycle!Spec

NoPoller == \A w \in Workers : Poller(w) => pc[w] \in {"new", "gone"}

\* A due job is claimed as long as some polling process survives, whatever
\* else crashes or fails (claim_due, poll_loop's except clause).
DueGetsClaimed ==
  \A j \in Jobs :
    status[j] = "pending" /\ runAt[j] <= now ~> status[j] = "running" \/ NoPoller

(* What the documentation says of the program and the program does not do. *)

\* worker.py:8 "process due jobs of kind 'obs' once": a process asked for one
\* kind takes no job of another kind away from the other processes.
RunOnceKeepsToItsKind ==
  \A w \in Workers, j \in Jobs : status[j] = "running" /\ lockedBy[j] = w => Wants(w, j)

\* queue.py:4-5 "Failed jobs are rescheduled with exponential backoff until
\* max_attempts": a job whose handler raised is pending again, or failed.
RaisedIsRecorded ==
  [][\A w \in Workers : HandlerRaises(w) =>
       \E j \in NextOf(w) : status'[j] \in {"pending", "failed"}]_vars

\* integration/jobs.py:7-8 "re-enqueues its own next run ... after every
\* attempt": when a recurring handler returns or raises, a run is pending.
AttemptReschedules ==
  [][\A w \in Workers :
       HandlerRaises(w) \/ HandlerSucceeds(w) =>
         \A j \in Jobs :
           /\ NextOf(w) = {j} /\ KindOf[j] \in Recurring
           /\ \E k \in Jobs : KindOf[k] = KindOf[j] /\ status[k] = "absent"
           => \E k \in Jobs : KindOf[k] = KindOf[j] /\ status'[k] = "pending"]_vars
=============================================================================
