# Formal specifications of the SmartProcurement backend

TLA+ models of the parts of this backend whose correctness depends on the order in
which things happen, checked with TLC on small instances and, where it matters most,
proved with TLAPS for every value of the constants. Paths below are relative to the
repository (`src/app/...` is written without the prefix `src/`).

## 1. The system and its parts

The backend observes data sources, detects procurement risks and explains them with a
language model. A FastAPI application and any number of worker processes share one
PostgreSQL database. All communication between parts goes through its tables: API routes
write rows, jobs wait in the table `job`, handlers of jobs enqueue further jobs in their
own transaction. `app/core/db.py` fixes what "at the same time" means: isolation READ
COMMITTED (the PostgreSQL default), no autoflush, no expiry on commit. No row has a
version column, the only `FOR UPDATE` is in `claim_due`, and few invariants are backed
by a constraint. A transaction may thus decide on what it has read and write after
somebody else has committed, and SQLAlchemy's UPDATE contains only columns whose value
differs from the *loaded* one. Nearly all hazards listed in `PROJECT.json` come from
these two facts; the others from failures (crash, exception, rollback, lost model).

| Part | State | Operations | Talks to | Correct if |
|---|---|---|---|---|
| Job queue (`jobs/queue.py`) | table `job` | enqueue, claim_due, mark_done, mark_failed_or_retry, reschedule_recurring | every handler | no job is run by two processes, its effects are committed once, failures are retried up to the limit, a recurring chain never forks and never dies |
| Worker (`worker.py`) | its batch of claimed jobs | process_once, _run_job, poll_loop, `--run-once` | queue, handlers | claimed jobs are finished or put back; due jobs are claimed |
| Capability levels (`lorm/`) | `capability`, `promotion_request`, `capability_level_event` | propose, approve, reject | admin API | one step at a time, each request decided once, the L5 cap holds, events explain the level |
| Risk detection (`analysis/rules.py`, `analysis/jobs.py`) | `risk_finding`, `risk_evidence` | detect_risks | queue, aggregates | one open finding per condition, evidence linked once, explanation requested until there is one |
| AI explanation (`analysis/explain.py`) | `ai_status`, explanation of a finding | explain_risk | queue, model, gaps, audit | an explanation cites existing evidence only; a finding without one stays on somebody's list |
| Risks API (`api/routers/risks.py`) | status of a finding | dismiss, reads | UI | dismissed once, never reopened |
| Observability gaps (`observation/observability.py`) | `observability_gap` | open, close, counts | source checks, sync, model calls | at most one open gap per key, in step with the health of the source, closed on recovery |
| Field mappings (`integration/mapping_service.py`, `mapping_ai.py`) | `field_mapping`, `mapping_change_event` | create, suggest, confirm, bulk confirm, reject, retire, edit | admin API, model, sync | nothing is applied without a user, history tells the row, retired stays out of use |
| Sync (`integration/sync.py`, `integration/jobs.py`) | canonical entities, signals, health | sync_source, observe_source chain | connectors, mappings, gaps, queue | a master has one row, no row vanishes, a watched change asks for a recomputation, values are taken over in the end |
| Data sources (`integration/service.py`) | `data_source`, `source_field` | create, update, upload, check, introspect | connectors, gaps | health says what the last check found |
| Aggregates (`observation/aggregates.py`, `observation/jobs.py`) | `sku_aggregate` | recompute_aggregates, detect_risks follows | sync, queue, rules | one row per item, put right after every watched change, seen by the rules |
| Rules (`analysis/rules.py` 52-259) | none | six threshold rules | aggregates | a rule fires only if the stock really ends too early, and misses less than a day |
| Migrations (`alembic/`, `core/migrations.py`) | schema, `alembic_version` | upgrade, downgrade between any two revisions | all tables | a revision has one schema, commands go through, append-only rows stay |
| Structured model calls (`ai/structured.py`) | none | generate_structured | model, gaps, audit | an answer, or the fail-safe path once |
| Identity (`identity/`, `api/routers/auth.py`) | users, roles, refresh tokens | login, refresh, logout | all routes | a refresh token is used once |
| Read side (domain map, dashboard, audit, pagination) | none of its own | queries | UI | pages neither skip nor repeat |
| Policies, enterprise settings, seed, demo model | configuration | single writes, validation | operators | - |
| Decision, execution, verification | empty packages | - | - | - |

Hard behaviours: two workers or requests in one table (all parts), crash and rollback
between the two commits of a job (worker), recurring work that is enqueued by the run
before it, staleness between load and flush (promotion, mappings, health, `ai_status`),
check-then-insert without a constraint (findings, gaps, aggregates, suggestions), row
locks taken in request order (bulk confirmation, sync), a model that fails or invents,
aggregates that are older than the rows (only watched changes are followed), boundaries and
floors in the rules, migrations beside a running program.

## 2. Modules

| Module | Models | Abstract specification | Proofs |
|---|---|---|---|
| `JobQueue` | queue and workers | `JobLifecycle` | `JobQueueProofs` |
| `Promotion` | capability levels | `PromotionLadder` | `PromotionProofs` |
| `RiskPipeline` | detection, explanation, dismissal | `RiskRegister` | `RiskProofs` |
| `Observability` | gaps and the health of a source | - | `ObservabilityProofs` |
| `FieldMapping` | mapping lifecycle | `MappingLifecycle` | `FieldMappingProofs` |
| `SourceSync` | the upserts of a sync | `CanonicalRows` | `SourceSyncProofs` |
| `ObservationLoop` | syncs, recomputations and detection together | uses `CanonicalRows` | `ObservationLoopProofs` |
| `RiskRules` | the arithmetic of aggregates and rules | exact fractions | `RiskProofs` |
| `Migrations`, `Schema` | the revisions; the database under them | - | `SchemaProofs` |

The modules compose along the chain of jobs. `SourceSync` is shown to implement
`CanonicalRows`, and `ObservationLoop` takes the syncs as the commits that `CanonicalRows`
allows; what it calls a detection is a pass of `RiskPipeline`, whose conditions are the
ones `RiskRules` computes; that a job which raises or dies stays `running` is what
`JobQueue` shows.

`MC*` modules hold the constants of the TLC instances. In every model a transaction is a
session (or a worker) with a *program counter* and private copies of what it has read.
A SELECT is a step that copies committed state; writes become visible in one commit step;
a failure at any point ends the session and leaves the tables alone. So steps interleave
exactly where the code awaits the database, a connector or the model. `map` in
`PROJECT.json` gives the lines of every definition. Operators named `X_Something` before
a definition `X` are deliberate faults used to test that the properties can fail.

### JobQueue
One variable per column of `job` that control depends on (`status`, `attempts`, `runAt`,
`lockedBy`) and, per process, `pc`, `arg` (the command line) and `batch`. A pass is
`ClaimSelect` (row locks of due pending rows, SKIP LOCKED, oldest first, at most
`Limit`), `ClaimCommit` (running, locked by this worker), then per job `SkipJob` (kind filter of
`--run-once`), `RunUnregistered`, `HandlerSucceeds` (effects, follow-up job and *done* in
one transaction) or `HandlerRaises`, then `EndPass`. `Crash`, `StopWorker`, `StartWorker`
and `PassFails` may happen between any two steps. `RollbackExpires` is TRUE for the code
as it is: after `session.rollback()` the `job` object is expired, reading `job.id` outside
the greenlet raises, and nothing is recorded. With FALSE the model shows what the
retry code would do once it is reached. `effects` is a history variable: how often the
effects of a job were committed.

### Promotion
One capability. `ProposeRead/Commit`, `ApproveReadRequest`, `ApproveReadCapability`,
`ApproveCommit`, `RejectRead/Commit` are the SELECTs and commits of the three routes;
`ValidTarget` is `_validate_target`. `events` is `capability_level_event` in commit order.
The history variable `overlap` remembers that two requests have been open at the same
time. The code promises some properties only while that has not happened; they are stated
as `~overlap => ...`, so that one instance checks both what survives concurrency and what
does not. `Observability` and `FieldMapping` use the same device.

### RiskPipeline
A *condition* is what a rule may find (type, item, supplier). Which conditions hold and
what can be cited (`observed`) are inputs that syncs change. Signals are append-only; the
purchase orders that the explanation of a delayed supplier cites are rows a later sync
overwrites (`OrderOverwritten`), so that evidence may be gone when the model answers. The
history variable `ever` keeps what was evidence at some time. A pass is made for each
`detect_risks` job that waits (`passes`). `PassRequested` is the recomputation that
enqueues one; nothing obliges it to come, since first rows, orders and consumptions
request no recomputation. `StartPass` takes a waiting job and the conditions of the moment;
per condition `Find` or `FindRaises` (the lookup raises when two open findings match), then
`Apply` (insert or link new evidence, then decide on an explanation job); `CommitPass` publishes. `StartExplain`, `Explained`, `Unavailable` are
the explanation handler with the model's answer chosen freely, and
`DismissRead/DismissCommit` a user. The job table is reduced to counts per finding, which
is all the code asks of it: `queued` (waiting or claimed and unreached) and `stuck`
(stranded as running, which `JobQueue` shows to happen). A pass that is lost leaves nothing
that anybody counts (`PassLost`).

### Observability
One source and one capability. A session is `check_connection`, `sync_source` or the
fail-safe path of a model call: `Begin` loads the source, `Asked` gets the answer of the
outside, `LookUp` (or `LookUpRaises`) searches an open gap, `Commit` writes. `SyncFails` is
the failing sync, whose writes its caller rolls back.

### FieldMapping
`row[m]` is a mapping, `history[m]` its change events. `LoadRows` is the load and
eligibility test of confirm, bulk confirm, reject, retire and edit; `LoadNew` the search
for duplicates among suggestions (`create_mapping` makes none); `Flush` takes the row lock
of one mapping; `CommitRows` and `CommitNew` publish. `Updated` is the changed-column
UPDATE: a column goes to the row only if the session changed it relative to what it
loaded. `DeadlockVictim` is PostgreSQL aborting a member of a cycle of waiting sessions. The
order of flushes inside a request is left open, as the order of ids in the request is.

### SourceSync
A *key* is an identity of `_IDENTITY`; `rows[k][r]` is the row of `k` that session `r`
inserted, so that two rows of one key can be told apart. `waits` holds the sources whose
`observe_source` job waits: only `CommitSync` puts it back, so that a run that raises or
dies ends the chain of its source (as `queue_raise` shows of the worker), `JobLost` ends it
before it began, and only an operator (`JobInserted`) starts it again. A session is one `sync_source`:
`StartSync` claims the job and fetches the batch, then per record, in the order of `_ENTITY_ORDER`, `Resolve`
or `SkipRecord` (`_resolve_refs`: a required master must be known; an unknown warehouse is
dropped, and `Landing` is then the identity with NULL), `Select` (`scalar_one_or_none`),
`Insert` or `Update` with `_diff_signal`, and `CommitSync`, which enqueues the
recomputation. Flushed rows are locked until the end (`WaitsFor`), unique constraints make
an insert wait and then fail (`Taken`), two matching rows, a NULL in a required column or a
lost deadlock raise (`SyncRaises`), and a process may die (`SyncDies`). One attribute per key
stands for all; that of a quality record may be NULL, so that what does not parse is
written and signalled there. What a source reports may change at any time, and may not parse.

### ObservationLoop
`StartRecompute` takes a job; per item `ReadStock`, `ReadInputs`, `SelectAggregate`,
`FlushAggregate`; `CommitRecompute` publishes and asks for `detect_risks`, of which `Detect`
is the SELECT of all aggregates. The model keeps, instead of the computed columns, the
input rows they were computed from: an aggregate is *outdated* when one of those has
another value now. `raced` and `lost` remember the items whose aggregate two overlapping
recomputations wrote and those whose job was lost; properties are stated for the others.

### RiskRules
Sequential: rows are reported (`Report`), an aggregate is computed (`Recompute`), time
passes (`Tick`). A quality record keeps its identity (item, supplier, day): a later report
overwrites its rate, and a rate may be missing. Numbers are integers: a time is a count of ticks, a Numeric column a count
of its smallest unit, and `Rounded` is the rounding PostgreSQL does. A rule is an operator
whose value is the severity, 0 if it does not fire. The invariants compare it with the exact
fraction: the day on which the stock really ends. Stocks and consumptions may be negative,
which no column excludes: a consumption that is not positive gives no cover
(`observation/aggregates.py:70-74`), and under a negative stock a delivery that comes within
the day is not reported, so that `MissesLessThanADay` asks for one that is a day away. The
names that `RiskPipeline` has, too, begin with `Rules` here, so that `RiskProofs` can
extend both.

### Migrations and Schema
`Migrations` lists the operations of every `upgrade()` and `downgrade()` in order. `Schema`
performs them one by one inside the transaction of a command (`MigrationStep`), refuses
what PostgreSQL refuses (`Refused`), and commits, fails or is killed, while the program
writes rows and an operator deletes them in tables the command has not locked.

The scripts are constants of `Schema`; `MCSchema` gives it those of `Migrations`. What must
hold of the scripts alone is assumed there: every operation finds what it needs and a
downgrade leads back (`ScriptsAssumption`), the guarded tables are the append-only ones
(`GuardAssumption`), only head knows findings and admits dismissals
(`DismissalAssumption`). TLC evaluates these assumptions on the five revisions whenever it
runs `schema`: a script that forgets a constraint, or drops tables in the wrong order,
makes the run fail before the first state. What is left to the invariants is what rows,
failures and other sessions add.

## 3. Runs

Runs that must pass:

| Run | Shows | Instance |
|---|---|---|
| `queue` | the queue implements `JobLifecycle`: no double run, no double effect, no forked chain; a stranded row is never touched again; a due job is claimed while a poller lives | 3 jobs (a chain of two, an unregistered one), 2 processes of any command line, 2 attempts, faults, clock to 2; 246 703 states |
| `promotion` | the cap holds and events explain the level in every interleaving; while no two requests overlapped the service implements `PromotionLadder` | 4 requests, 2 sessions, capped, from L2; 452 688 states |
| `risk_workers` | no finding is forgotten without a trace; an explanation cites only what was evidence of its finding | 2 workers, 2 findings of a condition whose evidence is orders that get overwritten, a dismissal, faults; 226 760 states |
| `risk_serial` | one worker implements `RiskRegister`; one live job; evidence linked once; nothing cited that belongs to the other condition | a condition with linked signals and one that rests on an order, 3 findings, faults; 3 535 424 states |
| `risk_calm` | a condition that holds while a pass waits is found; every finding gets an answer, and is explained in the end if passes keep being requested | 1 worker, no faults, passes only as requested; 7 168 states |
| `gaps` | duplicated gaps are for ever; without overlap there is one gap per key and the health is in step; a source that stays up has its gap closed, unless it was duplicated | 2 sessions of every kind, 3 gap rows; 149 764 states |
| `mapping` | nothing is confirmed without a user's event; only bulk confirmations deadlock, and each is answered; without overlap the history tells the row, the confirmer fits and the service implements `MappingLifecycle` | 2 sessions, 2 users, 2 mappings, 2 targets, 3 requests of any kind; 69 064 states |
| `sync` | a master has one row; a sync implements `CanonicalRows`; a watched value is taken over as long as the chain of its source goes on | 2 sources, 2 sessions, an item, a warehouse only one source knows, its stock with and without warehouse, a quality record, garbage, one crash, chains that end; 256 104 states |
| `loop` | an aggregate made wrong by a watched change is being put right; an item has one aggregate; the rules read what is right in the end; each unless recomputations overlapped or jobs were lost | 2 workers, an item with two inputs, 3 commits of syncs, lost jobs; 143 544 states |
| `rules` | a rule fires only if the stock ends before every open order or demand; floors and rounding hide less than a day; waiting only calms | all sequences of 4 reported rows and 5 ticks (two a day), 3 orders, 2 prices, 2 quality records; 2 491 758 states |
| `schema` | a revision has one schema however it was reached; only an audited dismissal stops a migration; append-only rows stay | all five revisions up and down, rows in ten tables, failing and killed commands; 57 084 states |

Run that shows a disagreement between the code and what it says of itself (a finding in
`PROJECT.json` with the quoted line): `queue_raise`, where a job whose handler raised is
neither retried nor failed.

### Refuted properties stated in the modules

These definitions say what one would expect of the code and the code does not do. They
have no run of their own. Added to the named configuration (without its `SYMMETRY`) as an
invariant, or as a PROPERTY where marked P, TLC gives the counterexample described.

| Definition | Add to | What happens |
|---|---|---|
| `JobQueue!RunOnceKeepsToItsKind` | `queue_raise.cfg` | `--run-once KIND` claims jobs of every kind and leaves the others running for ever |
| `JobQueue!AttemptReschedules` (P) | `queue.cfg` | a failed `observe_source` attempt leaves no next run: the source is never synced again |
| `Promotion!DecidedOnce` | `promotion.cfg` | two overlapping decisions of one request both succeed |
| `Promotion!ExactlyOneLevel` (P) | `promotion.cfg` | a late approval lowers a level that has moved on |
| `RiskPipeline!OneOpenPerCondition` | `risk_workers.cfg` | two passes insert a finding for one condition; every later pass raises |
| `RiskPipeline!EnqueuedOnlyUnlessReady` (P) | `risk_workers.cfg` | a finding that is ready gets another explanation job |
| `RiskPipeline!RetriedByNextPass` (P) | `risk_workers.cfg` | a stranded job keeps later passes from asking for an explanation |
| `RiskPipeline!FoundUnasked` (P) | `risk_calm.cfg` | a condition holds for ever and no pass is requested |
| `RiskPipeline!RetriedUnasked` (P) | `risk_calm.cfg` | a failed explanation is asked for again only by a pass that nothing requests |
| `RiskPipeline!CitedIsShown` | `risk_workers.cfg` | an order is overwritten after it was cited, and the finding no longer shows it |
| `RiskPipeline!DismissedOnce` (P) | `risk_workers.cfg`, `Requests = {r1, r2}` | two overlapping dismissals both succeed |
| `Observability!HealthFits` | `gaps.cfg` | two overlapping checks leave a healthy source with an open gap, or the reverse |
| `Observability!CapabilityGapCloses` (P) | `gaps.cfg` | no code closes an `ai_unavailable` gap |
| `Observability!FailedSyncIsRecorded` (P) | `gaps.cfg` | the failure a sync records is rolled back |
| `FieldMapping!RetiredIsNotConfirmed` (P) | `mapping.cfg` | a retired mapping is confirmed |
| `FieldMapping!BulkLeavesConfirmedAlone` (P) | `mapping.cfg` | a bulk request overwrites somebody's confirmation |
| `FieldMapping!RetiredAfterConfirmed` (P) | `mapping.cfg` | a mapping that was never confirmed is retired |
| `FieldMapping!HistoryIsWhole` | `mapping.cfg` | overlapping requests leave a last event that does not tell the row |
| `FieldMapping!SuggestedOnce` (P) | `mapping.cfg` | two overlapping suggestions insert two rows for one target |
| `SourceSync!ChainsGoOn` (P) | `sync.cfg` | a sync that raises, dies or is lost is the last one of its source |
| `SourceSync!OneRowPerKey` | `sync.cfg` | two syncs insert the same stock or quality record, and every later sync of it raises |
| `ObservationLoop!AggregateIsSingle` | `loop.cfg` | two overlapping recomputations insert two aggregates of an item |
| `ObservationLoop!AggregateExists` | `loop.cfg` | the rows a first sync inserts are no signals: no aggregate is computed |
| `ObservationLoop!FollowsAllInputs` | `loop.cfg` | a row that the aggregate was computed without appears, and nothing is recomputed |
| `RiskRules!OverdueOrdersHideNothing` | `rules.cfg` | an overdue open order hides a later delivery that comes too late |
| `RiskRules!PastDemandsHideNothing` | `rules.cfg` | a demand of the past hides the ones to come |
| `Schema!DowngradeAlwaysPossible` | `schema.cfg` | head cannot be left once a dismissal was audited |
| `Schema!ForeignKeysHonoured` | `schema.cfg` | the guard refuses what ON DELETE CASCADE or SET NULL of an append-only table asks for |

### Bounds
Two sessions or workers are enough for the races: each conflict found is between one
transaction that read and one that committed since, and no operation waits for a third.
The theorems below remove the bound for what holds. Two ids per condition give a
duplicate or a recurrence; four requests give two steps up, a competitor and a refusal; two
mappings give a lock cycle. `Limit`, `MaxAttempts`, the back-off and the interval are small
numbers that reach "batch full", "last attempt", "capped" and "due again" inside `MaxTime`.
`MaxRequests` bounds the transactions of a `FieldMapping` run: a suggestion of both rows
and two competitors. `MaxPasses = 1` is enough, as a pass that was requested and not
begun takes in whatever a second one would. In `sync` one record names a warehouse that
the other source knows, so that its row moves from one identity to another, and two records
come from both sources without a master in common, so that their inserts race; `MaxCrashes` is 1 because a crash only
undoes a transaction. `MaxSyncs = 3` lets a value change while it is read and again
after it was committed. One item is enough there for every race, as workers
interfere through one item; the deadlock of two recomputations
takes two items (`RecomputeDeadlocked`) and is left to the proofs. `rules` reaches every
severity of the three relational rules and of the delayed supplier; for prices and defects,
which no property but the shared helpers is about, only the highest. Two quality records
and a rate that may be missing or overwritten are there for the average. `MaxReports = 4` is
what a delayed supplier takes (three orders) and one more. `schema` keeps one row per
table and kind, which is what a foreign key, a trigger and a CHECK look at. `CHECK_DEADLOCK FALSE` is set where the instance
runs out of ids, time or requests, which ends the behaviour without an error of the system.
Symmetry is used in `promotion` and `risk_workers`, which have no liveness property.

### Fairness
- `queue`: a live process goes on with its loop (weak fairness of claim and
  dispatch); the COMMIT of a claim that found rows may fail any number of times but not
  for ever (strong fairness). Crashes, restarts, producers and the clock are free.
- `risk_calm`: the undisturbed system, with faults left out; handlers end, jobs are claimed
  in `run_at` order so that none is passed over for ever, and a model that is asked again and
  again answers usefully now and then. That passes are requested is *not* assumed: only a
  recomputation asks for one (`observation/jobs.py:29`), and a sync asks for a recomputation
  only when a watched attribute of a row it knew has changed (`integration/sync.py:222`).
  `Detected` starts from a pass that waits, and only the second half of
  `ExplainedInTheEnd` supposes that such passes keep coming. What is not so without them is
  in `FoundUnasked` and `RetriedUnasked`, which TLC refutes.
- `gaps`: a transaction that has begun goes on (weak fairness of `Proceed`), and the
  operators test the connection again and again, with not every test cut short at the same
  point (strong fairness of the steps of "check"). Nothing is assumed of syncs, of
  explanations or of requests that are abandoned. The answers of the source stay free:
  the property asks about a source that stays up.
- `mapping`: a free row lock is taken, a flushed transaction commits, and the database
  breaks a deadlock (its detector runs after `deadlock_timeout`).
- `sync`: a session that has begun goes on (strong fairness of `SyncStep`: PostgreSQL serves
  those that wait for a lock in turn), and an `observe_source` job that waits is claimed
  (strong fairness of `StartSync`; `DueGetsClaimed`). A chain that has ended is not assumed
  to start again: a job that raised or was lost stays `running` and enqueues no next run
  (`queue_raise`, `integration/jobs.py:46-56`). `Settles` therefore speaks of a source whose
  chain goes on (`Alive`), and `ChainsGoOn` states what does not hold.
- `loop`: a waiting job is claimed (weak fairness, from `DueGetsClaimed`), a recomputation
  goes on (strong fairness, as its flush may have to wait for a row lock), and syncs, losses
  and crashes are free.

## 4. Proofs

All theorems hold for every value of the constants under the named ASSUMEs of the module.
Safety theorems rest on an inductive invariant `IInv` (initially true, kept by each action,
at least as strong as the property). Theorems about properties of the form `~overlap => P`
rest on a second invariant `~overlap => ...` that adds what holds while one transaction is
open at a time: no other session can commit between a read and the write that follows it,
so what a session has read is still what the tables hold when it commits. `RiskPipeline` has no
such history; there the serial theorems assume at most one worker (`OneWorker`), or one
worker and one dismissal (`Serial`), and hold of any number of findings, conditions and signals.

The library's induction theorems take an operator, which the installed provers cannot
instantiate. Where a definition is recursive (sums over a set of orders, the schemas a script
passes through) the proofs argue by least counterexample instead: the set of arguments
where the claim fails, if not empty, has a minimal element (`WFMin` with the order of the
numbers or of the finite subsets), and that element is no counterexample (`UpTo`,
`SmallestSubset`). The same argument shows that the recursive function exists
(`Iterates`, `SumsExist`) and that the equation it is defined by holds.

- `JobQueueProofs`: `TypeCorrect`, `OneRunnerHolds`, `EffectsAtMostOnce`,
  `FailedExactlyAtLimit` (a bound no run spends a property on), `ChainsNeverFork`, `StrandedRowsStayStranded` and the refinement
  `QueueImplementsLifecycle`. The properties are not inductive: one must know that a batch
  holds pending rows while claiming and rows that are running in the name of this process
  while dispatching (`BatchRows`), and that batches are disjoint, which is what SKIP LOCKED
  contributes.
- `PromotionProofs`: `CapHolds` and `AuditTrailExplainsLevel` for any number of concurrent
  sessions. The invariant says what a session remembers of the request it works on and that
  targets never change after the insert, so that a stale approval still cannot pass the
  cap. `ServiceClimbsLadder` is the refinement of `PromotionLadder` as long as no two
  requests overlapped.
- `RiskProofs`, on `RiskPipeline`: `TypeCorrect`, `FindingsAreNeverForgotten`,
  `ExplanationsAreGrounded` for any number of workers. What a worker has inserted but not
  committed is private to it and asked for in the same transaction (`FoundIsPrivate`,
  `FoundIsAskedFor`). Groundedness is stated against `Grounds`, what has been evidence of
  the finding at some time: the links of a linked condition, which stay, and for a delayed
  supplier the orders that matched it when somebody looked, which may have been overwritten
  before the model answered. An explainer holds a copy of evidence that is in `Grounds`,
  and `Grounds` never shrinks, because what is observed enters `ever` in the same step
  (`EverObserved`, `EverStep`).
  With one worker: `OneWorkerLinksOnce`, since what a pass has buffered is not linked yet
  and nobody else links (`LInv`); with one dismissal as well `SerialJobsDoNotPileUp` and
  the refinement `SerialImplementsRegister`.
- `RiskProofs`, on `RiskRules`: `RulesTypeCorrect`, `RulesFireRightly`, `RulesMissLittle` and
  `RulesCalmDown` for every scale of the columns, every length of a day and every set of rows.
  They rest on three facts of integer arithmetic (`Times`, `Floor`, `FloorBelow`), on what a
  stored quotient says against a whole number of days (`RoundedBelow`), on the
  minimum of a finite set (`MinOfFinite`), and, for the supplier, on sums whose terms are
  rounded down (`FlooredSums`).
- `ObservabilityProofs`: `TypeCorrect` and `DuplicatesAreForever` for any number of sessions
  in any interleaving; `GapsAreUnique` and `HealthFollowsGap` without overlap. What a
  session found is current (`ReadIsCurrent`), so that it inserts only what is missing.
- `FieldMappingProofs`: `TypeCorrect`, `NothingIsAppliedAutomatically` and
  `OnlyBulkConfirmsDeadlock` in any interleaving; `HistoryIsComplete`, `ConfirmerMatches` and
  the refinement `ImplementsLifecycle` without overlap. The invariant ties the private
  copies of a session to rows that exist (`LocalOK`); the second one (`UInv`) says that a copy is
  current and that what was decided on it still holds (`ReadIsCurrent`, `Decided`).

- `SourceSyncProofs`: `TypeCorrect`, `MastersAreUnique` and `SyncImplementsCanonicalRows`
  for any number of sources and sessions. A unique key has one *slot* (`OneSlot`): a row that
  is committed or being inserted keeps everybody else from inserting, because an insert waits
  for the first and fails on the second. For the refinement, a session that inserts has
  neither a row nor a lock there (`FreshInsert`), and every column it has written belongs to a
  row it holds and, if that row was there before, to an item it has noted (`ChangeNoted`).
- `ObservationLoopProofs`: `TypeCorrect`, `RulesKeepUp`, `AggregatesFollowSignals` and
  `AggregatesAreSingle` for any number of workers and items. Freshness is not inductive: one
  must know that a worker that was alone and has read outdated rows will not have the last
  word, as another job waits for the item (`Covered`); that a job which finds no stock and
  leaves silently is not the one an aggregate waits for (`Stocked`, since rows do not
  vanish: here `CanonicalRows` is used); and that nobody inserted an aggregate behind the
  back of a worker that was alone (`SoleRow`, `Together`).

- `SchemaProofs`: `TypeCorrect`, `RevisionsHaveOneSchema`, `AppendOnlyTablesOnlyGrow` and
  `OnlyDismissalsGetInTheWay`, for all scripts that fulfil the assumptions, all kept tables and
  goals. A command's copy of the schema is the one its operations lead to from the
  revision it is at (`RInv`), so that a commit can only publish `Built[rev]`. That nothing but
  a dismissal stops a command needs the rows too: a dismissal is written only where
  findings are known, which is at head, and there its CHECK admits it, so that the one
  operation a row can contradict is met on the way down from head (`DInv`).

Every invariant and every action property of the runs is proved. Only model-checked are the
liveness properties (`DueGetsClaimed`, `Detected`, `ExplainedInTheEnd`, `SourceGapCloses`,
`EveryRequestAnswered`, `Settles`, `CatchesUp`: fairness and ENABLED are beyond the prover),
that the five revisions fulfil the assumptions of `Schema` (data that TLC goes through
completely), and of course the violations, which are counterexamples.

## 5. What is not modelled

- Time is a small counter in `JobQueue` and absent elsewhere; texts, payloads, explanations
  and identifiers are ids; audit records are part of their transaction and not counted.
- Connectors, the model service and the operating system are free inputs.
- One source, one capability, one source field: no operation relates two, apart from a
  bulk request with foreign ids, which it only reports.
- `confirmed_at` goes with `confirmed_by`; `ai_confidence` is never changed.
- `SourceSync`: the transforms and the parsing of dates and numbers are in the choice of
  reports (a value, one that does not parse, none). Of the writes of a sync, signals are
  told by the items they touch, and health and gap are in `Observability`.
- `ObservationLoop`: a deletion of canonical rows is not possible, as no code makes one.
- `RiskRules`: Python's 28 digits of a quotient before the column rounds it; the test for
  observability `lost`, which no code ever writes; `avg_supplier_delay_days`, which no rule
  reads, and `last_price`, which is only shown. One supplier and one item per instance.
- `Migrations`: plain columns, indexes and unique constraints; two alembic commands at once.
- `Schema`: the program's writes are single steps, so that a command waits for no lock. A
  downgrade that deadlocks with a dismissal in flight (`api/routers/risks.py:181-192`
  against the drops of `ee988845269c:309,335-338`) and is aborted for it is only one more
  `KillMigration`; `OnlyDismissalsStopMigrations` is about commands that the rows stop.
  TRUNCATE, which a row trigger does not see, is not among the statements of `AppendOnlyRowsStay`.
- The attempts of a model call (`ai/structured.py`), the rotation of refresh tokens
  (`identity/security.py`), pagination, and the single writes of data source administration:
  see the plan.
- Connectors, configuration, the vendored policy validator, the demo model, the domain map,
  the dashboard and the seed have no state of their own, or no order that matters.

## 6. Plan

The most important behaviour first; items 1 to 9 are done.

1. `JobQueue` / `JobLifecycle`: the mechanism all background work relies on.
2. `Promotion` / `PromotionLadder`: the control that humans keep over autonomy.
3. `RiskPipeline` / `RiskRegister`: the product's main chain.
4. `Observability`: whether the system knows what it does not see.
5. `FieldMapping` / `MappingLifecycle`: what enters the system at all.
6. `SourceSync` / `CanonicalRows`: how rows follow the sources.
7. `ObservationLoop`: whether aggregates and rules catch up with the rows.
8. `RiskRules`: what the thresholds decide, against exact arithmetic.
9. `Migrations`, `Schema`: the database under upgrade and downgrade.
10. `StructuredOutput`: attempts, timeouts and pauses of a model call, the fail-safe path
    exactly once.
11. `RefreshTokens`, `Pagination`: rotation under two refreshes; pages under inserts.
12. More proofs: the abstract specifications keep what they promise by themselves; the steps
    that liveness rests on (what a fair action leads to), as far as they are safety.
