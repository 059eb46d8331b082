-------------------------- MODULE ObservationLoop --------------------------
(***************************************************************************)
(* The observation loop: syncs change canonical rows and enqueue           *)
(* recompute_aggregates (app/observation/jobs.py, aggregates.py), which    *)
(* derives sku_aggregate rows from them and enqueues detect_risks, which   *)
(* reads these.  A worker process runs one job at a time; the workers      *)
(* share the database at READ COMMITTED.  Of a sync the module takes what  *)
(* SourceSync is shown to implement: the commits of CanonicalRows.         *)
(*                                                                         *)
(* The columns of an aggregate row are a function of the input rows of its *)
(* item: the model keeps the inputs they were computed from.  A job that   *)
(* waits is its payload.  One that raises, or is in the batch of a process *)
(* that dies or loses its batch, stays 'running' for ever (JobQueue): lost. *)
(***************************************************************************)
EXTENDS Integers, FiniteSets

CONSTANTS
  Workers, RowIds, Keys, ItemKey, Watched, Values, Absent, None,  \* as in CanonicalRows
  Stock,  \* the keys of stock_level: without a row of these, no aggregate
  Others, \* the other keys an aggregate is computed from
  MaxSyncs \* bound: how many commits of syncs an instance has

VARIABLES
  rows, due, \* the canonical rows; recompute_aggregates jobs that wait
  agg,       \* agg[i][r]: the aggregate row of i that session r inserted
  detectDue, \* a detect_risks job waits
  seen,      \* the aggregate rows as detect_risks last read them
  phase,     \* phase[w]: what w does in a recompute_aggregates job
  payload, todo, \* the item_ids of its job, and those it has yet to take
  item, snap,\* the item in hand and its inputs as w has read them
  found,     \* existing (None: an insert), as w loaded it
  written,   \* written[w][i]: the row of i that w has flushed, None if none
  content,   \* content[w][i]: what it has flushed there
  overlapped,\* history: transactions that recomputed an item together with another
  raced,     \* history: items whose aggregate was last written by one of these
  lost,      \* history: items of recompute jobs that will never be done
  blind,     \* history: a detect_risks job was lost, and none has run since
  syncs      \* how many syncs have committed

table      == <<rows, due>>
aggregates == <<agg, detectDue, seen>>
recompute  == <<phase, payload, todo, item, snap, found, written, content, overlapped>>
history    == <<raced, lost, blind>>
vars       == <<table, aggregates, recompute, history, syncs>>

Canonical == INSTANCE CanonicalRows
Items == Canonical!Items

Inputs(i) == {k \in Stock \cup Others : ItemKey[k] = i}

ASSUME LoopAssumption ==
  /\ Stock \cap Others = {} /\ Stock \cup Others \subseteq Keys
  /\ Watched \subseteq Keys /\ \A k \in Stock \cup Others : ItemKey[k] # None
  /\ Absent \notin Values /\ None \notin Workers /\ MaxSyncs \in Nat
  /\ Absent \notin [Keys -> Canonical!RowSets]

NoRows   == [r \in RowIds |-> Absent]
NoInputs == [k \in Keys |-> NoRows]

Init ==
  /\ Canonical!Init
  /\ agg = [i \in Items |-> [r \in Workers |-> Absent]]
  /\ seen = agg /\ detectDue = FALSE
  /\ phase = [w \in Workers |-> "idle"]
  /\ payload = [w \in Workers |-> {}] /\ todo = [w \in Workers |-> {}]
  /\ item = [w \in Workers |-> None]
  /\ snap = [w \in Workers |-> NoInputs]
  /\ found = [w \in Workers |-> None]
  /\ written = [w \in Workers |-> [i \in Items |-> None]]
  /\ content = [w \in Workers |-> [i \in Items |-> NoInputs]]
  /\ overlapped = {} /\ raced = {} /\ lost = {} /\ blind = FALSE
  /\ syncs = 0

EndRecompute(w) ==
  /\ phase' = [phase EXCEPT ![w] = "idle"]
  /\ payload' = [payload EXCEPT ![w] = {}] /\ todo' = [todo EXCEPT ![w] = {}]
  /\ item' = [item EXCEPT ![w] = None]
  /\ snap' = [snap EXCEPT ![w] = NoInputs]
  /\ found' = [found EXCEPT ![w] = None]
  /\ written' = [written EXCEPT ![w] = [i \in Items |-> None]]
  /\ content' = [content EXCEPT ![w] = [i \in Items |-> NoInputs]]
  /\ overlapped' = overlapped \ {w}

\* recompute_aggregates_handler; no item_ids would mean all items, but sync_source
\* is the only one to enqueue the job, and it names them.
StartRecompute(w, is) ==
  /\ phase[w] = "idle" /\ is \in due
  /\ due' = due \ {is}
  /\ phase' = [phase EXCEPT ![w] = "next"]
  /\ payload' = [payload EXCEPT ![w] = is]
  /\ todo' = [todo EXCEPT ![w] = is]
  /\ UNCHANGED <<rows, aggregates, item, snap, found, written, content,
                 overlapped, history, syncs>>

\* Its session has read inputs of i, or has yet to commit what it wrote.
WorksOn(w, i) == item[w] = i \/ written[w][i] # None

\* _recompute_one: the stock rows; without any, nothing is written.
ReadStock(w, i) ==
  /\ phase[w] = "next" /\ i \in todo[w]
  /\ todo' = [todo EXCEPT ![w] = @ \ {i}]
  /\ IF \A k \in Stock : ItemKey[k] = i => rows[k] = NoRows
     THEN UNCHANGED <<phase, item, snap, overlapped>>
     ELSE /\ phase' = [phase EXCEPT ![w] = "inputs"]
          /\ item' = [item EXCEPT ![w] = i]
          /\ snap' = [snap EXCEPT ![w] =
                        [k \in Keys |-> IF k \in Stock /\ ItemKey[k] = i THEN rows[k] ELSE NoRows]]
          /\ LET others == {v \in Workers \ {w} : WorksOn(v, i)} IN
               overlapped' = IF others = {} THEN overlapped
                             ELSE overlapped \cup others \cup {w}
  /\ UNCHANGED <<table, aggregates, payload, found, written, content, history, syncs>>

\* Consumption, deliveries, prices, delays: read after the stock.
ReadInputs(w) ==
  /\ phase[w] = "inputs"
  /\ snap' = [snap EXCEPT ![w] = [k \in Keys |-> IF k \in Others /\ ItemKey[k] = item[w]
                                                 THEN rows[k] ELSE @[k]]]
  /\ phase' = [phase EXCEPT ![w] = "select"]
  /\ UNCHANGED <<table, aggregates, payload, todo, item, found, written, content,
                 overlapped, history, syncs>>

AggRows(i) == {r \in Workers : agg[i][r] # Absent}

\* Mutant of Existing: warehouse_id is compared with NULL by "=".
Existing_EqualsNull(i) == {}

\* The rows that the lookup of the aggregate of i returns.
Existing(i) == AggRows(i)

\* _upsert_aggregate: scalar_one_or_none, then the insert or the update.
SelectAggregate(w) ==
  /\ phase[w] = "select"
  /\ \/ Existing(item[w]) = {} /\ UNCHANGED found
     \/ \E r \in Workers : Existing(item[w]) = {r} /\ found' = [found EXCEPT ![w] = r]
  /\ phase' = [phase EXCEPT ![w] = "flush"]
  /\ UNCHANGED <<table, aggregates, payload, todo, item, snap, written, content,
                 overlapped, history, syncs>>

RowLockedBy(w) ==
  IF phase[w] # "flush" \/ found[w] = None THEN {}
  ELSE {v \in Workers \ {w} : written[v][item[w]] = found[w]}

\* Mutant of Computed: an existing row keeps its values.
Computed_FirstOnly(w) ==
  IF found[w] = None THEN snap[w] ELSE agg[item[w]][found[w]]

Computed(w) == snap[w]

FlushAggregate(w) ==
  /\ phase[w] = "flush" /\ RowLockedBy(w) = {}
  /\ written' = [written EXCEPT ![w][item[w]] = IF found[w] = None THEN w ELSE found[w]]
  /\ content' = [content EXCEPT ![w][item[w]] = Computed(w)]
  /\ item' = [item EXCEPT ![w] = None]
  /\ snap' = [snap EXCEPT ![w] = NoInputs]
  /\ found' = [found EXCEPT ![w] = None]
  /\ phase' = [phase EXCEPT ![w] = "next"]
  /\ UNCHANGED <<table, aggregates, payload, todo, overlapped, history, syncs>>

\* Mutant of RequestsDetect: only for a new aggregate.
RequestsDetect_OnInsert(w) == \E i \in Items : written[w][i] = w

RequestsDetect(w) == TRUE

CommitRecompute(w) ==
  /\ phase[w] = "next" /\ todo[w] = {}
  /\ agg' = [i \in Items |-> [r \in Workers |-> IF written[w][i] = r THEN content[w][i]
                                                 ELSE agg[i][r]]]
  /\ detectDue' = (detectDue \/ RequestsDetect(w))
  /\ LET mine == {i \in Items : written[w][i] # None} IN
       raced' = IF w \in overlapped THEN raced \cup mine ELSE raced \ mine
  /\ EndRecompute(w)
  /\ UNCHANGED <<table, seen, lost, blind, syncs>>

RecomputeDeadlocked(w) ==
  \E S \in SUBSET Workers : w \in S /\ \A v \in S : RowLockedBy(v) \cap S # {}

\* The transaction is rolled back.
RecomputeFails(w) ==
  /\ lost' = lost \cup payload[w]
  /\ EndRecompute(w)
  /\ UNCHANGED <<table, aggregates, raced, blind, syncs>>

\* Two rows answer the select (MultipleResultsFound), or a deadlock is broken.
RecomputeRaises(w) ==
  /\ \/ phase[w] = "select" /\ Cardinality(Existing(item[w])) > 1
     \/ RecomputeDeadlocked(w)
  /\ RecomputeFails(w)

RecomputeDies(w) == phase[w] # "idle" /\ RecomputeFails(w)

\* A job that waits in a batch is lost with it.
JobLost ==
  \/ /\ \E is \in due : due' = due \ {is} /\ lost' = lost \cup is
     /\ UNCHANGED <<rows, aggregates, recompute, raced, blind, syncs>>
  \/ /\ detectDue /\ detectDue' = FALSE /\ blind' = TRUE
     /\ UNCHANGED <<table, agg, seen, recompute, raced, lost, syncs>>

\* detect_risks reads all aggregates in one SELECT (the rest is RiskPipeline).
Detect ==
  /\ detectDue
  /\ detectDue' = FALSE /\ seen' = agg /\ blind' = FALSE
  /\ UNCHANGED <<table, agg, recompute, raced, lost, syncs>>

RecomputeStep(w) ==
  \/ \E i \in Items : ReadStock(w, i)
  \/ ReadInputs(w) \/ SelectAggregate(w) \/ FlushAggregate(w)
  \/ CommitRecompute(w) \/ RecomputeRaises(w)

\* sync_source commits: what CanonicalRows allows.
SyncCommits ==
  /\ syncs < MaxSyncs /\ syncs' = syncs + 1
  /\ \E is \in SUBSET Items : Canonical!Commit(is)
  /\ UNCHANGED <<aggregates, recompute, history>>

Next ==
  \/ SyncCommits \/ Detect \/ JobLost
  \/ \E w \in Workers : \/ \E is \in due : StartRecompute(w, is)
                       \/ RecomputeStep(w) \/ RecomputeDies(w)

Spec == Init /\ [][Next]_vars

\* Due jobs are claimed (JobQueue's DueGetsClaimed) and handlers go on; a free
\* row lock is given to those that wait in turn.
FairSpec ==
  /\ Spec
  /\ WF_vars(Detect)
  /\ \A is \in SUBSET Items : WF_vars(\E w \in Workers : is \in due /\ StartRecompute(w, is))
  /\ \A w \in Workers : SF_vars(RecomputeStep(w))

-----------------------------------------------------------------------------
Snapshots == [Keys -> Canonical!RowSets]

\* The tables, the jobs and what a worker keeps between two statements have
\* their types; a worker that flushes has an item in hand.
TypeOK ==
  /\ rows \in Canonical!Table /\ due \in SUBSET (SUBSET Items)
  /\ agg \in [Items -> [Workers -> Snapshots \cup {Absent}]]
  /\ seen \in [Items -> [Workers -> Snapshots \cup {Absent}]]
  /\ detectDue \in BOOLEAN /\ blind \in BOOLEAN
  /\ phase \in [Workers -> {"idle", "next", "inputs", "select", "flush"}]
  /\ payload \in [Workers -> SUBSET Items] /\ todo \in [Workers -> SUBSET Items]
  /\ item \in [Workers -> Items \cup {None}]
  /\ snap \in [Workers -> Snapshots]
  /\ found \in [Workers -> Workers \cup {None}]
  /\ written \in [Workers -> [Items -> Workers \cup {None}]]
  /\ content \in [Workers -> [Items -> Snapshots]]
  /\ overlapped \in SUBSET Workers
  /\ raced \in SUBSET Items /\ lost \in SUBSET Items /\ syncs \in 0..MaxSyncs
  /\ \A w \in Workers : item[w] # None <=> phase[w] \in {"inputs", "select", "flush"}

\* A recompute of i is due or under way.
Pending(i) ==
  \/ \E is \in due : i \in is
  \/ \E w \in Workers : i \in todo[w] \/ WorksOn(w, i)

\* A watched attribute of a row that the inputs contain has another value now.
Outdated(inputs, i) ==
  \E k \in Inputs(i) \cap Watched, r \in RowIds :
    inputs[k][r] # Absent /\ inputs[k][r] # rows[k][r]

\* An aggregate that a watched change made wrong is being put right, whatever is
\* read and committed in between; unless two recomputations of the item wrote
\* over each other or the job was lost (sync.py:222, aggregates.py:50-89).
FreshUnlessPending ==
  \A i \in Items, q \in Workers :
    agg[i][q] # Absent /\ Outdated(agg[i][q], i) => Pending(i) \/ i \in raced \cup lost

\* The unique constraint (item_id, warehouse_id) does not bind rows whose
\* warehouse is NULL: an item has one aggregate as long as no two recomputations
\* of it overlapped (aggregates.py:191-214).
OneAggregate ==
  \A i \in Items \ raced : Cardinality(AggRows(i)) <= 1

\* The rules do not go on with aggregates that have been replaced
\* (observation/jobs.py:29-34).
RulesSeeAggregates == seen = agg \/ detectDue \/ blind

\* Once the rows stay as they are, the rules see aggregates of what they are,
\* with the same two exceptions.
CatchesUp ==
  <>[][FALSE]_rows =>
    <>[](blind \/ \A i \in Items \ (raced \cup lost), q \in Workers :
                    seen[i][q] # Absent => ~Outdated(seen[i][q], i))

(* What the loop does not do.                                              *)

\* An item that has stock has an aggregate, or one is being computed: the rows a
\* first sync inserts are no signals, and nothing else enqueues the job.
AggregateExists ==
  \A i \in Items : (\E k \in Stock : ItemKey[k] = i /\ rows[k] # NoRows) =>
                     AggRows(i) # {} \/ Pending(i) \/ i \in lost

\* An item has one aggregate: two recomputations that both saw none leave two.
AggregateIsSingle == \A i \in Items : Cardinality(AggRows(i)) <= 1

\* Consumption and orders are inputs and not watched: their changes leave the
\* aggregate as it was.
FollowsAllInputs ==
  \A i \in Items, q \in Workers :
    agg[i][q] # Absent /\ (\E k \in Inputs(i) : agg[i][q][k] # rows[k]) =>
      Pending(i) \/ i \in raced \cup lost
=============================================================================
