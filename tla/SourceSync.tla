----------------------------- MODULE SourceSync -----------------------------
(***************************************************************************)
(* sync_source (app/integration/sync.py), as the observe_source job runs   *)
(* it: a batch of records is fetched from a source and upserted, record by *)
(* record, in one transaction of a worker process.                         *)
(*                                                                         *)
(* A key is what _upsert identifies a canonical row by: an entity and its  *)
(* identity columns.  Only masters (item, warehouse, supplier) and         *)
(* purchase orders have a unique constraint, so a key may come to have     *)
(* several rows; a row is named by the session that inserted it, which is  *)
(* unambiguous because a session inserts only where it sees no row.        *)
(*                                                                         *)
(* One attribute per key stands for all: the watched one where the entity  *)
(* has one.  The steps of a session are its statements (resolve, select,   *)
(* flush, commit); each sees what is committed at that moment (READ        *)
(* COMMITTED) and what the session itself has flushed.                     *)
(*                                                                         *)
(* A source is synced by one chain of jobs: only a run that commits        *)
(* enqueues the next one, and a run that raises or dies leaves its row     *)
(* stranded as 'running' (JobQueue).                                       *)
(***************************************************************************)
EXTENDS Integers, FiniteSets

CONSTANTS
  Sources, Sessions,
  Keys,
  Rank,      \* Rank[k]: the place of k's entity in _ENTITY_ORDER
  ItemKey,   \* ItemKey[k]: the item that k belongs to (an item: itself)
  NamedIn,   \* NamedIn[k]: the warehouse a record of k names, or None
  Elsewhere, \* Elsewhere[k]: k's identity with warehouse_id NULL, or None
  Watched,   \* keys of the entities in _SIGNAL_WATCH
  Unique,    \* keys under a unique constraint
  Nullable,  \* keys whose attribute may be NULL: quality_record.defect_rate
  Values, Default,  \* values of the attribute; the default of a column NOT NULL
  Null,
  Unset,     \* the record has no such attribute
  Bad,       \* the record's attribute does not parse: _coerce yields None
  NoRecord,  \* the batch has no such record
  Absent,    \* there is no such row
  Feeds,     \* Feeds[s]: the batches that source s may come to report
  MaxCrashes, \* how many syncs may die with their process
  None

VARIABLES
  feed,    \* feed[s]: the batch a fetch from s returns
  waits,   \* the sources whose observe_source job waits
  rows,    \* rows[k][r]: the committed row of k that session r inserted
  due,     \* item_ids of the recompute_aggregates jobs that wait
  pc, source, \* what session w does, and for which source
  batch,   \* batch[w]: the records w has yet to upsert
  rec, to, \* the record in hand and the key it lands on
  row, old,\* existing (None: an insert) and its attribute, as w loaded it
  held, mem, dirty, \* held[w][k]: the row of k that w has flushed and so
           \* locks; mem: its attribute in the session; dirty: written columns
  touched, \* touched_item_ids, by the signals of w
  crashes  \* how many syncs have died

table   == <<rows, due>>
session == <<pc, source, batch, rec, to, row, old, held, mem, dirty, touched>>
vars   == <<feed, waits, table, session, crashes>>

Reports == Values \cup {Unset, Bad, NoRecord}
Items   == {ItemKey[k] : k \in Keys} \ {None}
Stored  == Values \cup {Null}

ASSUME SyncAssumption ==
  /\ Rank \in [Keys -> Nat]
  /\ ItemKey \in [Keys -> Keys \cup {None}]
  /\ NamedIn \in [Keys -> Keys \cup {None}]
  /\ Elsewhere \in [Keys -> Keys \cup {None}]
  /\ \A k \in Keys : (NamedIn[k] = None) <=> (Elsewhere[k] = None)
  /\ \A k \in Watched : ItemKey[k] # None
  /\ Watched \subseteq Keys /\ Unique \subseteq Keys /\ Nullable \subseteq Keys
  /\ Default \in Values
  /\ Values \cap {Unset, Bad, NoRecord, Absent, Null} = {} /\ Absent # Null
  /\ None \notin Keys \cup Sessions \cup Sources
  /\ Feeds \in [Sources -> SUBSET [Keys -> Reports]]
  /\ MaxCrashes \in Nat

NoRows == [r \in Sessions |-> Absent]

\* The rows of k that a SELECT of w returns.
Seen(w, k) == {r \in Sessions : rows[k][r] # Absent \/ held[w][k] = r}
Known(w, k) == Seen(w, k) # {}

Init ==
  /\ feed \in [Sources -> UNION {Feeds[s] : s \in Sources}]
  /\ \A s \in Sources : feed[s] \in Feeds[s]
  /\ waits = Sources
  /\ rows = [k \in Keys |-> NoRows]
  /\ due = {}
  /\ pc = [w \in Sessions |-> "idle"]
  /\ source = [w \in Sessions |-> None]
  /\ batch = [w \in Sessions |-> [k \in Keys |-> NoRecord]]
  /\ rec = [w \in Sessions |-> None] /\ to = [w \in Sessions |-> None]
  /\ row = [w \in Sessions |-> None] /\ old = [w \in Sessions |-> Default]
  /\ held = [w \in Sessions |-> [k \in Keys |-> None]]
  /\ mem = [w \in Sessions |-> [k \in Keys |-> Default]]
  /\ dirty = [w \in Sessions |-> {}]
  /\ touched = [w \in Sessions |-> {}]
  /\ crashes = 0

\* The transaction is over: locks, loaded objects and local state are gone.
EndSync(w) ==
  /\ pc' = [pc EXCEPT ![w] = "idle"]
  /\ source' = [source EXCEPT ![w] = None]
  /\ batch' = [batch EXCEPT ![w] = [k \in Keys |-> NoRecord]]
  /\ rec' = [rec EXCEPT ![w] = None] /\ to' = [to EXCEPT ![w] = None]
  /\ row' = [row EXCEPT ![w] = None] /\ old' = [old EXCEPT ![w] = Default]
  /\ held' = [held EXCEPT ![w] = [k \in Keys |-> None]]
  /\ mem' = [mem EXCEPT ![w] = [k \in Keys |-> Default]]
  /\ dirty' = [dirty EXCEPT ![w] = {}]
  /\ touched' = [touched EXCEPT ![w] = {}]

\* What the source reports changes.
FeedChanges(s) ==
  /\ \E f \in Feeds[s] \ {feed[s]} : feed' = [feed EXCEPT ![s] = f]
  /\ UNCHANGED <<waits, table, session, crashes>>

Running(s) == \E w \in Sessions : source[w] = s

\* observe_source of s is claimed, and its batch fetched.
StartSync(w, s) ==
  /\ pc[w] = "idle" /\ s \in waits /\ ~Running(s)
  /\ waits' = waits \ {s}
  /\ pc' = [pc EXCEPT ![w] = "next"]
  /\ source' = [source EXCEPT ![w] = s]
  /\ batch' = [batch EXCEPT ![w] = feed[s]]
  /\ UNCHANGED <<feed, table, rec, to, row, old, held, mem, dirty, touched, crashes>>

\* The job raises because the source does not answer, or it is lost with the batch
\* of a worker that has claimed it.
JobLost(s) ==
  /\ s \in waits /\ waits' = waits \ {s}
  /\ UNCHANGED <<feed, table, session, crashes>>

\* An operator inserts the job of a source that has none.
JobInserted(s) ==
  /\ s \notin waits /\ ~Running(s)
  /\ waits' = waits \cup {s}
  /\ UNCHANGED <<feed, table, session, crashes>>

\* The records the two loops reach next: by entity, within it in an order of
\* the connector's own.
Upcoming(w) ==
  {k \in Keys : /\ batch[w][k] # NoRecord
                /\ \A j \in Keys : batch[w][j] # NoRecord => Rank[k] <= Rank[j]}

\* _resolve_refs: the required master is unknown.
Orphan(w, k) == ItemKey[k] \notin {k, None} /\ ~Known(w, ItemKey[k])

\* Mutant of Landing: the warehouse is never resolved.
Landing_OnItem(w, k) == IF NamedIn[k] # None THEN Elsewhere[k] ELSE k

\* An unknown warehouse is left out, and the record lands on warehouse NULL.
Landing(w, k) ==
  IF NamedIn[k] # None /\ ~Known(w, NamedIn[k]) THEN Elsewhere[k] ELSE k

SkipRecord(w) ==
  /\ pc[w] = "next"
  /\ \E k \in Upcoming(w) :
       /\ Orphan(w, k)
       /\ batch' = [batch EXCEPT ![w][k] = NoRecord]
  /\ UNCHANGED <<feed, waits, table, pc, source, rec, to, row, old, held, mem, dirty, touched, crashes>>

Resolve(w) ==
  /\ pc[w] = "next"
  /\ \E k \in Upcoming(w) :
       /\ ~Orphan(w, k)
       /\ rec' = [rec EXCEPT ![w] = k]
       /\ to' = [to EXCEPT ![w] = Landing(w, k)]
  /\ pc' = [pc EXCEPT ![w] = "select"]
  /\ UNCHANGED <<feed, waits, table, source, batch, row, old, held, mem, dirty, touched, crashes>>

\* scalar_one_or_none on the identity: none, or the one row.
Select(w) ==
  /\ pc[w] = "select"
  /\ \/ /\ Seen(w, to[w]) = {}
        /\ UNCHANGED <<row, old>>
     \/ \E r \in Sessions :
          /\ Seen(w, to[w]) = {r}
          /\ row' = [row EXCEPT ![w] = r]
          /\ old' = [old EXCEPT ![w] = IF held[w][to[w]] = r THEN mem[w][to[w]]
                                       ELSE rows[to[w]][r]]
  /\ pc' = [pc EXCEPT ![w] = "flush"]
  /\ UNCHANGED <<feed, waits, table, source, batch, rec, to, held, mem, dirty,
                 touched, crashes>>

Report(w) == batch[w][rec[w]]

NextRecord(w) ==
  /\ batch' = [batch EXCEPT ![w][rec[w]] = NoRecord]
  /\ rec' = [rec EXCEPT ![w] = None] /\ to' = [to EXCEPT ![w] = None]
  /\ row' = [row EXCEPT ![w] = None] /\ old' = [old EXCEPT ![w] = Default]
  /\ pc' = [pc EXCEPT ![w] = "next"]

\* The sessions that w waits for: the row it updates is locked, or the unique
\* key it inserts is being inserted.
WaitsFor(w) ==
  IF pc[w] # "flush" THEN {}
  ELSE {v \in Sessions \ {w} :
          IF row[w] = None
          THEN to[w] \in Unique /\ held[v][to[w]] = v /\ rows[to[w]][v] = Absent
          ELSE held[v][to[w]] = row[w]}

\* Mutant of Taken: the unique constraint is missing.
Taken_Never(w) == FALSE

Taken(w) == to[w] \in Unique /\ \E r \in Sessions : rows[to[w]][r] # Absent

\* What a row gets whose attribute is missing or None.
Initial(k) == IF k \in Nullable THEN Null ELSE Default

\* A first-seen row: a baseline without a signal.
Insert(w) ==
  /\ pc[w] = "flush" /\ row[w] = None /\ WaitsFor(w) = {} /\ ~Taken(w)
  /\ held' = [held EXCEPT ![w][to[w]] = w]
  /\ mem' = [mem EXCEPT ![w][to[w]] = IF Report(w) \in Values THEN Report(w)
                                       ELSE Initial(to[w])]
  /\ dirty' = [dirty EXCEPT ![w] = @ \cup {to[w]}]
  /\ NextRecord(w)
  /\ UNCHANGED <<feed, waits, table, source, touched, crashes>>

\* What does not parse is written as NULL.
Coerced(w) == IF Report(w) = Bad THEN Null ELSE Report(w)

Changed(w) == Report(w) # Unset /\ Coerced(w) # old[w]

\* Mutant of Signalled: _diff_signal is called after the assignment.
Signalled_Late(w) == Changed(w) /\ to[w] \in Watched /\ Coerced(w) # Coerced(w)

Signalled(w) == Changed(w) /\ to[w] \in Watched

\* _diff_signal and the assignment.  Only a changed attribute is written;
\* source_provenance always is, so that the row is locked in any case.
Update(w) ==
  /\ pc[w] = "flush" /\ row[w] # None /\ WaitsFor(w) = {}
  /\ Report(w) = Bad => to[w] \in Nullable
  /\ held' = [held EXCEPT ![w][to[w]] = row[w]]
  /\ mem' = [mem EXCEPT ![w][to[w]] = IF Changed(w) THEN Coerced(w) ELSE old[w]]
  /\ dirty' = [dirty EXCEPT ![w] = IF Changed(w) THEN @ \cup {to[w]} ELSE @]
  /\ touched' = [touched EXCEPT ![w] = IF Signalled(w) THEN @ \cup {ItemKey[to[w]]} ELSE @]
  /\ NextRecord(w)
  /\ UNCHANGED <<feed, waits, table, source, crashes>>

\* The batch is through; the handler enqueues its next run in the same transaction.
CommitSync(w) ==
  /\ pc[w] = "next" /\ Upcoming(w) = {}
  /\ waits' = waits \cup {source[w]}
  /\ rows' = [k \in Keys |-> IF k \in dirty[w]
                             THEN [rows[k] EXCEPT ![held[w][k]] = mem[w][k]] ELSE rows[k]]
  /\ due' = IF touched[w] = {} THEN due ELSE due \cup {touched[w]}
  /\ EndSync(w)
  /\ UNCHANGED <<feed, crashes>>

\* Two rows have the identity (MultipleResultsFound), a column NOT NULL would become
\* NULL or the unique key is taken (IntegrityError), or the database breaks a
\* deadlock at w's expense: the transaction is rolled back, and the chain ends.
Deadlocked(w) ==
  \E S \in SUBSET Sessions : w \in S /\ \A v \in S : WaitsFor(v) \cap S # {}

SyncRaises(w) ==
  /\ \/ pc[w] = "select" /\ Cardinality(Seen(w, to[w])) > 1
     \/ /\ pc[w] = "flush" /\ WaitsFor(w) = {}
        /\ IF row[w] = None THEN Taken(w) ELSE Report(w) = Bad /\ to[w] \notin Nullable
     \/ Deadlocked(w)
  /\ EndSync(w)
  /\ UNCHANGED <<feed, waits, table, crashes>>

\* The process dies or loses its database connection.
SyncDies(w) ==
  /\ pc[w] # "idle" /\ crashes < MaxCrashes
  /\ crashes' = crashes + 1
  /\ EndSync(w)
  /\ UNCHANGED <<feed, waits, table>>

SyncStep(w) ==
  \/ SkipRecord(w) \/ Resolve(w) \/ Select(w) \/ Insert(w) \/ Update(w)
  \/ CommitSync(w) \/ SyncRaises(w)

\* A worker claims a recompute_aggregates job.
JobTaken ==
  /\ \E is \in due : due' = due \ {is}
  /\ UNCHANGED <<feed, waits, rows, session, crashes>>

Next ==
  \/ \E s \in Sources : FeedChanges(s) \/ JobLost(s) \/ JobInserted(s)
  \/ \E s \in Sources, w \in Sessions : StartSync(w, s)
  \/ \E w \in Sessions : SyncStep(w) \/ SyncDies(w)
  \/ JobTaken

Spec == Init /\ [][Next]_vars

\* A session goes on (PostgreSQL serves those that wait for a lock in turn), and a
\* job that waits is claimed (JobQueue, DueGetsClaimed).  A chain that has ended is
\* not assumed to begin again.
FairSpec ==
  /\ Spec
  /\ \A w \in Sessions : SF_vars(SyncStep(w))
  /\ \A s \in Sources : SF_vars(\E w \in Sessions : StartSync(w, s))

-----------------------------------------------------------------------------
RowSets == [Sessions -> Stored \cup {Absent}]

\* Every column and every session's local state keeps its type; a row in hand
\* was selected.
TypeOK ==
  /\ rows \in [Keys -> RowSets] /\ due \in SUBSET (SUBSET Items)
  /\ feed \in [Sources -> [Keys -> Reports]] /\ waits \subseteq Sources
  /\ pc \in [Sessions -> {"idle", "next", "select", "flush"}]
  /\ source \in [Sessions -> Sources \cup {None}]
  /\ batch \in [Sessions -> [Keys -> Reports]]
  /\ rec \in [Sessions -> Keys \cup {None}] /\ to \in [Sessions -> Keys \cup {None}]
  /\ row \in [Sessions -> Sessions \cup {None}] /\ old \in [Sessions -> Stored]
  /\ held \in [Sessions -> [Keys -> Sessions \cup {None}]]
  /\ mem \in [Sessions -> [Keys -> Stored]]
  /\ dirty \in [Sessions -> SUBSET Keys] /\ touched \in [Sessions -> SUBSET Items]
  /\ crashes \in 0..MaxCrashes

\* _upsert selects and then inserts; for masters and orders the constraint keeps
\* two syncs that both saw no row from leaving two (sync.py:349-355).
OneRowPerMaster == \A k \in Unique : \A r, q \in Sessions :
  rows[k][r] # Absent /\ rows[k][q] # Absent => r = q

\* Whatever happens in between, what a sync leaves in the database is one commit
\* that removes no row and asks for the recomputation of every item of which it
\* changed a watched attribute (sync.py:206-231).
Canonical == INSTANCE CanonicalRows WITH RowIds <- Sessions, Values <- Stored
CanonicalSpec == Canonical!Spec

RowsOf(k) == {r \in Sessions : rows[k][r] # Absent}

\* The record of k lands elsewhere as long as its warehouse is unknown.
Misplaced(k) == NamedIn[k] # None /\ RowsOf(NamedIn[k]) = {}

\* The row of k has what s reports, or cannot: its master is unknown, or another
\* record of the batch lands on it as well.
Settled(s, k) ==
  \/ RowsOf(ItemKey[k]) = {} \/ Misplaced(k)
  \/ \E j \in Keys : Elsewhere[j] = k /\ Misplaced(j) /\ feed[s][j] # NoRecord
  \/ \E r \in Sessions : rows[k][r] = feed[s][k]

\* The chain of s has not ended.
Alive(s) == s \in waits \/ Running(s)

\* A source whose chain goes on, and that has come to report one batch for good, has
\* each watched value taken over again and again, whatever other sources report,
\* whichever master came first, whatever does not parse, and whoever dies or loses a
\* deadlock meanwhile (sync.py:171-234): each failure ends the chain that meets it.
Settles ==
  \A s \in Sources : \A f \in Feeds[s] : \A k \in Watched :
    f[k] \in Values /\ <>[](feed[s] = f /\ Alive(s)) => []<>Settled(s, k)

(* What the program does not do.                                           *)

\* integration/jobs.py:7-8: the handler "re-enqueues its own next run ... after every
\* attempt": without an operator, each source is synced for ever.
ChainsGoOn == \A s \in Sources : [](~Alive(s) => <>Alive(s))

\* _upsert finds the row of an identity or inserts it: two syncs that both saw none
\* leave two, of the entities that have no unique constraint.
OneRowPerKey == \A k \in Keys : Cardinality(RowsOf(k)) <= 1
=============================================================================
