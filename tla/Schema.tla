------------------------------- MODULE Schema -------------------------------
(***************************************************************************)
(* The database under its migrations: `alembic upgrade` and `downgrade`    *)
(* (alembic/env.py) against a schema that holds rows, while the program    *)
(* goes on writing.                                                        *)
(*                                                                         *)
(* env.py runs all revisions of a command in one transaction: nothing of   *)
(* it is visible before the commit, and an error undoes all of it.  A      *)
(* table that the command has altered or dropped is locked for everybody   *)
(* else until then.                                                        *)
(*                                                                         *)
(* Rows are kept for the tables in Kept, one per table and kind; what a    *)
(* row references is then a set of tables.  The only kinds that a CHECK    *)
(* tells apart are the event types of audit_record.                        *)
(*                                                                         *)
(* The scripts are constants, those of alembic/versions in MCSchema: what  *)
(* the module needs of them is assumed in so many words, and holds or does *)
(* not hold of the scripts alone, whatever else happens to the database.   *)
(***************************************************************************)
EXTENDS Integers, FiniteSets, SequencesExt

CONSTANTS
  Upgrades, Downgrades, \* by revision: the operations of upgrade() and downgrade()
  Kept,   \* the tables whose rows are kept
  Goals   \* the revisions a command may name

VARIABLES
  rev,    \* alembic_version, as committed
  db,     \* the committed schema
  rows,   \* the committed rows
  cmd,    \* "none", or the command that runs: "upgrade", "downgrade"
  goal, at, step,  \* where it leads, the revision it has reached, and how
                   \* many operations of the next it has performed
  work,   \* the schema as its transaction sees it
  locked  \* the tables it has altered or dropped

command == <<cmd, goal, at, step, work, locked>>
vars == <<rev, db, rows, command>>

Newest == Len(Upgrades)

\* What a script may do.  A CHECK that is added may leave out an event type in use.
Operations ==
  [op : {"create"}, table : STRING, fks : SUBSET (STRING \X STRING)]
  \cup [op : {"drop", "attach", "detach"}, table : STRING]
  \cup [op : {"check"}, table : STRING, column : STRING, without : SUBSET {"risk_dismissed"}]
  \cup [op : {"uncheck"}, table : STRING, column : STRING]
  \cup [op : {"create_function", "drop_function"}]

ASSUME ScriptsAreOperations ==
  /\ Upgrades \in Seq(Seq(Operations)) /\ Downgrades \in Seq(Seq(Operations))
  /\ Len(Downgrades) = Newest

Creates == {o \in UNION {Range(Upgrades[n]) : n \in 1..Newest} : o.op = "create"}
Tables == {o.table : o \in Creates}
ForeignKeys == [t \in Tables |-> (CHOOSE o \in Creates : o.table = t).fks]

ASSUME SchemaAssumption == Kept \subseteq Tables /\ Goals \subseteq 0..Newest

\* A schema: its tables, CHECKs, guarded tables and whether forbid_mutation()
\* exists.
Empty == [tables |-> {}, checks |-> {}, guarded |-> {}, function |-> FALSE]

ChecksOn(s, t, c) == {k \in s.checks : k.table = t /\ k.column = c}

\* What an operation does to a schema.
Applied(s, o) ==
  CASE o.op = "create" -> [s EXCEPT !.tables = @ \cup {o.table}]
    [] o.op = "drop" -> [s EXCEPT !.tables = @ \ {o.table},
                                  !.checks = {k \in @ : k.table # o.table},
                                  !.guarded = @ \ {o.table}]
    [] o.op = "check" -> [s EXCEPT !.checks = @ \cup
           {[table |-> o.table, column |-> o.column, without |-> o.without]}]
    [] o.op = "uncheck" -> [s EXCEPT !.checks = @ \ ChecksOn(s, o.table, o.column)]
    [] o.op = "create_function" -> [s EXCEPT !.function = TRUE]
    [] o.op = "drop_function" -> [s EXCEPT !.function = FALSE]
    [] o.op = "attach" -> [s EXCEPT !.guarded = @ \cup {o.table}]
    [] o.op = "detach" -> [s EXCEPT !.guarded = @ \ {o.table}]

\* PostgreSQL refuses an operation on a table that is not there or is there
\* already, a table without those it references, the dropping of one that is
\* still referenced, a CHECK that is there or is not, a trigger without its
\* function, and the dropping of a function that a trigger uses.
Misplaced(s, o) ==
  \/ o.op = "create" /\ (o.table \in s.tables \/ \E k \in o.fks : k[1] \notin s.tables)
  \/ o.op \in {"drop", "check", "uncheck", "attach", "detach"} /\ o.table \notin s.tables
  \/ o.op = "drop" /\ \E u \in s.tables \ {o.table} : \E k \in ForeignKeys[u] : k[1] = o.table
  \/ o.op = "check" /\ ChecksOn(s, o.table, o.column) # {}
  \/ o.op = "uncheck" /\ ChecksOn(s, o.table, o.column) = {}
  \/ o.op = "attach" /\ (~s.function \/ o.table \in s.guarded)
  \/ o.op = "drop_function" /\ s.guarded # {}

\* It refuses a CHECK that a row contradicts, too.
Contradicted(o) ==
  o.op = "check" /\ \E r \in rows : r.table = o.table /\ r.kind \in o.without

Refused(s, o) == Misplaced(s, o) \/ Contradicted(o)

\* The schemas that a script passes through, by the number of its operations
\* that are done.
Performed(s, script) ==
  LET after[k \in 0..Len(script)] == IF k = 0 THEN s ELSE Applied(after[k - 1], script[k])
  IN  after

Result(s, script) == Performed(s, script)[Len(script)]

\* The schema that upgrading an empty database to a revision yields.
Built ==
  LET built[n \in 0..Newest] == IF n = 0 THEN Empty ELSE Result(built[n - 1], Upgrades[n])
  IN  built

\* Every operation finds what it needs; tables come and go in the order of their
\* foreign keys.
InOrder(s, script) ==
  script # <<>> /\ \A k \in 1..Len(script) : ~Misplaced(Performed(s, script)[k - 1], script[k])

\* A downgrade undoes what the upgrade did, also to the tables that remain.
ASSUME ScriptsAssumption ==
  \A n \in 1..Newest :
    /\ InOrder(Built[n - 1], Upgrades[n])
    /\ InOrder(Built[n], Downgrades[n]) /\ Result(Built[n], Downgrades[n]) = Built[n - 1]

\* The tables whose model carries the AppendOnly marker.
AppendOnly ==
  {"audit_record", "capability_level_event", "mapping_change_event", "observation_signal"}

\* From d8607cfff4ac on, exactly those that are there are guarded.
ASSUME GuardAssumption ==
  /\ \A n \in 3..Newest : Built[n].guarded = AppendOnly \cap Built[n].tables
  /\ Built[Newest].guarded = AppendOnly

\* Only the newest revision knows findings and admits dismissals.
ASSUME DismissalAssumption ==
  /\ Newest > 0 /\ \A n \in 0..(Newest - 1) : "risk_finding" \notin Built[n].tables
  /\ \E k \in Built[Newest - 1].checks : k.table = "audit_record" /\ "risk_dismissed" \in k.without
  /\ \A k \in Built[Newest].checks : "risk_dismissed" \notin k.without

Init ==
  /\ rev = 0 /\ db = Empty /\ rows = {}
  /\ cmd = "none" /\ goal = 0 /\ at = 0 /\ step = 0 /\ work = Empty /\ locked = {}

EndCommand ==
  cmd' = "none" /\ goal' = 0 /\ at' = 0 /\ step' = 0 /\ work' = Empty /\ locked' = {}

StartMigration ==
  /\ cmd = "none"
  /\ \E g \in Goals \ {rev} :
       /\ goal' = g
       /\ cmd' = IF g > rev THEN "upgrade" ELSE "downgrade"
  /\ at' = rev /\ step' = 0 /\ work' = db /\ locked' = {}
  /\ UNCHANGED <<rev, db, rows>>

\* The operations of the revision the command is at.
Script == IF cmd = "upgrade" THEN Upgrades[at + 1] ELSE Downgrades[at]
Operation == Script[step + 1]

Locks(o) == IF "table" \in DOMAIN o /\ o.op # "create" THEN {o.table} ELSE {}

MigrationStep ==
  /\ cmd # "none" /\ at # goal /\ ~Refused(work, Operation)
  /\ work' = Applied(work, Operation)
  /\ locked' = locked \cup Locks(Operation)
  /\ IF step + 1 < Len(Script)
     THEN step' = step + 1 /\ at' = at
     ELSE step' = 0 /\ at' = IF cmd = "upgrade" THEN at + 1 ELSE at - 1
  /\ UNCHANGED <<rev, db, rows, cmd, goal>>

\* Dropped tables take their rows along.
CommitMigration ==
  /\ cmd # "none" /\ at = goal
  /\ rev' = at /\ db' = work
  /\ rows' = {r \in rows : r.table \in work.tables}
  /\ EndCommand

Raises == cmd # "none" /\ at # goal /\ Refused(work, Operation)

\* Mutant of FailMigration: without begin_transaction() what was done stays.
FailMigration_Keeps == Raises /\ db' = work /\ EndCommand /\ UNCHANGED <<rev, rows>>

\* The operation fails: the transaction is rolled back.
FailMigration == Raises /\ EndCommand /\ UNCHANGED <<rev, db, rows>>

\* The command is killed, or loses its connection.
KillMigration == cmd # "none" /\ EndCommand /\ UNCHANGED <<rev, db, rows>>

Kinds(t) == IF t = "audit_record" THEN {"event", "risk_dismissed"} ELSE {"row"}

\* Mutant of Occurs: the finding need not be there.
Occurs_Always(kind) == TRUE

\* A dismissal is audited for a finding that was loaded.
Occurs(kind) == kind = "risk_dismissed" => \E r \in rows : r.table = "risk_finding"

\* The program writes a row that references rows there are; a column that may be
\* NULL may be left so.
WriteRow ==
  \E t \in (Kept \cap db.tables) \ locked : \E kind \in Kinds(t) :
    LET open == {k \in ForeignKeys[t] : \E r \in rows : r.table = k[1]}
        must == {k \in ForeignKeys[t] : k[2] \in {"restrict", "cascade"}}
    IN /\ \A r \in rows : r.table # t \/ r.kind # kind
       /\ \A k \in db.checks : k.table = t => kind \notin k.without
       /\ Occurs(kind)
       /\ must \subseteq open
       /\ \E some \in SUBSET (open \ must) :
            rows' = rows \cup {[table |-> t, kind |-> kind,
                                links |-> {k[1] : k \in must \cup some}]}
       /\ UNCHANGED <<rev, db, command>>

References(r, t, on) ==
  t \in r.links /\ \E k \in ForeignKeys[r.table] : k[1] = t /\ k[2] \in on

\* The tables whose rows go when those of t are deleted.
Gone(ts) ==
  LET Cascading(us) == {r.table : r \in {q \in rows : \E t \in us :
                          References(q, t, {"cascade", "cascade_if_set"})}}
      gone[n \in 0..Cardinality(rows)] ==
        IF n = 0 THEN ts ELSE LET us == gone[n - 1] IN us \cup Cascading(us)
  IN  gone[Cardinality(rows)]

Unlinked(ts) == {r \in rows : r.table \notin ts /\ \E t \in ts : References(r, t, {"set_null"})}

\* Mutant of Forbidden: the trigger is not for UPDATE.
Forbidden_DeleteOnly(ts) == \E r \in rows : r.table \in db.guarded /\ r.table \in ts

\* forbid_mutation() fires on each row that the deletion reaches, by itself or
\* through a foreign key.
Forbidden(ts) ==
  \E r \in rows : r.table \in db.guarded /\ (r.table \in ts \/ r \in Unlinked(ts))
Restricted(ts) == \E r \in rows, t \in ts : References(r, t, {"restrict"})

\* An operator deletes the rows of a table; the program itself never does.
DeleteRows ==
  \E t \in {r.table : r \in rows} :
    LET ts == Gone({t}) IN
    /\ ~Forbidden(ts) /\ ~Restricted(ts)
    /\ (ts \cup {r.table : r \in Unlinked(ts)}) \cap locked = {}
    /\ rows' = {r \in rows : r.table \notin ts /\ r \notin Unlinked(ts)}
               \cup {[r EXCEPT !.links = @ \ ts] : r \in Unlinked(ts)}
    /\ UNCHANGED <<rev, db, command>>

Next ==
  \/ StartMigration \/ MigrationStep \/ CommitMigration \/ FailMigration
  \/ KillMigration \/ WriteRow \/ DeleteRows

Spec == Init /\ [][Next]_vars

-----------------------------------------------------------------------------
\* A committed schema is the one of its revision, however it was reached and
\* wherever a command failed or was killed; at head exactly the append-only
\* models are guarded (env.py:45-46, core/models.py:50-59).
SchemaOfRevision ==
  /\ db = Built[rev]
  /\ rev = Newest => db.guarded = AppendOnly

\* Whatever rows there are and whatever the program writes meanwhile, no operation of
\* a migration is refused, unless it downgrades from head where a dismissal was audited
\* (ee988845269c:307-314).  Lock waits are not modelled.
OnlyDismissalsStopMigrations ==
  Raises => /\ cmd = "downgrade" /\ at = Newest
            /\ \E r \in rows : r.kind = "risk_dismissed"

\* Once guarded, a row of an append-only table stays and stays as it is, also
\* when what it references is deleted, for as long as its table is there
\* (core/migrations.py:12-36, d8607cfff4ac:30-33).
AppendOnlyRowsStay ==
  [][\A r \in rows : r.table \in AppendOnly /\ rev >= 3 /\ r.table \in db'.tables
       => r \in rows']_vars

\* Refuted: every migration can be undone.
DowngradeAlwaysPossible == ~Raises

\* Refuted: a deletion that a foreign key of an append-only table says to carry
\* on (CASCADE, SET NULL) can be made.
ForeignKeysHonoured ==
  \A t \in {r.table : r \in rows} : Forbidden(Gone({t})) => Forbidden({t})
=============================================================================
