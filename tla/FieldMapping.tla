---------------------------- MODULE FieldMapping ----------------------------
(***************************************************************************)
(* The life of the field mappings of one data source                       *)
(* (integration/mapping_service.py, integration/mapping_ai.py and their    *)
(* routes), as HTTP requests and the suggest_mapping job change them.      *)
(*                                                                         *)
(* A session is one transaction at READ COMMITTED: it loads the mappings   *)
(* it is about, takes their row locks one flush after the other, and       *)
(* commits.  SQLAlchemy writes a column only when its new value differs    *)
(* from the loaded one.  All mappings are of one introspected field, so a  *)
(* target stands for the path, the canonical entity, the attribute and the *)
(* transform; confirmed_at goes with confirmed_by.                         *)
(***************************************************************************)
EXTENDS Integers, Sequences, FiniteSets

CONSTANTS
  Sessions,    \* transactions in flight at the same time
  Mappings,    \* ids of field_mapping rows
  Targets,     \* what a source field can be mapped to
  Actors,      \* users who hold mapping.manage and mapping.confirm
  Null,        \* NULL: nobody, nothing
  Ops,         \* the operations that run: a subset of AllOps
  MaxRequests  \* bound on the number of transactions

VARIABLES
  row,         \* row[m]: the field_mapping row, Absent before it is inserted
  history,     \* history[m]: its mapping_change_event rows, oldest first
  holder,      \* holder[m]: the session that holds the row lock of m
  op, actor,   \* what a session runs, and for whom
  loaded,      \* loaded[s]: the rows as the session loaded them
  goal,        \* goal[s]: what an edit maps to, or the suggestions to insert
  work, todo,  \* the mappings s changes, and those it has not flushed
  requests,    \* transactions begun
  overlap      \* history: two transactions have been open at the same time

table   == <<row, history>>
session == <<op, actor, loaded, goal, work, todo>>
vars    == <<row, history, holder, op, actor, loaded, goal, work, todo, requests, overlap>>

RowOps == {"confirm", "bulk", "reject", "retire", "edit"}
AllOps == RowOps \cup {"create", "suggest"}
MappingStatuses == {"suggested", "confirmed", "rejected", "retired"}

ASSUME FieldMappingAssumption ==
  /\ Null \notin Sessions \cup Targets \cup Actors
  /\ Ops \subseteq AllOps
  /\ MaxRequests \in Nat

Absent == [status |-> "none", target |-> Null, by |-> Null]
Rows   == {Absent} \cup [status : MappingStatuses, target : Targets, by : Actors \cup {Null}]
Stored == {m \in Mappings : row[m] # Absent}

\* _snapshot, and the events that carry two of them.
Snap(r) == [status |-> r.status, target |-> r.target]
Event(action, a, old, new) ==
  [action |-> action, actor |-> a, before |-> Snap(old), after |-> Snap(new)]
Actions == {"suggested", "confirmed", "rejected", "retired", "edited"}
Events  == [action : Actions, actor : Actors \cup {Null},
            before : {Snap(r) : r \in Rows}, after : {Snap(r) : r \in Rows}]

Init ==
  /\ row = [m \in Mappings |-> Absent]
  /\ history = [m \in Mappings |-> <<>>]
  /\ holder = [m \in Mappings |-> Null]
  /\ op = [s \in Sessions |-> "idle"]
  /\ actor = [s \in Sessions |-> Null]
  /\ loaded = [s \in Sessions |-> [m \in Mappings |-> Absent]]
  /\ goal = [s \in Sessions |-> {}]
  /\ work = [s \in Sessions |-> {}]
  /\ todo = [s \in Sessions |-> {}]
  /\ requests = 0 /\ overlap = FALSE

-----------------------------------------------------------------------------
Begin(s, o, a, ms, ts) ==
  /\ op[s] = "idle" /\ o \in Ops /\ requests < MaxRequests
  /\ op' = [op EXCEPT ![s] = o]
  /\ actor' = [actor EXCEPT ![s] = a]
  /\ loaded' = [loaded EXCEPT ![s] = row]
  /\ goal' = [goal EXCEPT ![s] = ts]
  /\ work' = [work EXCEPT ![s] = ms]
  /\ todo' = [todo EXCEPT ![s] = ms]
  /\ requests' = requests + 1
  /\ overlap' = (overlap \/ \E t \in Sessions : op[t] # "idle")
  /\ UNCHANGED <<table, holder>>

\* Mutant of Eligible: a bulk request takes whatever it finds.
Eligible_Any(o, m) == TRUE

\* The early returns: a retired mapping is not confirmed, and a bulk request
\* reports all but the suggested ones in "failed" and leaves them alone.
Eligible(o, m) ==
  /\ o = "confirm" => row[m].status # "retired"
  /\ o = "bulk" => row[m].status = "suggested"

\* Mutant of Named: every operation takes a list of ids.
Named_List(o, ms) == ms # {}

\* The id in the path of the route, or the list in the body of a bulk request.
Named(o, ms) == /\ ms # {}
                /\ o # "bulk" => \A m \in ms : ms = {m}

\* A request loads the mappings it names and decides which of them it changes.
LoadRows(s) ==
  \E o \in RowOps, a \in Actors, ms \in SUBSET Stored :
    /\ Named(o, ms) /\ \A m \in ms : Eligible(o, m)
    /\ \E t \in Targets : Begin(s, o, a, ms, IF o = "edit" THEN {t} ELSE {})

\* No mapping of the source, in whatever status, has the target of the suggestion.
Unseen(t) == \A m \in Stored : row[m].target # t

\* The model has answered; the suggestions the source has already are skipped.
\* create_mapping takes the user's word and compares with nothing.
LoadNew(s) ==
  \E ts \in SUBSET Targets :
    \/ /\ \A t \in ts : Unseen(t)
       /\ ts # {} /\ Begin(s, "suggest", Null, {}, ts)
    \/ \E a \in Actors : /\ \E t \in ts : ts = {t}
                         /\ Begin(s, "create", a, {}, ts)

-----------------------------------------------------------------------------
\* Mutant of Rejected: the name of who confirmed stays.
Rejected_KeepsConfirmer(r) == [r EXCEPT !.status = "rejected"]

\* reject_mapping takes the confirmation back.
Rejected(r) == [r EXCEPT !.status = "rejected", !.by = Null]

\* The loaded mapping after the assignments of the operation.
Changed(s, m) ==
  LET r == loaded[s][m] IN
  CASE op[s] \in {"confirm", "bulk"} -> [r EXCEPT !.status = "confirmed", !.by = actor[s]]
    [] op[s] = "reject"              -> Rejected(r)
    [] op[s] = "retire"              -> [r EXCEPT !.status = "retired"]
    [] OTHER                         -> [r EXCEPT !.target = CHOOSE t \in Targets : t \in goal[s]]

\* An UPDATE is sent, and takes the row lock, when a column changes; confirmed_at
\* always does.
Emits(s, m) == op[s] \in {"confirm", "bulk"} \/ Changed(s, m) # loaded[s][m]

\* session.flush() for one mapping: it waits for the row lock of another session.
Flush(s, m) ==
  /\ m \in todo[s]
  /\ Emits(s, m) => holder[m] \in {Null, s}
  /\ holder' = IF Emits(s, m) THEN [holder EXCEPT ![m] = s] ELSE holder
  /\ todo' = [todo EXCEPT ![s] = @ \ {m}]
  /\ UNCHANGED <<table, op, actor, loaded, goal, work, requests, overlap>>

\* Mutant of Freed: a request ends without ending its transaction.
Freed_Never(s) == holder

\* The end of a transaction releases its row locks.
Freed(s) == [m \in Mappings |-> IF holder[m] = s THEN Null ELSE holder[m]]

EndSession(s) ==
  /\ op' = [op EXCEPT ![s] = "idle"]
  /\ actor' = [actor EXCEPT ![s] = Null]
  /\ loaded' = [loaded EXCEPT ![s] = [m \in Mappings |-> Absent]]
  /\ goal' = [goal EXCEPT ![s] = {}]
  /\ work' = [work EXCEPT ![s] = {}]
  /\ todo' = [todo EXCEPT ![s] = {}]
  /\ holder' = Freed(s)
  /\ UNCHANGED <<requests, overlap>>

Action(s) ==
  CASE op[s] \in {"confirm", "bulk"} -> "confirmed"
    [] op[s] = "reject" -> "rejected"
    [] op[s] = "retire" -> "retired"
    [] OTHER -> "edited"

\* Mutant of Logged: the snapshot "before" is taken after the assignment.
Logged_AfterOnly(s, m) ==
  Append(history[m], Event(Action(s), actor[s], Changed(s, m), Changed(s, m)))

\* The event has the mapping as it was loaded and as the operation left it.
Logged(s, m) == Append(history[m], Event(Action(s), actor[s], loaded[s][m], Changed(s, m)))

\* Columns whose value differs from the loaded one go to the row as it is by now.
Updated(s, m) ==
  LET old == loaded[s][m]
      new == Changed(s, m)
      Column(o, n, now) == IF n # o THEN n ELSE now
  IN [status |-> Column(old.status, new.status, row[m].status),
      target |-> Column(old.target, new.target, row[m].target),
      by     |-> Column(old.by, new.by, row[m].by)]

CommitRows(s) ==
  /\ op[s] \in RowOps /\ todo[s] = {}
  /\ row' = [m \in Mappings |-> IF m \in work[s] THEN Updated(s, m) ELSE row[m]]
  /\ history' = [m \in Mappings |-> IF m \in work[s] THEN Logged(s, m) ELSE history[m]]
  /\ EndSession(s)

\* Mutant of Suggested: a suggestion is applied at once.
Suggested_Confirmed(t) == [status |-> "confirmed", target |-> t, by |-> Null]

Suggested(t) == [status |-> "suggested", target |-> t, by |-> Null]

\* Each new mapping gets a row and its first event.
CommitNew(s) ==
  /\ op[s] \in {"create", "suggest"}
  /\ \E new \in [goal[s] -> Mappings \ Stored] :
       LET At(m)  == CHOOSE t \in goal[s] : new[t] = m
           Ids    == {new[t] : t \in goal[s]}
       IN /\ \A t, u \in goal[s] : t # u => new[t] # new[u]
          /\ row' = [m \in Mappings |-> IF m \in Ids THEN Suggested(At(m)) ELSE row[m]]
          /\ history' = [m \in Mappings |->
               IF m \in Ids
                 THEN Append(history[m], Event("suggested", actor[s], Absent, Suggested(At(m))))
                 ELSE history[m]]
  /\ EndSession(s)

\* The client goes away, or the database connection is lost.
Abandon(s) ==
  /\ op[s] # "idle"
  /\ EndSession(s)
  /\ UNCHANGED table

\* PostgreSQL aborts one of the sessions that wait for each other's row locks.
DeadlockVictim(s) ==
  /\ \E D \in SUBSET Sessions :
       /\ s \in D
       /\ \A d \in D : /\ todo[d] # {}
                       /\ \A m \in todo[d] : Emits(d, m) /\ holder[m] \in D \ {d}
  /\ EndSession(s)
  /\ UNCHANGED table

Next == \E s \in Sessions :
  \/ LoadRows(s) \/ LoadNew(s)
  \/ \E m \in Mappings : Flush(s, m)
  \/ CommitRows(s) \/ CommitNew(s)
  \/ Abandon(s) \/ DeadlockVictim(s)

Spec == Init /\ [][Next]_vars

\* A request in flight is served: locks that are free are taken, a transaction
\* that has flushed commits, and the database breaks deadlocks.
FairSpec == Spec /\ \A s \in Sessions :
  /\ WF_vars((\E m \in Mappings : Flush(s, m)) \/ CommitRows(s))
  /\ WF_vars(DeadlockVictim(s))
-----------------------------------------------------------------------------
Nothing(m) == history[m] = <<>>
ConfirmedBy(h, a) == \E i \in DOMAIN h : h[i].action = "confirmed" /\ h[i].actor = a

\* Rows, events, locks and local state have their types, a lock is held for a
\* flushed change of a running request, and a row exists once it has an event.
TypeOK ==
  /\ row \in [Mappings -> Rows]
  /\ history \in [Mappings -> Seq(Events)]
  /\ holder \in [Mappings -> Sessions \cup {Null}]
  /\ op \in [Sessions -> AllOps \cup {"idle"}]
  /\ actor \in [Sessions -> Actors \cup {Null}]
  /\ loaded \in [Sessions -> [Mappings -> Rows]]
  /\ goal \in [Sessions -> SUBSET Targets]
  /\ work \in [Sessions -> SUBSET Mappings]
  /\ todo \in [Sessions -> SUBSET Mappings]
  /\ requests \in 0..MaxRequests /\ overlap \in BOOLEAN
  /\ \A m \in Mappings : Nothing(m) <=> row[m] = Absent
  /\ \A m \in Mappings : holder[m] # Null => m \in work[holder[m]] \ todo[holder[m]]

\* Nothing is applied automatically (src/README.md:186): in every interleaving a
\* mapping that syncs read, and a name in confirmed_by, is backed by the event of
\* a user's confirmation.
OnlyUsersConfirm == \A m \in Mappings :
  /\ row[m].status = "confirmed" => \E a \in Actors : ConfirmedBy(history[m], a)
  /\ row[m].by # Null => ConfirmedBy(history[m], row[m].by)

\* Two requests can wait for each other only when both are bulk confirmations:
\* every other operation locks one row and waits for none while it holds it.
OnlyBulkDeadlocks == \A s, t \in Sessions :
  (/\ s # t
   /\ \E m \in todo[s] : holder[m] = t
   /\ \E m \in todo[t] : holder[m] = s) => op[s] = "bulk" /\ op[t] = "bulk"

\* Each event begins where the one before it ended, the last ends with the row.
HistoryIsWhole == \A m \in Mappings :
  LET h == history[m] IN
  /\ h # <<>> => h[1].before = Snap(Absent) /\ h[Len(h)].after = Snap(row[m])
  /\ \A i \in 1 .. Len(h) - 1 : h[i + 1].before = h[i].after

\* The change events of a mapping tell its whole story (mapping_service.py:3-5),
\* as long as requests do not overlap.
HistoryTellsRow == ~overlap => HistoryIsWhole

ConfirmerFits == \A m \in Mappings :
  /\ row[m].status = "confirmed" => row[m].by # Null
  /\ row[m].status \in {"suggested", "rejected"} => row[m].by = Null

\* confirmed_by names somebody while the mapping is confirmed and nobody once it is
\* rejected (mapping_service.py:174, 265), as long as requests do not overlap.
ConfirmerMatchesStatus == ~overlap => ConfirmerFits

\* A retired mapping is not confirmed (mapping_service.py:190).
RetiredIsNotConfirmed ==
  [][\A m \in Mappings : row[m].status = "retired" => row'[m].status # "confirmed"]_vars

\* A bulk request leaves a mapping alone that somebody confirmed in the meantime
\* (src/README.md:194-195).
BulkLeavesConfirmedAlone ==
  [][\A s \in Sessions : CommitRows(s) /\ op[s] = "bulk" =>
       \A m \in Mappings : row[m].status # "suggested" => row'[m] = row[m]]_vars

\* Mappings are retired after they were confirmed (mapping_service.py:3).
RetiredAfterConfirmed ==
  [][\A m \in Mappings : row'[m].status = "retired" =>
       row[m].status \in {"confirmed", "retired"}]_vars

\* What a source has mapped already is not suggested again (mapping_ai.py:87-103):
\* two overlapping suggestions both are committed.
SuggestedOnce ==
  [][\A s \in Sessions : CommitNew(s) /\ op[s] = "suggest" =>
       \A t \in goal[s] : Unseen(t)]_vars

\* A request that loaded its mappings is answered, also when two bulk requests
\* take the same rows in opposite orders.
EveryRequestAnswered ==
  \A s \in Sessions : op[s] \in RowOps ~> op[s] = "idle"

\* As long as requests do not overlap they implement MappingLifecycle.
Lifecycle == INSTANCE MappingLifecycle
LifecycleSpec == Lifecycle!Init /\ [][~overlap => Lifecycle!Next]_(Lifecycle!vars)
=============================================================================
