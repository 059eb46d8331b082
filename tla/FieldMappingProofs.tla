------------------------- MODULE FieldMappingProofs -------------------------
(***************************************************************************)
(* Theorems about FieldMapping for every set of sessions, mappings,        *)
(* targets, users and operations and every number of requests.             *)
(***************************************************************************)
EXTENDS FieldMapping, SequenceTheorems, TLAPS

\* A request about stored rows works on rows that it loaded and that are still
\* there; it speaks for a user, and only a bulk request has more than one row.
LocalOK == \A s \in Sessions :
  /\ todo[s] \subseteq work[s]
  /\ op[s] \notin RowOps => work[s] = {}
  /\ op[s] \in RowOps => /\ actor[s] \in Actors
                         /\ \A m \in work[s] : loaded[s][m] # Absent /\ row[m] # Absent
  /\ op[s] # "bulk" => \A m, n \in work[s] : m = n
  /\ op[s] = "edit" => \E t \in Targets : t \in goal[s]

IInv == TypeOK /\ LocalOK

-----------------------------------------------------------------------------
(* What the operators of the model return.                                 *)

\* An event of two rows is an event, and appending it keeps what was said.
LEMMA EventTypes ==
  ASSUME NEW a \in Actions, NEW u \in Actors \cup {Null}, NEW o \in Rows, NEW n \in Rows
  PROVE  Event(a, u, o, n) \in Events
<1>1. Snap(o) \in {Snap(r) : r \in Rows} /\ Snap(n) \in {Snap(r) : r \in Rows}
  OBVIOUS
<1> QED BY <1>1 DEF Event, Events

LEMMA AppendKeeps ==
  ASSUME NEW S, NEW h \in Seq(S), NEW e \in S
  PROVE  /\ Append(h, e) \in Seq(S) /\ Append(h, e) # <<>>
         /\ Len(Append(h, e)) = Len(h) + 1
         /\ Append(h, e)[Len(h) + 1] = e
         /\ \A i \in DOMAIN h : i \in DOMAIN Append(h, e) /\ Append(h, e)[i] = h[i]
         /\ Len(h) + 1 \in DOMAIN Append(h, e)
OBVIOUS

\* The columns of a row of the table.
LEMMA RowColumns ==
  ASSUME NEW r \in Rows, r # Absent
  PROVE  /\ r.status \in MappingStatuses /\ r.target \in Targets
         /\ r.by \in Actors \cup {Null}
         /\ r = [status |-> r.status, target |-> r.target, by |-> r.by]
BY DEF Rows

\* A stored row never looks like an absent one.
LEMMA StoredIsPresent ==
  ASSUME NEW x \in MappingStatuses, NEW t, NEW u
  PROVE  [status |-> x, target |-> t, by |-> u] # Absent
<1>1. x # "none"
  BY DEF MappingStatuses
<1>2. [status |-> x, target |-> t, by |-> u].status = x /\ Absent.status = "none"
  BY DEF Absent
<1> QED BY <1>1, <1>2

\* The changed mapping is a row, and tells the operation it comes from.
LEMMA ChangedRow ==
  ASSUME IInv, NEW s \in Sessions, op[s] \in RowOps, NEW m \in work[s]
  PROVE  /\ Changed(s, m) \in Rows /\ Changed(s, m) # Absent
         /\ Changed(s, m).status # loaded[s][m].status /\ Changed(s, m).status = "confirmed"
              => op[s] \in {"confirm", "bulk"}
         /\ Changed(s, m).by # loaded[s][m].by /\ Changed(s, m).by # Null
              => op[s] \in {"confirm", "bulk"} /\ Changed(s, m).by = actor[s]
<1> DEFINE r == loaded[s][m]
<1>1. m \in Mappings /\ r \in Rows /\ r # Absent /\ actor[s] \in Actors
  BY DEF IInv, TypeOK, LocalOK
<1>2. /\ r.status \in MappingStatuses /\ r.target \in Targets /\ r.by \in Actors \cup {Null}
      /\ r = [status |-> r.status, target |-> r.target, by |-> r.by]
  BY <1>1, RowColumns
<1> HIDE DEF r
<1>3. CASE op[s] \in {"confirm", "bulk"}
  <2>1. Changed(s, m) = [status |-> "confirmed", target |-> r.target, by |-> actor[s]]
    BY <1>2, <1>3 DEF Changed, r
  <2> QED BY <1>1, <1>2, <1>3, <2>1, StoredIsPresent DEF Rows, MappingStatuses, r
<1>4. CASE op[s] = "reject"
  <2>1. Changed(s, m) = [status |-> "rejected", target |-> r.target, by |-> Null]
    BY <1>2, <1>4 DEF Changed, Rejected, r
  <2> QED BY <1>1, <1>2, <1>4, <2>1, StoredIsPresent DEF Rows, MappingStatuses, r
<1>5. CASE op[s] = "retire"
  <2>1. Changed(s, m) = [status |-> "retired", target |-> r.target, by |-> r.by]
    BY <1>2, <1>5 DEF Changed, r
  <2> QED BY <1>1, <1>2, <1>5, <2>1, StoredIsPresent DEF Rows, MappingStatuses, r
<1>6. CASE op[s] = "edit"
  <2> DEFINE t == CHOOSE t \in Targets : t \in goal[s]
  <2>1. t \in Targets
    BY <1>6 DEF IInv, LocalOK
  <2>2. Changed(s, m) = [status |-> r.status, target |-> t, by |-> r.by]
    BY <1>2, <1>6 DEF Changed, r
  <2> HIDE DEF t
  <2> QED BY <1>1, <1>2, <1>6, <2>1, <2>2, StoredIsPresent DEF Rows, MappingStatuses, r
<1> QED BY <1>3, <1>4, <1>5, <1>6 DEF RowOps

\* What a commit writes is a row; a confirmation in it is the one of the operation
\* or was there before.
LEMMA UpdatedRow ==
  ASSUME IInv, NEW s \in Sessions, op[s] \in RowOps, NEW m \in work[s]
  PROVE  /\ Updated(s, m) \in Rows /\ Updated(s, m) # Absent
         /\ Updated(s, m).status = "confirmed" =>
              row[m].status = "confirmed" \/ op[s] \in {"confirm", "bulk"}
         /\ Updated(s, m).by # Null =>
              \/ Updated(s, m).by = row[m].by
              \/ op[s] \in {"confirm", "bulk"} /\ Updated(s, m).by = actor[s]
<1> DEFINE o == loaded[s][m]
           n == Changed(s, m)
           r == row[m]
           x == IF n.status # o.status THEN n.status ELSE r.status
           y == IF n.target # o.target THEN n.target ELSE r.target
           z == IF n.by # o.by THEN n.by ELSE r.by
<1>1. m \in Mappings /\ r \in Rows /\ r # Absent
  BY DEF IInv, TypeOK, LocalOK
<1>2. /\ n \in Rows /\ n # Absent
      /\ n.status # o.status /\ n.status = "confirmed" => op[s] \in {"confirm", "bulk"}
      /\ n.by # o.by /\ n.by # Null => op[s] \in {"confirm", "bulk"} /\ n.by = actor[s]
  BY ChangedRow
<1>3. Updated(s, m) = [status |-> x, target |-> y, by |-> z]
  BY DEF Updated
<1> HIDE DEF o, n, r
<1>4. x \in MappingStatuses /\ y \in Targets /\ z \in Actors \cup {Null}
  BY <1>1, <1>2, RowColumns
<1>5. Updated(s, m).status = x /\ Updated(s, m).by = z
  BY <1>3
<1>6. x = "confirmed" => r.status = "confirmed" \/ op[s] \in {"confirm", "bulk"}
  BY <1>2
<1>7. z # Null => z = r.by \/ (op[s] \in {"confirm", "bulk"} /\ z = actor[s])
  BY <1>2
<1>8. Updated(s, m) \in Rows /\ Updated(s, m) # Absent
  BY <1>3, <1>4, StoredIsPresent DEF Rows
<1> QED BY <1>5, <1>6, <1>7, <1>8 DEF r

\* The event of a commit is an event.
LEMMA LoggedHistory ==
  ASSUME IInv, NEW s \in Sessions, op[s] \in RowOps, NEW m \in work[s]
  PROVE  /\ Logged(s, m) \in Seq(Events) /\ Logged(s, m) # <<>>
         /\ Logged(s, m) =
              Append(history[m], Event(Action(s), actor[s], loaded[s][m], Changed(s, m)))
         /\ Event(Action(s), actor[s], loaded[s][m], Changed(s, m)) \in Events
<1>1. Action(s) \in Actions
  BY DEF Action, Actions
<1>2. /\ actor[s] \in Actors /\ loaded[s][m] \in Rows /\ Changed(s, m) \in Rows
      /\ history[m] \in Seq(Events)
  BY ChangedRow DEF IInv, TypeOK, LocalOK
<1>3. Event(Action(s), actor[s], loaded[s][m], Changed(s, m)) \in Events
  BY <1>1, <1>2, EventTypes
<1> QED BY <1>2, <1>3, AppendKeeps DEF Logged

-----------------------------------------------------------------------------
(* The inductive invariant.                                                *)

LEMMA InitialInvariant == Init => IInv
<1> SUFFICES ASSUME Init PROVE IInv
  OBVIOUS
<1>1. TypeOK
  <2>1. overlap \in BOOLEAN
    BY DEF Init
  <2> QED BY <2>1, FieldMappingAssumption DEF Init, TypeOK, Rows, AllOps, Nothing, Absent
<1>2. LocalOK
  BY DEF Init, LocalOK, RowOps
<1> QED BY <1>1, <1>2 DEF IInv

\* Loading rows keeps the invariant.
LEMMA BeginStep ==
  ASSUME IInv, NEW s \in Sessions, NEW o \in AllOps, NEW a \in Actors \cup {Null},
         NEW ms \in SUBSET Stored, NEW ts \in SUBSET Targets,
         Begin(s, o, a, ms, ts), Named(o, ms) \/ ms = {},
         o \in RowOps => a \in Actors, o \notin RowOps => ms = {}, o = "edit" => ts # {}
  PROVE  IInv'
<1> USE DEF Begin, IInv, table
<1>1. requests' \in 0..MaxRequests
  BY FieldMappingAssumption DEF TypeOK
<1>2. \A m \in Mappings : holder[m] # Null => holder[m] # s
  BY DEF TypeOK, LocalOK, RowOps
<1>3. TypeOK'
  BY <1>1, <1>2 DEF TypeOK, Stored, Nothing
<1>4. LocalOK'
  BY DEF TypeOK, LocalOK, Stored, Named
<1> QED BY <1>3, <1>4

\* The end of a transaction that left the rows alone, or changed those of work[s].
LEMMA EndStep ==
  ASSUME IInv, NEW s \in Sessions, EndSession(s),
         row' \in [Mappings -> Rows], history' \in [Mappings -> Seq(Events)],
         \A m \in Mappings : Nothing(m)' <=> row'[m] = Absent,
         \A m \in Mappings : row[m] # Absent => row'[m] # Absent
  PROVE  IInv'
<1> USE DEF EndSession, Freed, IInv
<1>1. TypeOK'
  BY DEF TypeOK, Absent, Rows, LocalOK
<1>2. LocalOK'
  BY DEF TypeOK, LocalOK, RowOps
<1> QED BY <1>1, <1>2

\* Commits write rows and their events.
LEMMA CommitRowsTables ==
  ASSUME IInv, NEW s \in Sessions, CommitRows(s)
  PROVE  /\ row' \in [Mappings -> Rows] /\ history' \in [Mappings -> Seq(Events)]
         /\ \A m \in Mappings : Nothing(m)' <=> row'[m] = Absent
         /\ \A m \in Mappings : row[m] # Absent => row'[m] # Absent
         /\ \A m \in work[s] : m \in Mappings
<1> USE DEF CommitRows
<1>1. \A m \in work[s] : /\ Updated(s, m) \in Rows /\ Updated(s, m) # Absent
                         /\ Logged(s, m) \in Seq(Events) /\ Logged(s, m) # <<>>
  BY UpdatedRow, LoggedHistory
<1> HIDE DEF Updated, Logged
<1> QED BY <1>1 DEF IInv, TypeOK, LocalOK, Nothing

LEMMA CommitNewTables ==
  ASSUME IInv, NEW s \in Sessions, CommitNew(s)
  PROVE  /\ row' \in [Mappings -> Rows] /\ history' \in [Mappings -> Seq(Events)]
         /\ \A m \in Mappings : Nothing(m)' <=> row'[m] = Absent
         /\ \A m \in Mappings :
              \/ row'[m] = row[m] /\ history'[m] = history[m]
              \/ /\ row[m] = Absent /\ history[m] = <<>> /\ row'[m] # Absent
                 /\ row'[m] \in Rows
                 /\ row'[m].status = "suggested" /\ row'[m].by = Null
                 /\ history'[m] = <<Event("suggested", actor[s], Absent, row'[m])>>
<1>1. PICK new \in [goal[s] -> Mappings \ Stored] :
        LET At(m) == CHOOSE t \in goal[s] : new[t] = m
            Ids   == {new[t] : t \in goal[s]}
        IN /\ row' = [m \in Mappings |-> IF m \in Ids THEN Suggested(At(m)) ELSE row[m]]
           /\ history' = [m \in Mappings |->
                IF m \in Ids
                  THEN Append(history[m], Event("suggested", actor[s], Absent, Suggested(At(m))))
                  ELSE history[m]]
  BY DEF CommitNew
<1> DEFINE At(m) == CHOOSE t \in goal[s] : new[t] = m
           Ids   == {new[t] : t \in goal[s]}
<1>2. /\ row' = [m \in Mappings |-> IF m \in Ids THEN Suggested(At(m)) ELSE row[m]]
      /\ history' = [m \in Mappings |->
           IF m \in Ids
             THEN Append(history[m], Event("suggested", actor[s], Absent, Suggested(At(m))))
             ELSE history[m]]
  BY <1>1
<1>3. \A m \in Ids : At(m) \in goal[s]
  OBVIOUS
<1>4. \A m \in Ids : /\ m \in Mappings /\ row[m] = Absent
                     /\ history[m] = <<>> /\ At(m) \in Targets
  BY <1>3 DEF IInv, TypeOK, Stored, Nothing
<1> HIDE DEF At, Ids
<1>5. \A t \in Targets : /\ Suggested(t) \in Rows /\ Suggested(t) # Absent
                         /\ Suggested(t).status = "suggested" /\ Suggested(t).by = Null
  BY StoredIsPresent DEF Suggested, Rows, MappingStatuses
<1>6. \A m \in Ids :
        Event("suggested", actor[s], Absent, Suggested(At(m))) \in Events
  BY <1>4, <1>5, EventTypes DEF IInv, TypeOK, Rows, Actions
<1>7. \A e \in Events : Append(<<>>, e) = <<e>> /\ <<e>> \in Seq(Events) /\ <<e>> # <<>>
  OBVIOUS
<1>8. row \in [Mappings -> Rows] /\ history \in [Mappings -> Seq(Events)]
  BY DEF IInv, TypeOK
<1>9. \A m \in Mappings : Nothing(m) <=> row[m] = Absent
  BY DEF IInv, TypeOK
<1> HIDE DEF Suggested, Event, Rows, Events, Absent
<1>10. \A m \in Ids : row'[m] = Suggested(At(m))
                      /\ history'[m] = <<Event("suggested", actor[s], Absent, Suggested(At(m)))>>
  BY <1>2, <1>4, <1>6, <1>7
<1>11. \A m \in Mappings \ Ids : row'[m] = row[m] /\ history'[m] = history[m]
  BY <1>2
<1>12. row' \in [Mappings -> Rows]
  BY <1>2, <1>4, <1>5, <1>8
<1>13. history' \in [Mappings -> Seq(Events)]
  BY <1>2, <1>4, <1>6, <1>7, <1>8
<1>14. \A m \in Mappings : Nothing(m)' <=> row'[m] = Absent
  BY <1>4, <1>5, <1>6, <1>7, <1>9, <1>10, <1>11 DEF Nothing
<1> QED BY <1>4, <1>5, <1>10, <1>11, <1>12, <1>13, <1>14

LEMMA InvariantStep == IInv /\ [Next]_vars => IInv'
<1> SUFFICES ASSUME IInv, [Next]_vars PROVE IInv'
  OBVIOUS
<1>1. ASSUME NEW s \in Sessions, LoadRows(s) PROVE IInv'
  <2>1. PICK o \in RowOps, a \in Actors, ms \in SUBSET Stored :
          /\ Named(o, ms)
          /\ \E t \in Targets : Begin(s, o, a, ms, IF o = "edit" THEN {t} ELSE {})
    BY <1>1 DEF LoadRows
  <2>2. PICK t \in Targets : Begin(s, o, a, ms, IF o = "edit" THEN {t} ELSE {})
    BY <2>1
  <2> QED BY <2>1, <2>2, BeginStep DEF AllOps
<1>2. ASSUME NEW s \in Sessions, LoadNew(s) PROVE IInv'
  <2>1. PICK ts \in SUBSET Targets :
          \/ Begin(s, "suggest", Null, {}, ts)
          \/ \E a \in Actors : Begin(s, "create", a, {}, ts)
    BY <1>2 DEF LoadNew
  <2>2. CASE Begin(s, "suggest", Null, {}, ts)
    BY <2>2, BeginStep DEF AllOps, RowOps
  <2>3. CASE \E a \in Actors : Begin(s, "create", a, {}, ts)
    BY <2>3, BeginStep DEF AllOps, RowOps
  <2> QED BY <2>1, <2>2, <2>3
<1>3. ASSUME NEW s \in Sessions, NEW m \in Mappings, Flush(s, m) PROVE IInv'
  <2> USE <1>3 DEF Flush, table, IInv
  <2>1. TypeOK'
    BY DEF TypeOK, LocalOK, Nothing
  <2>2. LocalOK'
    BY DEF TypeOK, LocalOK
  <2> QED BY <2>1, <2>2
<1>4. ASSUME NEW s \in Sessions, CommitRows(s) PROVE IInv'
  BY <1>4, CommitRowsTables, EndStep DEF CommitRows
<1>5. ASSUME NEW s \in Sessions, CommitNew(s) PROVE IInv'
  <2>1. \A m \in Mappings : row[m] # Absent => row'[m] # Absent
    BY <1>5, CommitNewTables
  <2> QED BY <1>5, <2>1, CommitNewTables, EndStep DEF CommitNew
<1>6. ASSUME NEW s \in Sessions, Abandon(s) \/ DeadlockVictim(s) PROVE IInv'
  <2>1. row' = row /\ history' = history /\ EndSession(s)
    BY <1>6 DEF Abandon, DeadlockVictim, table
  <2>2. /\ row' \in [Mappings -> Rows] /\ history' \in [Mappings -> Seq(Events)]
        /\ \A m \in Mappings : Nothing(m)' <=> row'[m] = Absent
    BY <2>1 DEF IInv, TypeOK, Nothing
  <2> QED BY <2>1, <2>2, EndStep
<1>7. CASE UNCHANGED vars
  BY <1>7 DEF vars, IInv, TypeOK, LocalOK, Nothing
<1> QED BY <1>1, <1>2, <1>3, <1>4, <1>5, <1>6, <1>7 DEF Next

LEMMA Invariance == Spec => []IInv
<1> QED BY InitialInvariant, InvariantStep, PTL DEF Spec

\* Rows, events, locks and local state keep their types; whoever holds a row lock
\* has flushed a change of that row and not ended.
THEOREM TypeCorrect == Spec => []TypeOK
<1>1. IInv => TypeOK
  BY DEF IInv
<1> QED BY <1>1, Invariance, PTL

\* Single-row requests never wait while they hold a lock, so that only bulk
\* confirmations can deadlock, whatever the number of sessions and rows.
THEOREM OnlyBulkConfirmsDeadlock == Spec => []OnlyBulkDeadlocks
<1>1. IInv => OnlyBulkDeadlocks
  <2> SUFFICES ASSUME IInv, NEW s \in Sessions, NEW t \in Sessions, s # t,
                      NEW m \in todo[s], NEW n \in todo[t], holder[m] = t, holder[n] = s
               PROVE  op[s] = "bulk" /\ op[t] = "bulk"
    BY DEF OnlyBulkDeadlocks
  <2>1. m \in Mappings /\ n \in Mappings /\ s # Null /\ t # Null
    BY FieldMappingAssumption DEF IInv, TypeOK
  <2>2. m \in work[t] \ todo[t] /\ n \in work[s] \ todo[s]
    BY <2>1 DEF IInv, TypeOK
  <2>3. m \in work[s] /\ n \in work[t] /\ m # n
    BY <2>2 DEF IInv, LocalOK
  <2> QED BY <2>2, <2>3 DEF IInv, LocalOK
<1> QED BY <1>1, Invariance, PTL

-----------------------------------------------------------------------------
\* A history only grows: what was confirmed stays confirmed in it.
LEMMA ConfirmationsStay ==
  ASSUME IInv, NEW s \in Sessions, CommitRows(s) \/ CommitNew(s),
         NEW m \in Mappings, NEW a, ConfirmedBy(history[m], a)
  PROVE  ConfirmedBy(history'[m], a)
<1>1. PICK i \in DOMAIN history[m] :
        history[m][i].action = "confirmed" /\ history[m][i].actor = a
  BY DEF ConfirmedBy
<1>2. history[m] \in Seq(Events)
  BY DEF IInv, TypeOK
<1>3. i \in DOMAIN history'[m] /\ history'[m][i] = history[m][i]
  <2>1. CASE CommitRows(s) /\ m \in work[s]
    <3>1. history'[m] = Logged(s, m) /\ op[s] \in RowOps
      BY <2>1 DEF CommitRows
    <3> QED BY <1>2, <2>1, <3>1, LoggedHistory, AppendKeeps
  <2>2. CASE CommitRows(s) /\ m \notin work[s]
    BY <2>2 DEF CommitRows
  <2>3. CASE CommitNew(s)
    <3>1. history[m] # <<>>
      BY <1>1, <1>2
    <3>2. history'[m] = history[m]
      BY <2>3, <3>1, CommitNewTables
    <3> QED BY <3>2
  <2> QED BY <2>1, <2>2, <2>3
<1> QED BY <1>1, <1>3 DEF ConfirmedBy

\* A confirmation leaves its event.
LEMMA ConfirmationIsLogged ==
  ASSUME IInv, NEW s \in Sessions, CommitRows(s), op[s] \in {"confirm", "bulk"},
         NEW m \in work[s]
  PROVE  ConfirmedBy(history'[m], actor[s]) /\ actor[s] \in Actors
<1> DEFINE e == Event(Action(s), actor[s], loaded[s][m], Changed(s, m))
<1>1. op[s] \in RowOps /\ m \in Mappings /\ actor[s] \in Actors
      /\ history[m] \in Seq(Events)
  BY DEF RowOps, IInv, TypeOK, LocalOK
<1>2. history'[m] = Append(history[m], e) /\ e \in Events
  BY <1>1, LoggedHistory DEF CommitRows
<1>3. e.action = "confirmed" /\ e.actor = actor[s]
  BY DEF Event, Action
<1> HIDE DEF e
<1>4. history'[m][Len(history[m]) + 1] = e /\ Len(history[m]) + 1 \in DOMAIN history'[m]
  BY <1>1, <1>2, AppendKeeps
<1> QED BY <1>1, <1>3, <1>4 DEF ConfirmedBy

\* In every interleaving a mapping that syncs read is backed by a user's event.
THEOREM NothingIsAppliedAutomatically == Spec => []OnlyUsersConfirm
<1>1. Init => OnlyUsersConfirm
  BY DEF Init, OnlyUsersConfirm, Absent
<1>2. ASSUME IInv, OnlyUsersConfirm, [Next]_vars PROVE OnlyUsersConfirm'
  <2>1. ASSUME NEW s \in Sessions, CommitRows(s) PROVE OnlyUsersConfirm'
    <3> SUFFICES ASSUME NEW m \in Mappings
                 PROVE  /\ row'[m].status = "confirmed" => \E a \in Actors : ConfirmedBy(history'[m], a)
                        /\ row'[m].by # Null => ConfirmedBy(history'[m], row'[m].by)
      BY DEF OnlyUsersConfirm, ConfirmedBy
    <3>1. \A a : ConfirmedBy(history[m], a) => ConfirmedBy(history'[m], a)
      BY <1>2, <2>1, ConfirmationsStay
    <3>2. /\ row[m].status = "confirmed" => \E a \in Actors : ConfirmedBy(history[m], a)
          /\ row[m].by # Null => ConfirmedBy(history[m], row[m].by)
      BY <1>2 DEF OnlyUsersConfirm
    <3>3. CASE m \in work[s]
      <4>1. row'[m] = Updated(s, m) /\ op[s] \in RowOps
        BY <2>1, <3>3 DEF CommitRows
      <4>2. /\ row'[m].status = "confirmed" =>
                 row[m].status = "confirmed" \/ op[s] \in {"confirm", "bulk"}
            /\ row'[m].by # Null => \/ row'[m].by = row[m].by
                                    \/ op[s] \in {"confirm", "bulk"} /\ row'[m].by = actor[s]
        BY <1>2, <3>3, <4>1, UpdatedRow
      <4>3. op[s] \in {"confirm", "bulk"} =>
              ConfirmedBy(history'[m], actor[s]) /\ actor[s] \in Actors
        BY <1>2, <2>1, <3>3, ConfirmationIsLogged
      <4> QED BY <3>1, <3>2, <4>2, <4>3
    <3>4. CASE m \notin work[s]
      <4>1. row'[m] = row[m]
        BY <2>1, <3>4 DEF CommitRows, IInv, TypeOK
      <4> QED BY <3>1, <3>2, <4>1
    <3> QED BY <3>3, <3>4
  <2>2. ASSUME NEW s \in Sessions, CommitNew(s) PROVE OnlyUsersConfirm'
    <3> SUFFICES ASSUME NEW m \in Mappings
                 PROVE  /\ row'[m].status = "confirmed" => \E a \in Actors : ConfirmedBy(history'[m], a)
                        /\ row'[m].by # Null => ConfirmedBy(history'[m], row'[m].by)
      BY DEF OnlyUsersConfirm, ConfirmedBy
    <3>1. \/ row'[m] = row[m]
          \/ row'[m].status = "suggested" /\ row'[m].by = Null
      BY <1>2, <2>2, CommitNewTables
    <3>2. \A a : ConfirmedBy(history[m], a) => ConfirmedBy(history'[m], a)
      BY <1>2, <2>2, ConfirmationsStay
    <3> QED BY <1>2, <3>1, <3>2 DEF OnlyUsersConfirm
  <2>3. CASE UNCHANGED table
    BY <1>2, <2>3 DEF OnlyUsersConfirm, ConfirmedBy, table
  <2>4. ASSUME NEW s \in Sessions,
               \/ LoadRows(s) \/ LoadNew(s) \/ \E m \in Mappings : Flush(s, m)
               \/ Abandon(s) \/ DeadlockVictim(s)
        PROVE  UNCHANGED table
    BY <2>4 DEF LoadRows, LoadNew, Begin, Flush, Abandon, DeadlockVictim
  <2>5. UNCHANGED vars => UNCHANGED table
    BY DEF vars, table
  <2> QED BY <1>2, <2>1, <2>2, <2>3, <2>4, <2>5 DEF Next
<1> QED BY <1>1, <1>2, Invariance, PTL DEF Spec

-----------------------------------------------------------------------------
(* As long as requests do not overlap, what one loaded is still there when *)
(* it commits.                                                             *)

OneAtATime == \A s, t \in Sessions : op[s] # "idle" /\ op[t] # "idle" => s = t

ReadIsCurrent == \A s \in Sessions : op[s] # "idle" => loaded[s] = row

\* What a request decided on still holds.
Decided == \A s \in Sessions :
  /\ op[s] = "confirm" => \A m \in work[s] : row[m].status # "retired"
  /\ op[s] = "bulk" => \A m \in work[s] : row[m].status = "suggested"
  /\ op[s] = "suggest" => actor[s] = Null /\ \A t \in goal[s] : Unseen(t)
  /\ op[s] = "create" => actor[s] \in Actors

SInv == IInv /\ OneAtATime /\ ReadIsCurrent /\ Decided /\ HistoryIsWhole /\ ConfirmerFits

\* With nobody in between, the row becomes what the request made of it.
LEMMA UndisturbedUpdate ==
  ASSUME IInv, ReadIsCurrent, NEW s \in Sessions, op[s] \in RowOps, NEW m \in work[s]
  PROVE  Updated(s, m) = Changed(s, m) /\ loaded[s][m] = row[m]
<1>1. loaded[s][m] = row[m] /\ m \in Mappings
  BY DEF ReadIsCurrent, RowOps, IInv, TypeOK
<1>2. Changed(s, m) \in Rows /\ Changed(s, m) # Absent
  BY ChangedRow
<1> DEFINE n == Changed(s, m)
<1>3. n = [status |-> n.status, target |-> n.target, by |-> n.by]
  BY <1>2, RowColumns
<1>4. Updated(s, m) = [status |-> n.status, target |-> n.target, by |-> n.by]
  <2> HIDE DEF n
  <2> QED BY <1>1 DEF Updated, n
<1> QED BY <1>1, <1>3, <1>4

\* The story goes on where it stopped.
LEMMA StoryGoesOn ==
  ASSUME NEW h \in Seq(Events), NEW r \in Rows, NEW n \in Rows, NEW a \in Actions,
         NEW u \in Actors \cup {Null}, h # <<>>, h[1].before = Snap(Absent),
         h[Len(h)].after = Snap(r),
         \A i \in 1 .. Len(h) - 1 : h[i + 1].before = h[i].after
  PROVE  LET g == Append(h, Event(a, u, r, n)) IN
         /\ g # <<>> /\ g[1].before = Snap(Absent) /\ g[Len(g)].after = Snap(n)
         /\ \A i \in 1 .. Len(g) - 1 : g[i + 1].before = g[i].after
<1> DEFINE e == Event(a, u, r, n)
           g == Append(h, e)
<1>1. e \in Events /\ e.before = Snap(r) /\ e.after = Snap(n)
  BY EventTypes DEF Event
<1> HIDE DEF e
<1>2. /\ Len(g) = Len(h) + 1 /\ Len(h) \in Nat \ {0} /\ g[Len(h) + 1] = e
      /\ \A i \in 1 .. Len(h) : g[i] = h[i]
  BY <1>1
<1>3. \A i \in 1 .. Len(g) - 1 : g[i + 1].before = g[i].after
  <2> SUFFICES ASSUME NEW i \in 1 .. Len(h) PROVE g[i + 1].before = g[i].after
    BY <1>2
  <2>1. CASE i = Len(h)
    BY <1>1, <1>2, <2>1
  <2>2. CASE i # Len(h)
    <3>1. i \in 1 .. Len(h) - 1 /\ i + 1 \in 1 .. Len(h)
      BY <1>2, <2>2
    <3> QED BY <1>2, <3>1
  <2> QED BY <2>1, <2>2
<1> QED BY <1>1, <1>2, <1>3 DEF e

LEMMA UndisturbedRows ==
  ASSUME SInv, NEW s \in Sessions, CommitRows(s)
  PROVE  HistoryIsWhole' /\ ConfirmerFits'
<1>1. \A m \in work[s] : /\ m \in Mappings /\ op[s] \in RowOps
                         /\ row'[m] = Changed(s, m) /\ loaded[s][m] = row[m]
                         /\ row'[m] \in Rows /\ row[m] # Absent
                         /\ history'[m] = Logged(s, m) /\ history[m] # <<>>
  <2>1. IInv /\ ReadIsCurrent
    BY DEF SInv
  <2>2. op[s] \in RowOps /\ \A m \in work[s] : m \in Mappings /\ row[m] # Absent
    BY <2>1 DEF CommitRows, IInv, LocalOK, TypeOK
  <2>3. \A m \in work[s] : Updated(s, m) = Changed(s, m) /\ loaded[s][m] = row[m]
    BY <2>1, <2>2, UndisturbedUpdate
  <2>4. \A m \in work[s] : history[m] # <<>>
    BY <2>1, <2>2 DEF IInv, TypeOK, Nothing
  <2>5. \A m \in work[s] : row'[m] = Updated(s, m) /\ history'[m] = Logged(s, m)
    BY <2>2 DEF CommitRows
  <2>6. row' \in [Mappings -> Rows]
    BY <2>1, CommitRowsTables
  <2> QED BY <2>2, <2>3, <2>4, <2>5, <2>6
<1>2. \A m \in Mappings \ work[s] : row'[m] = row[m] /\ history'[m] = history[m]
  BY DEF CommitRows
<1> DEFINE Tells(h, r) == /\ h # <<>> => h[1].before = Snap(Absent) /\ h[Len(h)].after = Snap(r)
                          /\ \A i \in 1 .. Len(h) - 1 : h[i + 1].before = h[i].after
<1>3. HistoryIsWhole'
  <2>0. HistoryIsWhole' <=> \A m \in Mappings : Tells(history'[m], row'[m])
    BY DEF HistoryIsWhole, Snap, Absent
  <2>a. \A m \in Mappings \ work[s] : Tells(history'[m], row'[m])
    BY <1>2 DEF SInv, HistoryIsWhole
  <2> SUFFICES ASSUME NEW m \in work[s] PROVE Tells(history'[m], row'[m])
    BY <2>0, <2>a
  <2>1. history'[m] = Append(history[m], Event(Action(s), actor[s], row[m], row'[m]))
    BY <1>1, LoggedHistory DEF SInv
  <2>2. /\ Action(s) \in Actions /\ actor[s] \in Actors \cup {Null} /\ row[m] \in Rows
        /\ history[m] \in Seq(Events) /\ row'[m] \in Rows
    BY <1>1 DEF SInv, IInv, TypeOK, Action, Actions
  <2>3. /\ history[m] # <<>> /\ history[m][1].before = Snap(Absent)
        /\ history[m][Len(history[m])].after = Snap(row[m])
        /\ \A i \in 1 .. Len(history[m]) - 1 : history[m][i + 1].before = history[m][i].after
    BY <1>1 DEF SInv, HistoryIsWhole
  <2> QED BY <2>1, <2>2, <2>3, StoryGoesOn
<1>4. ConfirmerFits'
  <2> SUFFICES ASSUME NEW m \in work[s]
               PROVE  /\ row'[m].status = "confirmed" => row'[m].by # Null
                      /\ row'[m].status \in {"suggested", "rejected"} => row'[m].by = Null
    BY <1>2 DEF SInv, ConfirmerFits
  <2>1. /\ m \in Mappings /\ actor[s] \in Actors /\ Null \notin Actors
        /\ row'[m] = Changed(s, m) /\ loaded[s][m] = row[m] /\ op[s] \in RowOps
        /\ row[m] \in Rows /\ row[m] # Absent
    BY <1>1, FieldMappingAssumption DEF SInv, IInv, LocalOK, TypeOK
  <2>2. row[m] = [status |-> row[m].status, target |-> row[m].target, by |-> row[m].by]
    BY <2>1, RowColumns
  <2>3. /\ row[m].status = "confirmed" => row[m].by # Null
        /\ row[m].status \in {"suggested", "rejected"} => row[m].by = Null
    BY <2>1 DEF SInv, ConfirmerFits
  <2> QED BY <2>1, <2>2, <2>3 DEF Changed, Rejected, RowOps
<1> QED BY <1>3, <1>4

LEMMA UndisturbedNew ==
  ASSUME SInv, NEW s \in Sessions, CommitNew(s)
  PROVE  HistoryIsWhole' /\ ConfirmerFits'
<1>1. \A m \in Mappings :
        \/ row'[m] = row[m] /\ history'[m] = history[m]
        \/ /\ row'[m].status = "suggested" /\ row'[m].by = Null
           /\ history'[m] = <<Event("suggested", actor[s], Absent, row'[m])>>
  BY CommitNewTables DEF SInv
<1>2. \A o, n, u : LET h == <<Event("suggested", u, o, n)>> IN
        Len(h) = 1 /\ h[1].before = Snap(o) /\ h[Len(h)].after = Snap(n)
  BY DEF Event
<1>3. HistoryIsWhole'
  <2>1. HistoryIsWhole
    BY DEF SInv
  <2> QED BY <1>1, <1>2, <2>1 DEF HistoryIsWhole, Snap
<1>4. ConfirmerFits'
  BY <1>1 DEF SInv, ConfirmerFits
<1> QED BY <1>3, <1>4

\* What begins while nothing else is open finds the rows as they stay.
LEMMA UndisturbedStep ==
  ASSUME SInv, ~overlap, [Next]_vars, ~overlap'
  PROVE  SInv'
<1>0. IInv'
  BY InvariantStep DEF SInv
<1> DEFINE Settled == OneAtATime' /\ ReadIsCurrent' /\ Decided' /\ UNCHANGED table
<1>1. ASSUME NEW s \in Sessions, NEW o, NEW a, NEW ms, NEW ts, Begin(s, o, a, ms, ts),
             o = "confirm" => \A m \in ms : row[m].status # "retired",
             o = "bulk" => \A m \in ms : row[m].status = "suggested",
             o = "suggest" => a = Null /\ \A t \in ts : Unseen(t),
             o = "create" => a \in Actors
      PROVE  Settled
  <2>1. \A t \in Sessions : op[t] = "idle"
    BY <1>1 DEF Begin, IInv, TypeOK
  <2>2. UNCHANGED table /\ OneAtATime'
    BY <1>1, <2>1 DEF Begin, table, OneAtATime, SInv, IInv, TypeOK
  <2>3. ReadIsCurrent'
    BY <1>1, <2>1 DEF Begin, table, ReadIsCurrent, SInv, IInv, TypeOK
  <2>4. Decided'
    BY <1>1, <2>1 DEF Begin, table, Decided, Unseen, Stored, SInv, IInv, TypeOK
  <2> QED BY <2>2, <2>3, <2>4
<1>2. ASSUME NEW s \in Sessions, LoadRows(s) PROVE Settled
  BY <1>1, <1>2 DEF LoadRows, Eligible, RowOps
<1>3. ASSUME NEW s \in Sessions, LoadNew(s) PROVE Settled
  BY <1>1, <1>3 DEF LoadNew
<1>4. ASSUME NEW s \in Sessions, NEW m \in Mappings, Flush(s, m)
      PROVE  Settled
  BY <1>4 DEF Flush, OneAtATime, ReadIsCurrent, Decided, Unseen, Stored, table, SInv
<1>5. ASSUME NEW s \in Sessions, op[s] # "idle", EndSession(s)
      PROVE  OneAtATime' /\ ReadIsCurrent' /\ Decided'
  <2>1. TypeOK /\ OneAtATime
    BY DEF SInv, IInv
  <2>2. \A t \in Sessions : op'[t] = "idle"
    BY <1>5, <2>1 DEF EndSession, TypeOK, OneAtATime
  <2> QED BY <2>2 DEF OneAtATime, ReadIsCurrent, Decided
<1>6. ASSUME NEW s \in Sessions, CommitRows(s) PROVE SInv'
  <2>1. op[s] # "idle"
    BY <1>6 DEF CommitRows, RowOps
  <2> QED BY <1>0, <1>5, <1>6, <2>1, UndisturbedRows DEF SInv, CommitRows
<1>7. ASSUME NEW s \in Sessions, CommitNew(s) PROVE SInv'
  BY <1>0, <1>5, <1>7, UndisturbedNew DEF SInv, CommitNew
<1>8. ASSUME NEW s \in Sessions, Abandon(s) \/ DeadlockVictim(s)
      PROVE  Settled
  <2>1. CASE Abandon(s)
    BY <1>5, <2>1 DEF Abandon
  <2>2. CASE DeadlockVictim(s)
    <3>1. todo[s] # {}
      BY <2>2 DEF DeadlockVictim
    <3>2. op[s] # "idle"
      BY <3>1 DEF SInv, IInv, LocalOK, RowOps
    <3> QED BY <1>5, <2>2, <3>2 DEF DeadlockVictim
  <2> QED BY <1>8, <2>1, <2>2
<1>9. CASE UNCHANGED vars
  BY <1>0, <1>9 DEF vars, SInv, OneAtATime, ReadIsCurrent, Decided, Unseen, Stored,
                    HistoryIsWhole, ConfirmerFits
<1>10. Settled => SInv'
  BY <1>0 DEF SInv, HistoryIsWhole, ConfirmerFits, table
<1> QED BY <1>2, <1>3, <1>4, <1>6, <1>7, <1>8, <1>9, <1>10 DEF Next

LEMMA OverlapStays == [Next]_vars /\ overlap => overlap'
<1> SUFFICES ASSUME [Next]_vars, overlap PROVE overlap'
  OBVIOUS
<1>1. ASSUME NEW s \in Sessions, LoadRows(s) \/ LoadNew(s) PROVE overlap'
  BY <1>1 DEF LoadRows, LoadNew, Begin
<1>2. ASSUME NEW s \in Sessions, NEW m \in Mappings, Flush(s, m) PROVE overlap'
  BY <1>2 DEF Flush
<1>3. ASSUME NEW s \in Sessions,
             CommitRows(s) \/ CommitNew(s) \/ Abandon(s) \/ DeadlockVictim(s)
      PROVE  overlap'
  BY <1>3 DEF CommitRows, CommitNew, Abandon, DeadlockVictim, EndSession
<1>4. CASE UNCHANGED vars
  BY <1>4 DEF vars
<1> QED BY <1>1, <1>2, <1>3, <1>4 DEF Next

UInv == IInv /\ (~overlap => SInv)

LEMMA UndisturbedInvariance == Spec => []UInv
<1>1. Init => UInv
  BY InitialInvariant DEF Init, UInv, SInv, OneAtATime, ReadIsCurrent, Decided, HistoryIsWhole,
                          ConfirmerFits, Absent
<1>2. UInv /\ [Next]_vars => UInv'
  <2> SUFFICES ASSUME UInv, [Next]_vars PROVE UInv'
    OBVIOUS
  <2>1. IInv /\ overlap \in BOOLEAN
    BY DEF UInv, IInv, TypeOK
  <2>2. IInv'
    BY <2>1, InvariantStep
  <2>3. ASSUME ~overlap' PROVE SInv'
    BY <2>1, <2>3, OverlapStays, UndisturbedStep DEF UInv
  <2> QED BY <2>2, <2>3 DEF UInv
<1> QED BY <1>1, <1>2, PTL DEF Spec

\* As long as requests do not overlap, the change events tell the whole story of
\* each mapping.
THEOREM HistoryIsComplete == Spec => []HistoryTellsRow
<1>1. UInv => HistoryTellsRow
  BY DEF UInv, SInv, HistoryTellsRow
<1> QED BY <1>1, UndisturbedInvariance, PTL

\* As long as requests do not overlap, confirmed_by names somebody exactly as the
\* status says.
THEOREM ConfirmerMatches == Spec => []ConfirmerMatchesStatus
<1>1. UInv => ConfirmerMatchesStatus
  BY DEF UInv, SInv, ConfirmerMatchesStatus
<1> QED BY <1>1, UndisturbedInvariance, PTL

-----------------------------------------------------------------------------
(* Requests that do not overlap implement MappingLifecycle.                *)

\* What a commit does to the tables, in the words of the lifecycle.
LEMMA CommitIsChange ==
  ASSUME SInv, NEW s \in Sessions, CommitRows(s)
  PROVE  \A new : (\A m \in work[s] : new[m] = Changed(s, m)) =>
                    Lifecycle!Change(work[s], Action(s), actor[s], new)
<1> SUFFICES ASSUME NEW new, \A m \in work[s] : new[m] = Changed(s, m)
             PROVE  Lifecycle!Change(work[s], Action(s), actor[s], new)
  OBVIOUS
<1>1. op[s] \in RowOps /\ IInv /\ ReadIsCurrent
  BY DEF CommitRows, SInv
<1>2. \A m \in work[s] : /\ Updated(s, m) = new[m] /\ loaded[s][m] = row[m]
                         /\ Changed(s, m) = new[m]
  BY <1>1, UndisturbedUpdate
<1>3. row' = [m \in Mappings |-> IF m \in work[s] THEN new[m] ELSE row[m]]
  BY <1>2 DEF CommitRows
<1>4. \A m \in work[s] :
        Logged(s, m) = Append(history[m], [action |-> Action(s), actor |-> actor[s],
                                           before |-> Lifecycle!Snap(row[m]),
                                           after |-> Lifecycle!Snap(new[m])])
  BY <1>2 DEF Logged, Event, Snap, Lifecycle!Snap
<1>5. history' = [m \in Mappings |->
        IF m \in work[s]
          THEN Append(history[m], [action |-> Action(s), actor |-> actor[s],
                                   before |-> Lifecycle!Snap(row[m]),
                                   after |-> Lifecycle!Snap(new[m])])
          ELSE history[m]]
  BY <1>4 DEF CommitRows
<1> QED BY <1>3, <1>5 DEF Lifecycle!Change

LEMMA CommitRowsRefines ==
  ASSUME SInv, NEW s \in Sessions, CommitRows(s)
  PROVE  [Lifecycle!Next]_(Lifecycle!vars)
<1>1. /\ op[s] \in RowOps /\ actor[s] \in Actors /\ work[s] \in SUBSET Mappings
      /\ \A m \in work[s] : /\ loaded[s][m] = row[m] /\ row[m] # Absent
                            /\ row[m] \in Rows
      /\ op[s] # "bulk" => \A m, n \in work[s] : m = n
  BY DEF CommitRows, SInv, IInv, LocalOK, TypeOK, ReadIsCurrent, RowOps
<1>2. \A new : (\A m \in work[s] : new[m] = Changed(s, m)) =>
                 Lifecycle!Change(work[s], Action(s), actor[s], new)
  BY CommitIsChange
<1>3. CASE op[s] \in {"confirm", "bulk"}
  <2> DEFINE new == [m \in work[s] |-> [row[m] EXCEPT !.status = "confirmed", !.by = actor[s]]]
  <2>1. \A m \in work[s] : new[m] = Changed(s, m)
    BY <1>1, <1>3 DEF Changed
  <2>2. Action(s) = "confirmed"
    BY <1>3 DEF Action
  <2>3. Lifecycle!Change(work[s], "confirmed", actor[s], new)
    <3> HIDE DEF new
    <3> QED BY <1>2, <2>1, <2>2
  <2>4. \A m \in work[s] :
          \/ row[m].status \in {"suggested", "confirmed", "rejected"} /\ work[s] = {m}
          \/ row[m].status = "suggested"
    <3>1. \A m \in work[s] : row[m].status \in MappingStatuses
      BY <1>1, RowColumns
    <3>2. op[s] = "confirm" => \A m \in work[s] : row[m].status # "retired" /\ work[s] = {m}
      BY <1>1 DEF SInv, Decided
    <3>3. op[s] = "bulk" => \A m \in work[s] : row[m].status = "suggested"
      BY DEF SInv, Decided
    <3> QED BY <1>3, <3>1, <3>2, <3>3 DEF MappingStatuses
  <2>5. Lifecycle!Confirm(work[s], actor[s])
    BY <2>3, <2>4 DEF Lifecycle!Confirm
  <2> QED BY <1>1, <2>5 DEF Lifecycle!Next
<1>4. CASE op[s] \in {"reject", "retire", "edit"} /\ work[s] = {}
  <2>1. row' = row /\ history' = history
    BY <1>4 DEF CommitRows, SInv, IInv, TypeOK
  <2> QED BY <2>1 DEF Lifecycle!vars
<1>5. ASSUME op[s] \in {"reject", "retire", "edit"}, NEW m \in work[s]
      PROVE  Lifecycle!Next
  <2>1. work[s] = {m} /\ m \in Mappings /\ row[m] # Lifecycle!Absent
    BY <1>1, <1>5 DEF Lifecycle!Absent, Absent
  <2>2. CASE op[s] = "reject"
    <3> DEFINE new == [n \in {m} |-> [row[n] EXCEPT !.status = "rejected", !.by = Null]]
    <3>1. \A n \in work[s] : new[n] = Changed(s, n)
      BY <1>1, <2>1, <2>2 DEF Changed, Rejected
    <3>2. Action(s) = "rejected"
      BY <2>2 DEF Action
    <3>3. Lifecycle!Change({m}, "rejected", actor[s], new)
      <4> HIDE DEF new
      <4> QED BY <1>2, <2>1, <3>1, <3>2
    <3> QED BY <1>1, <2>1, <3>3 DEF Lifecycle!Next, Lifecycle!Reject
  <2>3. CASE op[s] = "retire"
    <3> DEFINE new == [n \in {m} |-> [row[n] EXCEPT !.status = "retired"]]
    <3>1. \A n \in work[s] : new[n] = Changed(s, n)
      BY <1>1, <2>1, <2>3 DEF Changed
    <3>2. Action(s) = "retired"
      BY <2>3 DEF Action
    <3>3. Lifecycle!Change({m}, "retired", actor[s], new)
      <4> HIDE DEF new
      <4> QED BY <1>2, <2>1, <3>1, <3>2
    <3> QED BY <1>1, <2>1, <3>3 DEF Lifecycle!Next, Lifecycle!Retire
  <2>4. CASE op[s] = "edit"
    <3> DEFINE t == CHOOSE t \in Targets : t \in goal[s]
               new == [n \in {m} |-> [row[n] EXCEPT !.target = t]]
    <3>1. t \in Targets
      BY <2>4 DEF SInv, IInv, LocalOK
    <3>a. Changed(s, m) = [loaded[s][m] EXCEPT !.target = t]
      BY <2>4 DEF Changed
    <3>2. \A n \in work[s] : new[n] = Changed(s, n)
      <4> HIDE DEF t
      <4> QED BY <1>1, <2>1, <3>a
    <3>3. Action(s) = "edited"
      BY <2>4 DEF Action
    <3>4. Lifecycle!Change({m}, "edited", actor[s], new)
      <4> HIDE DEF new
      <4> QED BY <1>2, <2>1, <3>2, <3>3
    <3> HIDE DEF t
    <3>5. Lifecycle!Edit(m, actor[s])
      BY <2>1, <3>1, <3>4 DEF Lifecycle!Edit
    <3> QED BY <1>1, <2>1, <3>5 DEF Lifecycle!Next
  <2> QED BY <1>5, <2>2, <2>3, <2>4
<1> QED BY <1>1, <1>3, <1>4, <1>5 DEF RowOps

LEMMA CommitNewRefines ==
  ASSUME SInv, NEW s \in Sessions, CommitNew(s)
  PROVE  Lifecycle!Next
<1>1. PICK new \in [goal[s] -> Mappings \ Stored] :
        LET At(m) == CHOOSE t \in goal[s] : new[t] = m
            Ids   == {new[t] : t \in goal[s]}
        IN /\ \A t, u \in goal[s] : t # u => new[t] # new[u]
           /\ row' = [m \in Mappings |-> IF m \in Ids THEN Suggested(At(m)) ELSE row[m]]
           /\ history' = [m \in Mappings |->
                IF m \in Ids
                  THEN Append(history[m], Event("suggested", actor[s], Absent, Suggested(At(m))))
                  ELSE history[m]]
  BY DEF CommitNew
<1> DEFINE At(m) == CHOOSE t \in goal[s] : new[t] = m
           Ids   == {new[t] : t \in goal[s]}
           t0    == [m \in Ids |-> At(m)]
           made  == [m \in Ids |-> [status |-> "suggested", target |-> t0[m], by |-> Null]]
<1>2. /\ \A t, u \in goal[s] : t # u => new[t] # new[u]
      /\ row' = [m \in Mappings |-> IF m \in Ids THEN Suggested(At(m)) ELSE row[m]]
      /\ history' = [m \in Mappings |->
           IF m \in Ids
             THEN Append(history[m], Event("suggested", actor[s], Absent, Suggested(At(m))))
             ELSE history[m]]
  BY <1>1
<1>3. \A m \in Ids : At(m) \in goal[s] /\ new[At(m)] = m
  OBVIOUS
<1>4. goal[s] \subseteq Targets /\ Ids \subseteq Mappings
      /\ \A m \in Ids : row[m] = Absent /\ row[m] = Lifecycle!Absent
  BY DEF SInv, IInv, TypeOK, Stored, Absent, Lifecycle!Absent
<1>5. t0 \in [Ids -> Targets]
  BY <1>3, <1>4
<1>6. \A m \in Ids : Suggested(At(m)) = made[m]
  BY DEF Suggested
<1> HIDE DEF At, Ids
<1>7. row' = [m \in Mappings |-> IF m \in Ids THEN made[m] ELSE row[m]]
  <2> HIDE DEF made
  <2> QED BY <1>2, <1>6
<1>8. history' = [m \in Mappings |->
        IF m \in Ids
          THEN Append(history[m], [action |-> "suggested", actor |-> actor[s],
                                   before |-> Lifecycle!Snap(row[m]),
                                   after |-> Lifecycle!Snap(made[m])])
          ELSE history[m]]
  <2>1. \A m \in Ids : Event("suggested", actor[s], Absent, Suggested(At(m)))
          = [action |-> "suggested", actor |-> actor[s],
             before |-> Lifecycle!Snap(row[m]), after |-> Lifecycle!Snap(made[m])]
    <3> HIDE DEF made
    <3> QED BY <1>4, <1>6 DEF Event, Snap, Lifecycle!Snap
  <2> HIDE DEF made
  <2> QED BY <1>2, <2>1
<1>9. Lifecycle!Change(Ids, "suggested", actor[s], made)
  <2> HIDE DEF made
  <2> QED BY <1>7, <1>8 DEF Lifecycle!Change
<1>10. actor[s] = Null => \A m \in Ids : \A n \in Mappings \ {m} :
         t0[m] # IF n \in Ids THEN t0[n] ELSE row[n].target
  <2> SUFFICES ASSUME actor[s] = Null, NEW m \in Ids, NEW n \in Mappings \ {m}
               PROVE  t0[m] # IF n \in Ids THEN t0[n] ELSE row[n].target
    OBVIOUS
  <2>1. \A t \in goal[s] : Unseen(t)
    BY FieldMappingAssumption DEF CommitNew, SInv, Decided
  <2>2. CASE n \in Ids
    BY <1>3, <2>2
  <2>3. CASE n \notin Ids /\ n \in Stored
    BY <1>3, <2>1, <2>3 DEF Unseen
  <2>4. CASE n \notin Ids /\ n \notin Stored
    <3>1. row[n].target = Null
      BY <2>4 DEF Stored, Absent
    <3> QED BY <1>5, <2>4, <3>1, FieldMappingAssumption
  <2> QED BY <2>2, <2>3, <2>4
<1>11. Lifecycle!Suggest(Ids, actor[s])
  <2> HIDE DEF t0
  <2> QED BY <1>4, <1>5, <1>9, <1>10 DEF Lifecycle!Suggest
<1> QED BY <1>4, <1>11 DEF Lifecycle!Next, SInv, IInv, TypeOK

\* Requests of any kind and number that do not overlap implement the lifecycle.
THEOREM ImplementsLifecycle == Spec => LifecycleSpec
<1>1. Init => Lifecycle!Init
  BY DEF Init, Lifecycle!Init, Absent, Lifecycle!Absent
<1>2. ASSUME SInv, ~overlap, [Next]_vars PROVE [Lifecycle!Next]_(Lifecycle!vars)
  <2>1. ASSUME NEW s \in Sessions,
               \/ LoadRows(s) \/ LoadNew(s) \/ \E m \in Mappings : Flush(s, m)
               \/ Abandon(s) \/ DeadlockVictim(s)
        PROVE  UNCHANGED Lifecycle!vars
    BY <2>1 DEF LoadRows, LoadNew, Begin, Flush, Abandon, DeadlockVictim, table, Lifecycle!vars
  <2>2. UNCHANGED vars => UNCHANGED Lifecycle!vars
    BY DEF vars, Lifecycle!vars
  <2>3. ASSUME NEW s \in Sessions, CommitRows(s) PROVE [Lifecycle!Next]_(Lifecycle!vars)
    BY <1>2, <2>3, CommitRowsRefines
  <2>4. ASSUME NEW s \in Sessions, CommitNew(s) PROVE [Lifecycle!Next]_(Lifecycle!vars)
    BY <1>2, <2>4, CommitNewRefines
  <2> QED BY <1>2, <2>1, <2>2, <2>3, <2>4 DEF Next
<1>3. UInv /\ [Next]_vars => [~overlap => Lifecycle!Next]_(Lifecycle!vars)
  BY <1>2 DEF UInv
<1> QED BY <1>1, <1>3, UndisturbedInvariance, PTL DEF Spec, LifecycleSpec
=============================================================================
