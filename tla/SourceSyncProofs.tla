-------------------------- MODULE SourceSyncProofs --------------------------
(* Theorems about SourceSync, for any sources, sessions, keys and feeds.   *)
EXTENDS SourceSync, TLAPS

\* A session between the resolution of a record and its flush has it in hand, and
\* one that is under way syncs a source.
InHand ==
  \A w \in Sessions :
    /\ pc[w] # "idle" => source[w] # None
    /\ pc[w] \in {"select", "flush"} =>
         rec[w] \in Keys /\ to[w] \in Keys /\ batch[w][rec[w]] # NoRecord

TInv == TypeOK /\ InHand

LEMMA LandingType ==
  ASSUME NEW w \in Sessions, NEW k \in Keys
  PROVE  Landing(w, k) \in Keys
BY SyncAssumption DEF Landing

LEMMA InitialTypes == Init => TInv
<1> SUFFICES ASSUME Init PROVE TInv
  OBVIOUS
<1>1. /\ rows \in [Keys -> RowSets] /\ due \in SUBSET (SUBSET Items)
      /\ crashes \in 0..MaxCrashes
  BY SyncAssumption DEF Init, NoRows, RowSets
<1>2. feed \in [Sources -> [Keys -> Reports]] /\ waits \subseteq Sources
  BY SyncAssumption DEF Init
<1>3. /\ pc \in [Sessions -> {"idle", "next", "select", "flush"}]
      /\ source \in [Sessions -> Sources \cup {None}]
      /\ batch \in [Sessions -> [Keys -> Reports]]
      /\ rec \in [Sessions -> Keys \cup {None}] /\ to \in [Sessions -> Keys \cup {None}]
  BY DEF Init, Reports
<1>4. /\ row \in [Sessions -> Sessions \cup {None}] /\ old \in [Sessions -> Stored]
      /\ held \in [Sessions -> [Keys -> Sessions \cup {None}]]
      /\ mem \in [Sessions -> [Keys -> Stored]]
      /\ dirty \in [Sessions -> SUBSET Keys] /\ touched \in [Sessions -> SUBSET Items]
  BY SyncAssumption DEF Init, Stored
<1>5. InHand
  BY DEF Init, InHand
<1> QED BY <1>1, <1>2, <1>3, <1>4, <1>5 DEF TInv, TypeOK

LEMMA EndTypes ==
  ASSUME TInv, NEW w \in Sessions, EndSync(w),
         rows' \in [Keys -> RowSets], due' \in SUBSET (SUBSET Items),
         feed' = feed, waits' \subseteq Sources, crashes' \in 0..MaxCrashes
  PROVE  TInv'
<1> USE DEF TInv, TypeOK, InHand
<1>1. /\ pc' \in [Sessions -> {"idle", "next", "select", "flush"}]
      /\ source' \in [Sessions -> Sources \cup {None}]
      /\ batch' \in [Sessions -> [Keys -> Reports]]
      /\ rec' \in [Sessions -> Keys \cup {None}] /\ to' \in [Sessions -> Keys \cup {None}]
  BY DEF EndSync, Reports
<1>2. /\ row' \in [Sessions -> Sessions \cup {None}] /\ old' \in [Sessions -> Stored]
      /\ held' \in [Sessions -> [Keys -> Sessions \cup {None}]]
      /\ mem' \in [Sessions -> [Keys -> Stored]]
      /\ dirty' \in [Sessions -> SUBSET Keys] /\ touched' \in [Sessions -> SUBSET Items]
  BY SyncAssumption DEF EndSync, Stored
<1>3. InHand'
  BY DEF EndSync
<1> QED BY <1>1, <1>2, <1>3

LEMMA TypeStep == TInv /\ [Next]_vars => TInv'
<1> SUFFICES ASSUME TInv, [Next]_vars PROVE TInv'
  OBVIOUS
<1>a. TypeOK /\ InHand
  BY DEF TInv
<1>1. ASSUME NEW s \in Sources, FeedChanges(s) PROVE TInv'
  BY <1>1, <1>a, SyncAssumption DEF FeedChanges, TInv, TypeOK, InHand, table, session
<1>2. ASSUME NEW w \in Sessions, NEW s \in Sources, StartSync(w, s) PROVE TInv'
  BY <1>2, <1>a, SyncAssumption DEF StartSync, TInv, TypeOK, InHand, table
<1>b. ASSUME NEW s \in Sources, JobLost(s) \/ JobInserted(s) PROVE TInv'
  BY <1>b, <1>a DEF JobLost, JobInserted, TInv, TypeOK, InHand, table, session
<1>3. ASSUME NEW w \in Sessions, SkipRecord(w) PROVE TInv'
  <2>1. PICK k \in Keys : batch' = [batch EXCEPT ![w][k] = NoRecord]
    BY <1>3 DEF SkipRecord, Upcoming
  <2>2. batch' \in [Sessions -> [Keys -> Reports]]
    BY <2>1, <1>a DEF TypeOK, Reports
  <2> QED BY <1>3, <2>2, <1>a DEF SkipRecord, TInv, TypeOK, InHand, table
<1>4. ASSUME NEW w \in Sessions, Resolve(w) PROVE TInv'
  <2>1. PICK k \in Keys : /\ batch[w][k] # NoRecord /\ rec' = [rec EXCEPT ![w] = k]
                          /\ to' = [to EXCEPT ![w] = Landing(w, k)]
    BY <1>4 DEF Resolve, Upcoming
  <2>2. Landing(w, k) \in Keys
    BY LandingType
  <2>3. /\ rec' \in [Sessions -> Keys \cup {None}] /\ to' \in [Sessions -> Keys \cup {None}]
        /\ InHand'
    BY <1>4, <2>1, <2>2, <1>a DEF Resolve, TypeOK, InHand
  <2> QED BY <1>4, <2>3, <1>a DEF Resolve, TInv, TypeOK, table
<1>5. ASSUME NEW w \in Sessions, Select(w) PROVE TInv'
  <2>1. to[w] \in Keys
    BY <1>5, <1>a DEF Select, InHand
  <2>2. ASSUME NEW r \in Sessions, Seen(w, to[w]) = {r},
               old' = [old EXCEPT ![w] = IF held[w][to[w]] = r THEN mem[w][to[w]]
                                         ELSE rows[to[w]][r]]
        PROVE  old' \in [Sessions -> Stored]
    <3>1. held[w][to[w]] # r => rows[to[w]][r] \in Stored
      BY <2>1, <2>2, <1>a DEF Seen, TypeOK, RowSets
    <3>2. mem[w][to[w]] \in Stored
      BY <2>1, <1>a DEF TypeOK
    <3> QED BY <2>2, <3>1, <3>2, <1>a DEF TypeOK
  <2>3. row' \in [Sessions -> Sessions \cup {None}] /\ old' \in [Sessions -> Stored]
    <3>1. CASE UNCHANGED <<row, old>>
      BY <3>1, <1>a DEF TypeOK
    <3>2. CASE \E r \in Sessions :
                 /\ Seen(w, to[w]) = {r}
                 /\ row' = [row EXCEPT ![w] = r]
                 /\ old' = [old EXCEPT ![w] = IF held[w][to[w]] = r THEN mem[w][to[w]]
                                              ELSE rows[to[w]][r]]
      <4>1. PICK r \in Sessions :
               /\ Seen(w, to[w]) = {r}
               /\ row' = [row EXCEPT ![w] = r]
               /\ old' = [old EXCEPT ![w] = IF held[w][to[w]] = r THEN mem[w][to[w]]
                                            ELSE rows[to[w]][r]]
        BY <3>2
      <4>2. old' \in [Sessions -> Stored]
        BY <4>1, <2>2
      <4>3. row' \in [Sessions -> Sessions \cup {None}]
        BY <4>1, <1>a DEF TypeOK
      <4> QED BY <4>2, <4>3
    <3>3. \/ UNCHANGED <<row, old>>
          \/ \E r \in Sessions :
               /\ Seen(w, to[w]) = {r}
               /\ row' = [row EXCEPT ![w] = r]
               /\ old' = [old EXCEPT ![w] = IF held[w][to[w]] = r THEN mem[w][to[w]]
                                            ELSE rows[to[w]][r]]
      BY <1>5 DEF Select
    <3> QED BY <3>1, <3>2, <3>3
  <2>4. pc' \in [Sessions -> {"idle", "next", "select", "flush"}] /\ InHand'
    BY <1>5, <1>a DEF Select, TypeOK, InHand
  <2> QED BY <1>5, <2>3, <2>4, <1>a DEF Select, TInv, TypeOK, table
<1>6. ASSUME NEW w \in Sessions, NextRecord(w), to[w] \in Keys, rec[w] \in Keys,
             pc[w] = "flush", source' = source
      PROVE  /\ pc' \in [Sessions -> {"idle", "next", "select", "flush"}]
             /\ batch' \in [Sessions -> [Keys -> Reports]]
             /\ rec' \in [Sessions -> Keys \cup {None}] /\ to' \in [Sessions -> Keys \cup {None}]
             /\ row' \in [Sessions -> Sessions \cup {None}] /\ old' \in [Sessions -> Stored]
             /\ InHand'
  <2>1. batch' \in [Sessions -> [Keys -> Reports]]
    BY <1>6, <1>a DEF NextRecord, TypeOK, Reports
  <2>2. InHand'
    BY <1>6, <1>a DEF NextRecord, TypeOK, InHand
  <2> QED BY <1>6, <1>a, <2>1, <2>2, SyncAssumption DEF NextRecord, TypeOK, Stored
<1>7. ASSUME NEW w \in Sessions, Insert(w) PROVE TInv'
  <2>1. to[w] \in Keys /\ rec[w] \in Keys
    BY <1>7, <1>a DEF Insert, InHand
  <2>2. /\ held' \in [Sessions -> [Keys -> Sessions \cup {None}]]
        /\ mem' \in [Sessions -> [Keys -> Stored]] /\ dirty' \in [Sessions -> SUBSET Keys]
    BY <1>7, <2>1, <1>a, SyncAssumption DEF Insert, Initial, TypeOK, Stored
  <2> QED BY <1>7, <2>1, <2>2, <1>6, <1>a DEF Insert, TInv, TypeOK, table
<1>8. ASSUME NEW w \in Sessions, Update(w) PROVE TInv'
  <2>1. to[w] \in Keys /\ rec[w] \in Keys /\ batch[w][rec[w]] # NoRecord
    BY <1>8, <1>a DEF Update, InHand
  <2>4. Changed(w) => Coerced(w) \in Stored
    BY <2>1, <1>a DEF Changed, Coerced, Report, TypeOK, Reports, Stored
  <2>2. /\ held' \in [Sessions -> [Keys -> Sessions \cup {None}]]
        /\ mem' \in [Sessions -> [Keys -> Stored]] /\ dirty' \in [Sessions -> SUBSET Keys]
    BY <1>8, <2>1, <2>4, <1>a DEF Update, TypeOK
  <2>3. touched' \in [Sessions -> SUBSET Items]
    <3>1. Signalled(w) => ItemKey[to[w]] \in Items
      BY <2>1, SyncAssumption DEF Signalled, Items
    <3> QED BY <1>8, <3>1, <1>a DEF Update, TypeOK
  <2> QED BY <1>8, <2>1, <2>2, <2>3, <1>6, <1>a DEF Update, TInv, TypeOK, table
<1>9. ASSUME NEW w \in Sessions, CommitSync(w) PROVE TInv'
  <2>1. rows' \in [Keys -> RowSets]
    <3>1. ASSUME NEW k \in Keys
          PROVE  [rows[k] EXCEPT ![held[w][k]] = mem[w][k]] \in RowSets
      <4>1. rows[k] \in RowSets /\ mem[w][k] \in Stored
        BY <1>a DEF TypeOK
      <4> QED BY <4>1 DEF RowSets
    <3> QED BY <1>9, <3>1, <1>a DEF CommitSync, TypeOK
  <2>2. due' \in SUBSET (SUBSET Items)
    BY <1>9, <1>a DEF CommitSync, TypeOK
  <2>3. waits' \subseteq Sources
    <3>1. source[w] # None => source[w] \in Sources
      BY <1>a DEF TypeOK
    <3>2. source[w] # None
      BY <1>9, <1>a DEF CommitSync, InHand
    <3> QED BY <1>9, <3>1, <3>2, <1>a DEF CommitSync, TypeOK
  <2> QED BY <1>9, <2>1, <2>2, <2>3, <1>a, EndTypes DEF CommitSync, TypeOK
<1>10. ASSUME NEW w \in Sessions, SyncRaises(w) \/ SyncDies(w) PROVE TInv'
  <2>1. EndSync(w) /\ UNCHANGED <<feed, waits, table>> /\ crashes' \in 0..MaxCrashes
    BY <1>10, <1>a, SyncAssumption DEF SyncRaises, SyncDies, TypeOK
  <2> QED BY <2>1, <1>a, EndTypes DEF TypeOK, table
<1>11. ASSUME JobTaken PROVE TInv'
  BY <1>11, <1>a DEF JobTaken, TInv, TypeOK, InHand, session
<1>12. CASE UNCHANGED vars
  BY <1>12, <1>a DEF vars, table, session, TInv, TypeOK, InHand
<1> QED BY <1>1, <1>2, <1>b, <1>3, <1>4, <1>5, <1>7, <1>8, <1>9, <1>10, <1>11, <1>12
        DEF Next, SyncStep

\* The tables and every session's local state keep their types.
THEOREM TypeCorrect == Spec => []TypeOK
<1>1. Spec => []TInv
  BY InitialTypes, TypeStep, PTL DEF Spec
<1>2. TInv => TypeOK
  BY DEF TInv
<1> QED BY <1>1, <1>2, PTL

-----------------------------------------------------------------------------
\* A session that holds a row which is not its own found it committed, and one
\* that is about to update a row found it committed or inserted it itself.
HeldRowsExist ==
  \A w, r \in Sessions, k \in Keys : held[w][k] = r => r = w \/ rows[k][r] # Absent

FoundRowsExist ==
  \A w, r \in Sessions : row[w] = r =>
    /\ pc[w] = "flush"
    /\ rows[to[w]][r] # Absent \/ (r = w /\ held[w][to[w]] = w)

\* A unique key has one row, counting the one that is being inserted.
OneSlot ==
  \A k \in Unique : \A r, q \in Sessions :
    /\ rows[k][r] # Absent \/ held[r][k] = r
    /\ rows[k][q] # Absent \/ held[q][k] = q
    => r = q

SlotInv == TInv /\ HeldRowsExist /\ FoundRowsExist /\ OneSlot

LEMMA CommittedStay ==
  ASSUME TInv, NEW w \in Sessions, CommitSync(w), NEW k \in Keys, NEW r \in Sessions,
         rows[k][r] # Absent
  PROVE  rows'[k][r] # Absent
<1>1. rows[k] \in RowSets /\ mem[w][k] \in Stored
  BY DEF TInv, TypeOK
<1>2. mem[w][k] # Absent
  BY <1>1, SyncAssumption DEF Stored
<1> QED BY <1>1, <1>2 DEF CommitSync, RowSets

LEMMA CommittedAre ==
  ASSUME TInv, NEW w \in Sessions, CommitSync(w), NEW k \in Keys, NEW r \in Sessions,
         rows'[k][r] # rows[k][r]
  PROVE  k \in dirty[w] /\ held[w][k] = r /\ rows'[k][r] = mem[w][k]
<1>1. rows[k] \in RowSets
  BY DEF TInv, TypeOK
<1> QED BY <1>1 DEF CommitSync, RowSets

LEMMA EndSlots ==
  ASSUME SlotInv, NEW w \in Sessions, EndSync(w), TInv',
         \A k \in Keys, r \in Sessions : rows[k][r] # Absent => rows'[k][r] # Absent,
         \A k \in Keys, r \in Sessions :
            rows'[k][r] # rows[k][r] => rows[k][r] # Absent \/ held[w][k] = r
  PROVE  SlotInv'
<1> USE DEF SlotInv, TInv, TypeOK
<1>1. \A v \in Sessions \ {w} : /\ held'[v] = held[v] /\ row'[v] = row[v]
                                /\ to'[v] = to[v] /\ pc'[v] = pc[v]
  BY DEF EndSync
<1>2. row'[w] = None /\ \A k \in Keys : held'[w][k] = None
  BY DEF EndSync
<1>3. HeldRowsExist'
  <2> SUFFICES ASSUME NEW v \in Sessions, NEW r \in Sessions, NEW k \in Keys,
                      held'[v][k] = r
               PROVE  r = v \/ rows'[k][r] # Absent
    BY DEF HeldRowsExist
  <2>1. v # w
    BY <1>2, SyncAssumption
  <2>2. r = v \/ rows[k][r] # Absent
    BY <1>1, <2>1 DEF HeldRowsExist
  <2> QED BY <2>2
<1>4. FoundRowsExist'
  <2> SUFFICES ASSUME NEW v \in Sessions, NEW r \in Sessions, row'[v] = r
               PROVE  /\ pc'[v] = "flush"
                      /\ rows'[to'[v]][r] # Absent \/ (r = v /\ held'[v][to'[v]] = v)
    BY DEF FoundRowsExist
  <2>1. v # w
    BY <1>2, SyncAssumption
  <2>2. pc[v] = "flush" /\ (rows[to[v]][r] # Absent \/ (r = v /\ held[v][to[v]] = v))
    BY <1>1, <2>1 DEF FoundRowsExist
  <2>3. to[v] \in Keys
    BY <2>2 DEF InHand
  <2> QED BY <1>1, <2>1, <2>2, <2>3
<1>5. ASSUME NEW k \in Keys, NEW r \in Sessions, rows'[k][r] # Absent \/ held'[r][k] = r
      PROVE  rows[k][r] # Absent \/ held[r][k] = r
  <2>1. CASE held'[r][k] = r
    BY <2>1, <1>1, <1>2, SyncAssumption
  <2>2. CASE rows'[k][r] # Absent /\ rows[k][r] = Absent
    <3>1. held[w][k] = r
      BY <2>2
    <3>2. r = w
      BY <3>1, <2>2 DEF HeldRowsExist
    <3> QED BY <3>1, <3>2
  <2> QED BY <1>5, <2>1, <2>2
<1>6. OneSlot'
  <2> SUFFICES ASSUME NEW k \in Unique, NEW r \in Sessions, NEW q \in Sessions,
                      rows'[k][r] # Absent \/ held'[r][k] = r,
                      rows'[k][q] # Absent \/ held'[q][k] = q
               PROVE  r = q
    BY DEF OneSlot
  <2>1. k \in Keys
    BY SyncAssumption
  <2> QED BY <2>1, <1>5 DEF OneSlot
<1> QED BY <1>3, <1>4, <1>6

LEMMA SlotStep == SlotInv /\ [Next]_vars => SlotInv'
<1> SUFFICES ASSUME SlotInv, [Next]_vars PROVE SlotInv'
  OBVIOUS
<1>a. TInv /\ HeldRowsExist /\ FoundRowsExist /\ OneSlot /\ TypeOK /\ InHand /\ TInv'
  BY TypeStep DEF SlotInv, TInv
<1>1. ASSUME UNCHANGED <<rows, held, row, to, pc>> PROVE SlotInv'
  BY <1>1, <1>a DEF SlotInv, HeldRowsExist, FoundRowsExist, OneSlot
<1>2. ASSUME NEW w \in Sessions, UNCHANGED <<rows, held, row>>,
             \A v \in Sessions \ {w} : to'[v] = to[v] /\ pc'[v] = pc[v], pc[w] # "flush"
      PROVE  SlotInv'
  BY <1>2, <1>a DEF SlotInv, HeldRowsExist, FoundRowsExist, OneSlot
<1>3. ASSUME NEW w \in Sessions, NEW s \in Sources, StartSync(w, s) PROVE SlotInv'
  BY <1>3, <1>2, <1>a DEF StartSync, table, TypeOK
<1>4. ASSUME NEW w \in Sessions, Resolve(w) PROVE SlotInv'
  BY <1>4, <1>2, <1>a DEF Resolve, table, TypeOK
<1>5. ASSUME NEW w \in Sessions, Select(w) PROVE SlotInv'
  <2>1. HeldRowsExist' /\ OneSlot'
    BY <1>5, <1>a DEF Select, table, HeldRowsExist, OneSlot
  <2>2. FoundRowsExist'
    <3> SUFFICES ASSUME NEW v \in Sessions, NEW r \in Sessions, row'[v] = r
                 PROVE  /\ pc'[v] = "flush"
                        /\ rows'[to'[v]][r] # Absent \/ (r = v /\ held'[v][to'[v]] = v)
      BY DEF FoundRowsExist
    <3>1. UNCHANGED <<rows, held, to>> /\ pc' = [pc EXCEPT ![w] = "flush"]
      BY <1>5 DEF Select, table
    <3>2. CASE row[v] = r
      BY <3>1, <3>2, <1>5, <1>a DEF FoundRowsExist, TypeOK
    <3>3. CASE row[v] # r
      <4>1. v = w /\ Seen(w, to[w]) = {r}
        BY <3>3, <1>5, <1>a DEF Select, TypeOK
      <4>2. rows[to[w]][r] # Absent \/ held[w][to[w]] = r
        BY <4>1 DEF Seen
      <4>3. to[w] \in Keys
        BY <1>5, <1>a DEF Select, InHand
      <4> QED BY <3>1, <4>1, <4>2, <4>3, <1>a DEF HeldRowsExist, TypeOK
    <3> QED BY <3>2, <3>3
  <2> QED BY <2>1, <2>2, <1>a DEF SlotInv
<1>6. ASSUME NEW w \in Sessions, NEW r \in Sessions, to[w] \in Keys, pc[w] = "flush",
             held' = [held EXCEPT ![w][to[w]] = r], NextRecord(w), rows' = rows,
             rows[to[w]][r] # Absent \/ r = w,
             to[w] \in Unique => \A q \in Sessions :
               (rows[to[w]][q] # Absent \/ held[q][to[w]] = q \/ q = w) /\ r = w => q = w
      PROVE  SlotInv'
  <2>1. HeldRowsExist'
    BY <1>6, <1>a DEF HeldRowsExist, TypeOK
  <2>2. FoundRowsExist'
    BY <1>6, <1>a, SyncAssumption DEF NextRecord, FoundRowsExist, TypeOK
  <2>3. OneSlot'
    BY <1>6, <1>a DEF OneSlot, TypeOK
  <2> QED BY <2>1, <2>2, <2>3, <1>a DEF SlotInv
<1>7. ASSUME NEW w \in Sessions, Insert(w) PROVE SlotInv'
  <2>1. to[w] \in Keys
    BY <1>7, <1>a DEF Insert, InHand
  <2>2. ASSUME to[w] \in Unique, NEW q \in Sessions,
               rows[to[w]][q] # Absent \/ held[q][to[w]] = q
        PROVE  q = w
    <3>1. rows[to[w]][q] = Absent
      BY <1>7, <2>2 DEF Insert, Taken
    <3> QED BY <1>7, <2>2, <3>1 DEF Insert, WaitsFor
  <2>3. NextRecord(w) /\ rows' = rows /\ held' = [held EXCEPT ![w][to[w]] = w]
        /\ pc[w] = "flush"
    BY <1>7 DEF Insert, table
  <2> QED BY <2>1, <2>2, <2>3, <1>6
<1>8. ASSUME NEW w \in Sessions, Update(w) PROVE SlotInv'
  <2>1. to[w] \in Keys /\ row[w] \in Sessions
    BY <1>8, <1>a DEF Update, InHand, TypeOK
  <2>2. rows[to[w]][row[w]] # Absent \/ (row[w] = w /\ held[w][to[w]] = w)
    BY <2>1, <1>a DEF FoundRowsExist
  <2>3. ASSUME to[w] \in Unique, NEW q \in Sessions, row[w] = w,
               rows[to[w]][q] # Absent \/ held[q][to[w]] = q
        PROVE  q = w
    BY <2>2, <2>3, <1>a DEF OneSlot
  <2>4. NextRecord(w) /\ rows' = rows /\ held' = [held EXCEPT ![w][to[w]] = row[w]]
        /\ pc[w] = "flush"
    BY <1>8 DEF Update, table
  <2> QED BY <2>1, <2>2, <2>3, <2>4, <1>6
<1>9. ASSUME NEW w \in Sessions, CommitSync(w) PROVE SlotInv'
  <2>1. EndSync(w)
    BY <1>9 DEF CommitSync
  <2> QED BY <2>1, <1>9, <1>a, EndSlots, CommittedStay, CommittedAre
<1>10. ASSUME NEW w \in Sessions, SyncRaises(w) \/ SyncDies(w) PROVE SlotInv'
  <2>1. EndSync(w) /\ rows' = rows
    BY <1>10 DEF SyncRaises, SyncDies, table
  <2> QED BY <2>1, <1>a, EndSlots
<1>11. ASSUME NEW s \in Sources, FeedChanges(s) \/ JobLost(s) \/ JobInserted(s) PROVE SlotInv'
  BY <1>11, <1>1 DEF FeedChanges, JobLost, JobInserted, table, session
<1>12. ASSUME NEW w \in Sessions, SkipRecord(w) PROVE SlotInv'
  BY <1>12, <1>1 DEF SkipRecord, table
<1>13. ASSUME JobTaken PROVE SlotInv'
  BY <1>13, <1>1 DEF JobTaken, session
<1>14. CASE UNCHANGED vars
  BY <1>14, <1>1 DEF vars, table, session
<1> QED BY <1>3, <1>4, <1>5, <1>7, <1>8, <1>9, <1>10, <1>11, <1>12, <1>13, <1>14
        DEF Next, SyncStep

LEMMA Slots == Spec => []SlotInv
<1>1. Init => SlotInv
  <2> SUFFICES ASSUME Init PROVE SlotInv
    OBVIOUS
  <2>1. TInv
    BY InitialTypes
  <2>2. HeldRowsExist /\ FoundRowsExist /\ OneSlot
    BY SyncAssumption DEF Init, NoRows, HeldRowsExist, FoundRowsExist, OneSlot
  <2> QED BY <2>1, <2>2 DEF SlotInv
<1> QED BY <1>1, SlotStep, PTL DEF Spec

\* However many syncs see that a master or an order is missing, at most one row
\* of it is committed.
THEOREM MastersAreUnique == Spec => []OneRowPerMaster
<1>1. SlotInv => OneRowPerMaster
  BY DEF SlotInv, OneSlot, OneRowPerMaster
<1> QED BY <1>1, Slots, PTL

-----------------------------------------------------------------------------
\* What a session is about to insert is not there, not even as a row of its own;
\* what it updates is what it holds.
FreshInsert ==
  \A w \in Sessions : pc[w] = "flush" =>
    IF row[w] = None THEN rows[to[w]][w] = Absent /\ held[w][to[w]] = None
    ELSE held[w][to[w]] \in {None, row[w]}

DirtyHeld == \A w \in Sessions : \A k \in dirty[w] : held[w][k] \in Sessions

\* A watched row that a session changed, and did not insert, has its item noted.
ChangeNoted ==
  \A w \in Sessions : \A k \in dirty[w] \cap Watched :
    ItemKey[k] \in touched[w] \/ rows[k][held[w][k]] = Absent

NoteInv == SlotInv /\ FreshInsert /\ DirtyHeld /\ ChangeNoted

LEMMA EndNotes ==
  ASSUME NoteInv, NEW w \in Sessions, EndSync(w), SlotInv',
         \A k \in Keys, r \in Sessions : rows[k][r] # Absent => rows'[k][r] # Absent,
         \A k \in Keys, r \in Sessions :
            rows'[k][r] # rows[k][r] => rows[k][r] # Absent \/ held[w][k] = r
  PROVE  NoteInv'
<1>a. SlotInv /\ TInv /\ TypeOK /\ InHand /\ HeldRowsExist /\ FreshInsert /\ DirtyHeld /\ ChangeNoted
  BY DEF NoteInv, SlotInv, TInv
<1>1. \A v \in Sessions \ {w} :
        /\ held'[v] = held[v] /\ row'[v] = row[v] /\ to'[v] = to[v] /\ pc'[v] = pc[v]
        /\ dirty'[v] = dirty[v] /\ touched'[v] = touched[v]
  BY <1>a DEF EndSync, TypeOK
<1>2. pc'[w] = "idle" /\ dirty'[w] = {}
  BY <1>a DEF EndSync, TypeOK
<1>3. ASSUME NEW v \in Sessions, v # w, NEW k \in Keys, rows[k][v] = Absent
      PROVE  rows'[k][v] = Absent
  BY <1>3, <1>a DEF HeldRowsExist
<1>4. FreshInsert'
  <2> SUFFICES ASSUME NEW v \in Sessions, pc'[v] = "flush"
               PROVE  IF row'[v] = None
                      THEN rows'[to'[v]][v] = Absent /\ held'[v][to'[v]] = None
                      ELSE held'[v][to'[v]] \in {None, row'[v]}
    BY DEF FreshInsert
  <2>1. v # w /\ to[v] \in Keys /\ pc[v] = "flush"
    BY <1>1, <1>2, <1>a DEF InHand
  <2>2. IF row[v] = None THEN rows[to[v]][v] = Absent /\ held[v][to[v]] = None
        ELSE held[v][to[v]] \in {None, row[v]}
    BY <2>1, <1>a DEF FreshInsert
  <2> QED BY <2>1, <2>2, <1>1, <1>3
<1>5. DirtyHeld'
  BY <1>1, <1>2, <1>a DEF DirtyHeld
<1>6. ChangeNoted'
  <2> SUFFICES ASSUME NEW v \in Sessions, NEW k \in dirty'[v] \cap Watched
               PROVE  ItemKey[k] \in touched'[v] \/ rows'[k][held'[v][k]] = Absent
    BY DEF ChangeNoted
  <2>1. v # w /\ k \in dirty[v] /\ k \in Keys /\ held'[v][k] = held[v][k]
    BY <1>1, <1>2, SyncAssumption
  <2>2. ItemKey[k] \in touched[v] \/ rows[k][held[v][k]] = Absent
    BY <2>1, <1>a DEF ChangeNoted
  <2>3. held[v][k] \in Sessions
    BY <2>1, <1>a DEF DirtyHeld
  <2>4. rows[k][held[v][k]] = Absent => held[v][k] = v
    BY <2>1, <2>3, <1>a DEF HeldRowsExist
  <2> QED BY <2>1, <2>2, <2>4, <1>1, <1>3
<1> QED BY <1>4, <1>5, <1>6 DEF NoteInv

LEMMA NoteStep == NoteInv /\ [Next]_vars => NoteInv'
<1> SUFFICES ASSUME NoteInv, [Next]_vars PROVE NoteInv'
  OBVIOUS
<1>a. /\ SlotInv /\ TInv /\ TypeOK /\ InHand /\ HeldRowsExist /\ FoundRowsExist
      /\ FreshInsert /\ DirtyHeld /\ ChangeNoted /\ SlotInv'
  BY SlotStep DEF NoteInv, SlotInv, TInv
<1>1. ASSUME UNCHANGED <<rows, held, row, to, pc, dirty, touched>> PROVE NoteInv'
  BY <1>1, <1>a DEF NoteInv, FreshInsert, DirtyHeld, ChangeNoted
<1>2. ASSUME NEW w \in Sessions, UNCHANGED <<rows, held, row, dirty, touched>>,
             \A v \in Sessions \ {w} : to'[v] = to[v] /\ pc'[v] = pc[v], pc'[w] # "flush"
      PROVE  NoteInv'
  BY <1>2, <1>a DEF NoteInv, FreshInsert, DirtyHeld, ChangeNoted
<1>3. ASSUME NEW w \in Sessions, NEW s \in Sources, StartSync(w, s) PROVE NoteInv'
  BY <1>3, <1>2, <1>a DEF StartSync, table, TypeOK
<1>4. ASSUME NEW w \in Sessions, Resolve(w) PROVE NoteInv'
  BY <1>4, <1>2, <1>a DEF Resolve, table, TypeOK
<1>5. ASSUME NEW w \in Sessions, Select(w) PROVE NoteInv'
  <2>1. UNCHANGED <<rows, held, to, dirty, touched>> /\ pc' = [pc EXCEPT ![w] = "flush"]
    BY <1>5 DEF Select, table
  <2>2. to[w] \in Keys /\ row[w] = None
    BY <1>5, <1>a DEF Select, InHand, FoundRowsExist, TypeOK
  <2>3. \A v \in Sessions \ {w} : row'[v] = row[v]
    BY <1>5, <1>a DEF Select, TypeOK
  <2>4. CASE Seen(w, to[w]) = {} /\ row' = row
    <3>1. rows[to[w]][w] = Absent /\ held[w][to[w]] \notin Sessions
      BY <2>4 DEF Seen
    <3>2. held[w][to[w]] = None
      BY <3>1, <2>2, <1>a DEF TypeOK
    <3>3. FreshInsert'
      BY <2>1, <2>2, <2>4, <3>1, <3>2, <1>a DEF FreshInsert, TypeOK
    <3> QED BY <2>1, <3>3, <1>a DEF NoteInv, DirtyHeld, ChangeNoted
  <2>5. ASSUME NEW r \in Sessions, Seen(w, to[w]) = {r}, row' = [row EXCEPT ![w] = r]
        PROVE  NoteInv'
    <3>1. held[w][to[w]] \in {None, r}
      BY <2>5, <2>2, <1>a DEF Seen, TypeOK
    <3>2. row'[w] = r /\ r # None
      BY <2>5, <1>a, SyncAssumption DEF TypeOK
    <3>3. FreshInsert'
      BY <2>1, <2>2, <2>3, <3>1, <3>2, <1>a DEF FreshInsert, TypeOK
    <3> QED BY <2>1, <3>3, <1>a DEF NoteInv, DirtyHeld, ChangeNoted
  <2> QED BY <1>5, <2>4, <2>5 DEF Select
<1>6. ASSUME NEW w \in Sessions, NextRecord(w)
      PROVE  /\ pc'[w] = "next"
             /\ \A v \in Sessions \ {w} : row'[v] = row[v] /\ to'[v] = to[v] /\ pc'[v] = pc[v]
  BY <1>6, <1>a DEF NextRecord, TypeOK
<1>7. ASSUME NEW w \in Sessions, Insert(w) PROVE NoteInv'
  <2>1. NextRecord(w) /\ rows' = rows /\ touched' = touched
        /\ held' = [held EXCEPT ![w][to[w]] = w]
        /\ dirty' = [dirty EXCEPT ![w] = @ \cup {to[w]}]
    BY <1>7 DEF Insert, table
  <2>2. to[w] \in Keys /\ rows[to[w]][w] = Absent
    BY <1>7, <1>a DEF Insert, InHand, FreshInsert
  <2>3. FreshInsert'
    BY <1>6, <2>1, <1>a DEF FreshInsert, TypeOK
  <2>4. DirtyHeld' /\ ChangeNoted'
    BY <2>1, <2>2, <1>a DEF DirtyHeld, ChangeNoted, TypeOK
  <2> QED BY <2>3, <2>4, <1>a DEF NoteInv
<1>8. ASSUME NEW w \in Sessions, Update(w) PROVE NoteInv'
  <2>1. NextRecord(w) /\ rows' = rows
        /\ held' = [held EXCEPT ![w][to[w]] = row[w]]
        /\ dirty' = [dirty EXCEPT ![w] = IF Changed(w) THEN @ \cup {to[w]} ELSE @]
        /\ touched' = [touched EXCEPT ![w] = IF Signalled(w) THEN @ \cup {ItemKey[to[w]]} ELSE @]
    BY <1>8 DEF Update, table
  <2>2. to[w] \in Keys /\ row[w] \in Sessions /\ held[w][to[w]] \in {None, row[w]}
    BY <1>8, <1>a DEF Update, InHand, FreshInsert, TypeOK
  <2>3. FreshInsert'
    BY <1>6, <2>1, <1>a DEF FreshInsert, TypeOK
  <2>4. DirtyHeld'
    BY <2>1, <2>2, <1>a DEF DirtyHeld, TypeOK
  <2>5. ChangeNoted'
    <3> SUFFICES ASSUME NEW v \in Sessions, NEW k \in dirty'[v] \cap Watched
                 PROVE  ItemKey[k] \in touched'[v] \/ rows'[k][held'[v][k]] = Absent
      BY DEF ChangeNoted
    <3>1. CASE v = w /\ k = to[w] /\ Changed(w)
      BY <3>1, <2>1, <1>a DEF Signalled, TypeOK
    <3>2. CASE ~(v = w /\ k = to[w] /\ Changed(w))
      <4>1. k \in dirty[v] /\ k \in Keys
        BY <3>2, <2>1, <1>a, SyncAssumption DEF TypeOK
      <4>2. held'[v][k] = held[v][k]
        BY <4>1, <2>1, <2>2, <1>a, SyncAssumption DEF DirtyHeld, TypeOK
      <4>3. touched[v] \subseteq touched'[v]
        BY <2>1, <1>a DEF TypeOK
      <4>4. ItemKey[k] \in touched[v] \/ rows[k][held[v][k]] = Absent
        BY <4>1, <1>a DEF ChangeNoted
      <4> QED BY <4>2, <4>3, <4>4, <2>1
    <3> QED BY <3>1, <3>2
  <2> QED BY <2>3, <2>4, <2>5, <1>a DEF NoteInv
<1>9. ASSUME NEW w \in Sessions, CommitSync(w) PROVE NoteInv'
  <2>1. EndSync(w)
    BY <1>9 DEF CommitSync
  <2> QED BY <2>1, <1>9, <1>a, EndNotes, CommittedStay, CommittedAre
<1>10. ASSUME NEW w \in Sessions, SyncRaises(w) \/ SyncDies(w) PROVE NoteInv'
  <2>1. EndSync(w) /\ rows' = rows
    BY <1>10 DEF SyncRaises, SyncDies, table
  <2> QED BY <2>1, <1>a, EndNotes
<1>11. ASSUME NEW s \in Sources, FeedChanges(s) \/ JobLost(s) \/ JobInserted(s) PROVE NoteInv'
  BY <1>11, <1>1 DEF FeedChanges, JobLost, JobInserted, table, session
<1>12. ASSUME NEW w \in Sessions, SkipRecord(w) PROVE NoteInv'
  BY <1>12, <1>1 DEF SkipRecord, table
<1>13. ASSUME JobTaken PROVE NoteInv'
  BY <1>13, <1>1 DEF JobTaken, session
<1>14. CASE UNCHANGED vars
  BY <1>14, <1>1 DEF vars, table, session
<1> QED BY <1>3, <1>4, <1>5, <1>7, <1>8, <1>9, <1>10, <1>11, <1>12, <1>13, <1>14
        DEF Next, SyncStep

\* Every step is a commit of CanonicalRows, a claim of a job, or leaves the
\* canonical rows and the queue alone.
LEMMA CanonicalStep == NoteInv /\ [Next]_vars => [Canonical!Next]_<<rows, due>>
<1> SUFFICES ASSUME NoteInv, [Next]_vars PROVE Canonical!Next \/ UNCHANGED <<rows, due>>
  OBVIOUS
<1>a. TInv /\ TypeOK /\ DirtyHeld /\ ChangeNoted /\ TInv'
  BY TypeStep DEF NoteInv, SlotInv, TInv
<1>1. ASSUME NEW w \in Sessions, CommitSync(w) PROVE Canonical!Next
  <2>1. rows' \in Canonical!Table
    BY <1>a DEF TInv, TypeOK, Canonical!Table, Canonical!RowSets, RowSets
  <2>2. \A k \in Keys, r \in Sessions : rows[k][r] # Absent => rows'[k][r] # Absent
    BY <1>1, <1>a, CommittedStay
  <2>3. ASSUME NEW k \in Watched, Canonical!Changed(k) PROVE ItemKey[k] \in touched[w]
    <3>1. PICK r \in Sessions : rows[k][r] # Absent /\ rows'[k][r] # rows[k][r]
      BY <2>3 DEF Canonical!Changed
    <3>2. k \in dirty[w] /\ held[w][k] = r
      BY <3>1, <1>1, <1>a, CommittedAre, SyncAssumption
    <3> QED BY <3>1, <3>2, <1>a DEF ChangeNoted
  <2>4. due' = IF touched[w] = {} THEN due ELSE due \cup {touched[w]}
    BY <1>1 DEF CommitSync
  <2>5. Canonical!Commit(touched[w])
    BY <2>1, <2>2, <2>3, <2>4 DEF Canonical!Commit
  <2>6. touched[w] \in SUBSET Canonical!Items
    BY <1>a DEF TypeOK, Items, Canonical!Items
  <2> QED BY <2>5, <2>6 DEF Canonical!Next
<1>2. ASSUME JobTaken PROVE Canonical!Next
  BY <1>2 DEF JobTaken, Canonical!Next, Canonical!Take
<1>3. ASSUME NEW s \in Sources,
             \/ FeedChanges(s) \/ JobLost(s) \/ JobInserted(s)
             \/ \E w \in Sessions : StartSync(w, s)
      PROVE  UNCHANGED <<rows, due>>
  BY <1>3 DEF FeedChanges, JobLost, JobInserted, StartSync, table
<1>4. ASSUME NEW w \in Sessions,
             SkipRecord(w) \/ Resolve(w) \/ Select(w) \/ Insert(w) \/ Update(w)
               \/ SyncRaises(w) \/ SyncDies(w)
      PROVE  UNCHANGED <<rows, due>>
  BY <1>4 DEF SkipRecord, Resolve, Select, Insert, Update, SyncRaises, SyncDies, table
<1>5. CASE UNCHANGED vars
  BY <1>5 DEF vars, table
<1> QED BY <1>1, <1>2, <1>3, <1>4, <1>5 DEF Next, SyncStep

\* In every interleaving of syncs that skip, wait, raise and die, the canonical
\* rows and the queue are as CanonicalRows says.
THEOREM SyncImplementsCanonicalRows == Spec => CanonicalSpec
<1>1. Init => NoteInv
  <2> SUFFICES ASSUME Init PROVE NoteInv
    OBVIOUS
  <2>1. SlotInv
    <3>1. TInv
      BY InitialTypes
    <3>2. HeldRowsExist /\ FoundRowsExist /\ OneSlot
      BY SyncAssumption DEF Init, NoRows, HeldRowsExist, FoundRowsExist, OneSlot
    <3> QED BY <3>1, <3>2 DEF SlotInv
  <2>2. FreshInsert /\ DirtyHeld /\ ChangeNoted
    BY DEF Init, FreshInsert, DirtyHeld, ChangeNoted
  <2> QED BY <2>1, <2>2 DEF NoteInv
<1>2. Init => Canonical!Init
  BY DEF Init, NoRows, Canonical!Init
<1> QED BY <1>1, <1>2, NoteStep, CanonicalStep, PTL DEF Spec, CanonicalSpec, Canonical!Spec
=============================================================================
