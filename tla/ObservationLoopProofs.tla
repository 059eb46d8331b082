----------------------- MODULE ObservationLoopProofs ------------------------
(* Theorems about ObservationLoop, for any workers, items, keys and rows.  *)
EXTENDS ObservationLoop, FiniteSetTheorems, TLAPS

LEMMA InitialTypes == Init => TypeOK
<1> SUFFICES ASSUME Init PROVE TypeOK
  OBVIOUS
<1>1. rows \in Canonical!Table /\ due = {}
  BY LoopAssumption DEF Init, Canonical!Init, Canonical!Table, Canonical!RowSets
<1>2. NoInputs \in Snapshots
  BY DEF NoInputs, NoRows, Snapshots, Canonical!RowSets
<1>3. syncs \in 0..MaxSyncs
  BY LoopAssumption DEF Init
<1>4. None \notin Items
  BY DEF Items, Canonical!Items
<1> QED BY <1>1, <1>2, <1>3, <1>4 DEF Init, TypeOK

LEMMA EndTypes ==
  ASSUME TypeOK, NEW w \in Workers, EndRecompute(w)
  PROVE  /\ phase' \in [Workers -> {"idle", "next", "inputs", "select", "flush"}]
         /\ payload' \in [Workers -> SUBSET Items] /\ todo' \in [Workers -> SUBSET Items]
         /\ item' \in [Workers -> Items \cup {None}]
         /\ snap' \in [Workers -> Snapshots]
         /\ found' \in [Workers -> Workers \cup {None}]
         /\ written' \in [Workers -> [Items -> Workers \cup {None}]]
         /\ content' \in [Workers -> [Items -> Snapshots]]
         /\ overlapped' \in SUBSET Workers
         /\ \A v \in Workers : item'[v] # None <=> phase'[v] \in {"inputs", "select", "flush"}
<1>1. NoInputs \in Snapshots
  BY DEF NoInputs, NoRows, Snapshots, Canonical!RowSets
<1> QED BY <1>1 DEF EndRecompute, TypeOK

LEMMA RaisesFails ==
  ASSUME NEW w \in Workers, RecomputeRaises(w) \/ RecomputeDies(w)
  PROVE  RecomputeFails(w)
BY DEF RecomputeRaises, RecomputeDies

\* A step is one of these.
LEMMA Steps ==
  ASSUME [Next]_vars
  PROVE  \/ SyncCommits \/ Detect \/ JobLost
         \/ \E w \in Workers, is \in due : StartRecompute(w, is)
         \/ \E w \in Workers, i \in Items : ReadStock(w, i)
         \/ \E w \in Workers : \/ ReadInputs(w) \/ SelectAggregate(w) \/ FlushAggregate(w)
                               \/ CommitRecompute(w) \/ RecomputeFails(w)
         \/ UNCHANGED vars
BY RaisesFails DEF Next, RecomputeStep

LEMMA TypeStep == TypeOK /\ [Next]_vars => TypeOK'
<1> SUFFICES ASSUME TypeOK, [Next]_vars PROVE TypeOK'
  OBVIOUS
<1>a. Snapshots = [Keys -> Canonical!RowSets] /\ rows \in Snapshots /\ NoRows \in Canonical!RowSets
  BY DEF TypeOK, Snapshots, Canonical!Table, NoRows, Canonical!RowSets
<1>b. NoInputs \in Snapshots /\ None \notin Items
  BY <1>a DEF NoInputs, Items, Canonical!Items
<1>1. CASE SyncCommits
  <2>1. PICK is \in SUBSET Items : Canonical!Commit(is)
    BY <1>1 DEF SyncCommits
  <2>2. rows' \in Canonical!Table /\ due' \in SUBSET (SUBSET Items)
    BY <2>1 DEF Canonical!Commit, TypeOK
  <2>3. syncs' \in 0..MaxSyncs
    BY <1>1, LoopAssumption DEF SyncCommits, TypeOK
  <2> QED BY <1>1, <2>2, <2>3 DEF SyncCommits, TypeOK, aggregates, recompute, history
<1>2. CASE Detect
  BY <1>2 DEF Detect, TypeOK, table, recompute
<1>3. CASE JobLost
  <2>1. ASSUME NEW is \in due, due' = due \ {is}, lost' = lost \cup is,
               UNCHANGED <<rows, aggregates, recompute, raced, blind, syncs>>
        PROVE  TypeOK'
    BY <2>1 DEF TypeOK, aggregates, recompute
  <2>2. ASSUME detectDue' = FALSE, blind' = TRUE,
               UNCHANGED <<table, agg, seen, recompute, raced, lost, syncs>>
        PROVE  TypeOK'
    BY <2>2 DEF TypeOK, table, recompute
  <2> QED BY <1>3, <2>1, <2>2 DEF JobLost
<1>4. ASSUME NEW w \in Workers, NEW is \in due, StartRecompute(w, is) PROVE TypeOK'
  BY <1>4 DEF StartRecompute, TypeOK, aggregates, history
<1>5. ASSUME NEW w \in Workers, NEW i \in Items, ReadStock(w, i) PROVE TypeOK'
  <2>1. todo' \in [Workers -> SUBSET Items]
    BY <1>5 DEF ReadStock, TypeOK
  <2>2. CASE UNCHANGED <<phase, item, snap, overlapped>>
    BY <1>5, <2>1, <2>2 DEF ReadStock, TypeOK, table, aggregates, history
  <2>3. CASE ~ UNCHANGED <<phase, item, snap, overlapped>>
    <3>1. /\ phase' = [phase EXCEPT ![w] = "inputs"] /\ item' = [item EXCEPT ![w] = i]
          /\ snap' = [snap EXCEPT ![w] =
               [k \in Keys |-> IF k \in Stock /\ ItemKey[k] = i THEN rows[k] ELSE NoRows]]
      BY <1>5, <2>3 DEF ReadStock
    <3>2. overlapped' \in SUBSET Workers
      BY <1>5, <2>3 DEF ReadStock, TypeOK
    <3>3. snap' \in [Workers -> Snapshots]
      BY <3>1, <1>a DEF TypeOK
    <3> QED BY <1>5, <1>b, <2>1, <3>1, <3>2, <3>3
            DEF ReadStock, TypeOK, table, aggregates, history
  <2> QED BY <2>2, <2>3
<1>6. ASSUME NEW w \in Workers, ReadInputs(w) PROVE TypeOK'
  <2>1. snap' \in [Workers -> Snapshots]
    BY <1>6, <1>a DEF ReadInputs, TypeOK
  <2> QED BY <1>6, <2>1 DEF ReadInputs, TypeOK, table, aggregates, history
<1>7. ASSUME NEW w \in Workers, SelectAggregate(w) PROVE TypeOK'
  <2>1. found' \in [Workers -> Workers \cup {None}]
    BY <1>7 DEF SelectAggregate, TypeOK
  <2> QED BY <1>7, <2>1 DEF SelectAggregate, TypeOK, table, aggregates, history
<1>8. ASSUME NEW w \in Workers, FlushAggregate(w) PROVE TypeOK'
  <2>1. /\ written' \in [Workers -> [Items -> Workers \cup {None}]]
        /\ content' \in [Workers -> [Items -> Snapshots]]
    BY <1>8 DEF FlushAggregate, TypeOK, Computed
  <2> QED BY <1>8, <1>b, <2>1 DEF FlushAggregate, TypeOK, table, aggregates, history
<1>9. ASSUME NEW w \in Workers, CommitRecompute(w) PROVE TypeOK'
  <2>1. agg' \in [Items -> [Workers -> Snapshots \cup {Absent}]]
    BY <1>9 DEF CommitRecompute, TypeOK
  <2>2. detectDue' \in BOOLEAN
    BY <1>9 DEF CommitRecompute
  <2>3. raced' \in SUBSET Items
    BY <1>9 DEF CommitRecompute, TypeOK
  <2>4. EndRecompute(w)
    BY <1>9 DEF CommitRecompute
  <2> QED BY <1>9, <2>1, <2>2, <2>3, <2>4, EndTypes DEF CommitRecompute, TypeOK, table
<1>10. ASSUME NEW w \in Workers, RecomputeFails(w) PROVE TypeOK'
  <2>1. EndRecompute(w) /\ lost' \in SUBSET Items
    BY <1>10 DEF RecomputeFails, TypeOK
  <2> QED BY <1>10, <2>1, EndTypes DEF RecomputeFails, TypeOK, table, aggregates
<1>11. CASE UNCHANGED vars
  BY <1>11 DEF TypeOK, vars, table, aggregates, recompute, history
<1> QED BY <1>1, <1>2, <1>3, <1>4, <1>5, <1>6, <1>7, <1>8, <1>9, <1>10, <1>11, Steps

\* The tables, the jobs and what a worker keeps between two statements have
\* their types, whatever the syncs commit (observation/aggregates.py).
THEOREM TypeCorrect == Spec => []TypeOK
<1>1. Init => TypeOK
  BY InitialTypes
<1>2. TypeOK /\ [Next]_vars => TypeOK'
  BY TypeStep
<1> QED BY <1>1, <1>2, PTL DEF Spec

-----------------------------------------------------------------------------
(* What the rules see.                                                     *)

LEMMA SeenStep == RulesSeeAggregates /\ [Next]_vars => RulesSeeAggregates'
<1> SUFFICES ASSUME RulesSeeAggregates, [Next]_vars PROVE RulesSeeAggregates'
  OBVIOUS
<1> USE DEF RulesSeeAggregates
<1>1. CASE SyncCommits
  BY <1>1 DEF SyncCommits, aggregates, history
<1>2. CASE Detect
  BY <1>2 DEF Detect
<1>3. CASE JobLost
  <2>1. CASE UNCHANGED <<rows, aggregates, recompute, raced, blind, syncs>>
    BY <2>1 DEF aggregates
  <2>2. CASE blind' = TRUE
    BY <2>2
  <2> QED BY <1>3, <2>1, <2>2 DEF JobLost
<1>4. ASSUME NEW w \in Workers, NEW is \in due, StartRecompute(w, is) PROVE RulesSeeAggregates'
  BY <1>4 DEF StartRecompute, aggregates, history
<1>5. ASSUME NEW w \in Workers, NEW i \in Items, ReadStock(w, i) PROVE RulesSeeAggregates'
  BY <1>5 DEF ReadStock, aggregates, history
<1>6. ASSUME NEW w \in Workers, ReadInputs(w) \/ SelectAggregate(w) \/ FlushAggregate(w)
      PROVE RulesSeeAggregates'
  BY <1>6 DEF ReadInputs, SelectAggregate, FlushAggregate, aggregates, history
<1>7. ASSUME NEW w \in Workers, CommitRecompute(w) PROVE RulesSeeAggregates'
  BY <1>7 DEF CommitRecompute, RequestsDetect
<1>8. ASSUME NEW w \in Workers, RecomputeFails(w) PROVE RulesSeeAggregates'
  BY <1>8 DEF RecomputeFails, aggregates
<1>9. CASE UNCHANGED vars
  BY <1>9 DEF vars, aggregates, history
<1> QED BY <1>1, <1>2, <1>3, <1>4, <1>5, <1>6, <1>7, <1>8, <1>9, Steps

\* Whatever recomputations commit, the risk rules have read the aggregates as they
\* are, or will, or their job was lost (observation/jobs.py:29-34).
THEOREM RulesKeepUp == Spec => []RulesSeeAggregates
<1>1. Init => RulesSeeAggregates
  BY DEF Init, RulesSeeAggregates
<1> QED BY <1>1, SeenStep, PTL DEF Spec

-----------------------------------------------------------------------------
(* The aggregates.  What keeps one fresh is a job that waits for its item or *)
(* a worker whose inputs are fresh themselves; two workers with the same     *)
(* item have both marked themselves as overlapped.                           *)

Waiting(i) == \/ \E is \in due : i \in is
              \/ \E w \in Workers : i \in todo[w]

\* What a worker has taken or worked on is in its payload, and taken once.
Within == \A w \in Workers :
  /\ todo[w] \subseteq payload[w] /\ (phase[w] = "idle" => payload[w] = {})
  /\ \A i \in Items : WorksOn(w, i) => i \in payload[w] /\ i \notin todo[w]

InStock(i) == \E k \in Stock : ItemKey[k] = i /\ rows[k] # NoRows

\* What is aggregated had stock, and rows do not vanish: the job for it will
\* not end without a word.
Stocked == \A i \in Items :
  (\E w \in Workers : agg[i][w] # Absent \/ WorksOn(w, i)) => InStock(i)

Together == \A i \in Items, v, w \in Workers :
  v # w /\ WorksOn(v, i) /\ WorksOn(w, i) => v \in overlapped /\ w \in overlapped

\* Nobody has inserted behind the back of a worker that was alone.
SoleRow == \A w \in Workers \ overlapped, q \in Workers :
  /\ phase[w] = "flush" /\ agg[item[w]][q] # Absent => q = found[w]
  /\ \A i \in Items : written[w][i] # None /\ agg[i][q] # Absent => q = written[w][i]

\* A worker that was alone with outdated inputs will not have the last word.
Covered == \A w \in Workers \ overlapped, i \in Items :
  \/ item[w] = i /\ Outdated(snap[w], i)
  \/ written[w][i] # None /\ Outdated(content[w][i], i)
  => Waiting(i) \/ i \in lost

Single == \A i \in Items \ raced, q, r \in Workers :
  agg[i][q] # Absent /\ agg[i][r] # Absent => q = r

LInv == /\ TypeOK /\ Within /\ Stocked /\ Together /\ SoleRow /\ Covered
        /\ Single /\ FreshUnlessPending

\* A step that leaves what the workers read and wrote, and the aggregates.
Quiet == UNCHANGED <<item, written, content, overlapped, agg, raced>>

LEMMA QuietSteps ==
  \/ SyncCommits \/ Detect \/ JobLost \/ UNCHANGED vars
  \/ \E w \in Workers, is \in due : StartRecompute(w, is)
  \/ \E w \in Workers : ReadInputs(w) \/ SelectAggregate(w)
  => Quiet
<1>1. SyncCommits => Quiet
  BY DEF SyncCommits, Quiet, aggregates, recompute, history
<1>2. Detect => Quiet
  BY DEF Detect, Quiet, recompute
<1>3. JobLost => Quiet
  BY DEF JobLost, Quiet, aggregates, recompute
<1>4. UNCHANGED vars => Quiet
  BY DEF vars, Quiet, aggregates, recompute, history
<1>5. (\E w \in Workers, is \in due : StartRecompute(w, is)) => Quiet
  BY DEF StartRecompute, Quiet, aggregates, history
<1>6. (\E w \in Workers : ReadInputs(w) \/ SelectAggregate(w)) => Quiet
  BY DEF ReadInputs, SelectAggregate, Quiet, aggregates, history
<1> QED BY <1>1, <1>2, <1>3, <1>4, <1>5, <1>6

LEMMA QuietWork ==
  ASSUME Quiet, NEW v \in Workers, NEW i \in Items
  PROVE  WorksOn(v, i)' <=> WorksOn(v, i)
BY DEF Quiet, WorksOn

LEMMA EndWork ==
  ASSUME TypeOK, NEW w \in Workers, EndRecompute(w), NEW v \in Workers, NEW i \in Items
  PROVE  WorksOn(v, i)' <=> v # w /\ WorksOn(v, i)
BY DEF EndRecompute, TypeOK, WorksOn, Items, Canonical!Items

LEMMA FlushWork ==
  ASSUME TypeOK, NEW w \in Workers, FlushAggregate(w), NEW v \in Workers, NEW i \in Items
  PROVE  WorksOn(v, i)' <=> WorksOn(v, i)
<1>1. item[w] \in Items /\ None \notin Items /\ None \notin Workers
  BY LoopAssumption DEF FlushAggregate, TypeOK, Items, Canonical!Items
<1>2. \A j \in Items : written'[w][j] # None <=> j = item[w] \/ written[w][j] # None
  BY <1>1 DEF FlushAggregate, TypeOK
<1>3. v # w => written'[v] = written[v] /\ item'[v] = item[v]
  BY DEF FlushAggregate, TypeOK
<1>4. item'[w] = None
  BY DEF FlushAggregate, TypeOK
<1> QED BY <1>1, <1>2, <1>3, <1>4 DEF WorksOn

\* Either the item has no stock and is left out, or w begins with it.
LEMMA StockCases ==
  ASSUME NEW w \in Workers, NEW j \in Items, ReadStock(w, j)
  PROVE  \/ ~InStock(j) /\ UNCHANGED <<phase, item, snap, overlapped>>
         \/ /\ InStock(j)
            /\ phase' = [phase EXCEPT ![w] = "inputs"]
            /\ item' = [item EXCEPT ![w] = j]
            /\ snap' = [snap EXCEPT ![w] =
                 [k \in Keys |-> IF k \in Stock /\ ItemKey[k] = j THEN rows[k] ELSE NoRows]]
            /\ overlapped' = IF {v \in Workers \ {w} : WorksOn(v, j)} = {} THEN overlapped
                             ELSE overlapped \cup {v \in Workers \ {w} : WorksOn(v, j)} \cup {w}
BY DEF ReadStock, InStock

LEMMA StockWork ==
  ASSUME TypeOK, NEW w \in Workers, NEW j \in Items, ReadStock(w, j),
         NEW v \in Workers, NEW i \in Items
  PROVE  /\ WorksOn(v, i)' <=> WorksOn(v, i) \/ (InStock(j) /\ v = w /\ i = j)
         /\ overlapped \subseteq overlapped'
<1>1. item[w] = None /\ None \notin Items /\ written' = written
  BY DEF ReadStock, TypeOK, Items, Canonical!Items
<1>2. CASE ~InStock(j) /\ UNCHANGED <<phase, item, snap, overlapped>>
  BY <1>1, <1>2 DEF WorksOn
<1>3. CASE InStock(j) /\ ~ UNCHANGED <<phase, item, snap, overlapped>>
  <2>1. item' = [item EXCEPT ![w] = j] /\ overlapped \subseteq overlapped'
    BY <1>3, StockCases
  <2> QED BY <1>1, <1>3, <2>1 DEF WorksOn, TypeOK
<1>4. InStock(j) => item'[w] # item[w]
  BY <1>1, StockCases DEF TypeOK
<1> QED BY <1>2, <1>3, <1>4, StockCases

LEMMA WithinStep == TypeOK /\ Within /\ [Next]_vars => Within'
<1> SUFFICES ASSUME TypeOK, Within, [Next]_vars PROVE Within'
  OBVIOUS
<1>1. CASE UNCHANGED <<phase, payload, todo, item, written>>
  BY <1>1 DEF Within, WorksOn
<1>2. SyncCommits \/ Detect \/ JobLost \/ UNCHANGED vars =>
        UNCHANGED <<phase, payload, todo, item, written>>
  BY DEF SyncCommits, Detect, JobLost, vars, recompute
<1>3. ASSUME NEW w \in Workers, NEW is \in due, StartRecompute(w, is) PROVE Within'
  BY <1>3 DEF StartRecompute, Within, WorksOn, TypeOK
<1>4. ASSUME NEW w \in Workers, NEW j \in Items, ReadStock(w, j) PROVE Within'
  <2>1. todo' = [todo EXCEPT ![w] = @ \ {j}] /\ payload' = payload /\ j \in todo[w]
        /\ phase[w] = "next"
    BY <1>4 DEF ReadStock
  <2>2. \A v \in Workers : phase'[v] = "idle" => phase[v] = "idle"
    BY <1>4, <2>1, StockCases DEF TypeOK
  <2>3. ASSUME NEW v \in Workers, NEW i \in Items, WorksOn(v, i)'
        PROVE  i \in payload'[v] /\ i \notin todo'[v]
    BY <1>4, <2>1, <2>3, StockWork DEF Within, TypeOK
  <2> QED BY <2>1, <2>2, <2>3 DEF Within, TypeOK
<1>5. ASSUME NEW w \in Workers, ReadInputs(w) \/ SelectAggregate(w) PROVE Within'
  <2>1. UNCHANGED <<payload, todo, item, written>>
    BY <1>5 DEF ReadInputs, SelectAggregate
  <2>2. \A v \in Workers : phase'[v] = "idle" => phase[v] = "idle"
    BY <1>5 DEF ReadInputs, SelectAggregate, TypeOK
  <2> QED BY <2>1, <2>2 DEF Within, WorksOn
<1>6. ASSUME NEW w \in Workers, FlushAggregate(w) PROVE Within'
  <2>1. UNCHANGED <<payload, todo>>
        /\ \A v \in Workers : phase'[v] = "idle" => phase[v] = "idle"
    BY <1>6 DEF FlushAggregate, TypeOK
  <2> QED BY <1>6, <2>1, FlushWork DEF Within
<1>7. ASSUME NEW w \in Workers, EndRecompute(w) PROVE Within'
  <2>1. \A v \in Workers : IF v = w THEN todo'[v] = {} /\ payload'[v] = {}
                           ELSE todo'[v] = todo[v] /\ payload'[v] = payload[v]
                                /\ phase'[v] = phase[v]
    BY <1>7 DEF EndRecompute, TypeOK
  <2> QED BY <1>7, <2>1, EndWork DEF Within
<1>8. \A w \in Workers : CommitRecompute(w) \/ RecomputeFails(w) => EndRecompute(w)
  BY DEF CommitRecompute, RecomputeFails
<1> QED BY <1>1, <1>2, <1>3, <1>4, <1>5, <1>6, <1>7, <1>8, Steps

LEMMA TogetherStep == TypeOK /\ Together /\ [Next]_vars => Together'
<1> SUFFICES ASSUME TypeOK, Together, [Next]_vars PROVE Together'
  OBVIOUS
<1>1. CASE Quiet
  BY <1>1 DEF Quiet, Together, WorksOn
<1>2. ASSUME NEW w \in Workers, NEW j \in Items, ReadStock(w, j) PROVE Together'
  <2>1. SUFFICES ASSUME NEW i \in Items, NEW u \in Workers, NEW v \in Workers, u # v,
                        WorksOn(u, i)', WorksOn(v, i)'
                 PROVE  u \in overlapped' /\ v \in overlapped'
    BY DEF Together
  <2>2. CASE WorksOn(u, i) /\ WorksOn(v, i)
    BY <1>2, <2>1, <2>2, StockWork DEF Together
  <2>3. CASE InStock(j) /\ i = j /\ (u = w \/ v = w)
    <3>1. \A x \in Workers \ {w} : WorksOn(x, j)' => WorksOn(x, j)
      BY <1>2, StockWork
    <3>2. \E x \in Workers \ {w} : WorksOn(x, j) /\ {u, v} = {w, x}
      BY <2>1, <2>3, <3>1
    <3> QED BY <1>2, <2>3, <3>2, StockCases
  <2> QED BY <1>2, <2>1, <2>2, <2>3, StockWork
<1>3. ASSUME NEW w \in Workers, FlushAggregate(w) PROVE Together'
  <2>1. overlapped' = overlapped
    BY <1>3 DEF FlushAggregate
  <2> QED BY <1>3, <2>1, FlushWork DEF Together
<1>4. ASSUME NEW w \in Workers, EndRecompute(w) PROVE Together'
  <2>1. overlapped' = overlapped \ {w}
    BY <1>4 DEF EndRecompute
  <2> QED BY <1>4, <2>1, EndWork DEF Together
<1>5. \A w \in Workers : CommitRecompute(w) \/ RecomputeFails(w) => EndRecompute(w)
  BY DEF CommitRecompute, RecomputeFails
<1> QED BY <1>1, <1>2, <1>3, <1>4, <1>5, QuietSteps, Steps

LEMMA StocksStay ==
  ASSUME TypeOK, [Next]_vars, NEW i \in Items, InStock(i)
  PROVE  InStock(i)'
<1>1. rows' = rows \/ SyncCommits
  BY Steps DEF Detect, JobLost, vars, table, StartRecompute, ReadStock, ReadInputs,
               SelectAggregate, FlushAggregate, CommitRecompute, RecomputeFails
<1>2. CASE SyncCommits
  <2>1. PICK is \in SUBSET Items : Canonical!Commit(is)
    BY <1>2 DEF SyncCommits
  <2>2. PICK k \in Stock : ItemKey[k] = i /\ rows[k] # NoRows
    BY DEF InStock
  <2>3. PICK r \in RowIds : rows[k][r] # Absent
    BY <2>2, LoopAssumption DEF TypeOK, Canonical!Table, Canonical!RowSets, NoRows
  <2>4. rows'[k][r] # Absent
    BY <2>1, <2>2, <2>3, LoopAssumption DEF Canonical!Commit
  <2>5. rows'[k] # NoRows
    BY <2>4 DEF NoRows
  <2> QED BY <2>2, <2>5 DEF InStock
<1>3. CASE rows' = rows
  BY <1>3 DEF InStock
<1> QED BY <1>1, <1>2, <1>3

LEMMA CommitRows ==
  ASSUME TypeOK, NEW w \in Workers, CommitRecompute(w), NEW i \in Items, NEW q \in Workers
  PROVE  /\ written[w][i] = q => agg'[i][q] = content[w][i] /\ content[w][i] # Absent
         /\ written[w][i] # q => agg'[i][q] = agg[i][q]
BY LoopAssumption DEF CommitRecompute, TypeOK, Snapshots

LEMMA StockedStep == TypeOK /\ Stocked /\ [Next]_vars => Stocked'
<1> SUFFICES ASSUME TypeOK, Stocked, [Next]_vars PROVE Stocked'
  OBVIOUS
<1> SUFFICES ASSUME NEW i \in Items, NEW v \in Workers, agg'[i][v] # Absent \/ WorksOn(v, i)'
             PROVE  InStock(i)'
  BY DEF Stocked
<1> SUFFICES InStock(i)
  BY StocksStay
<1>1. CASE Quiet
  BY <1>1, QuietWork DEF Quiet, Stocked
<1>2. ASSUME NEW w \in Workers, NEW j \in Items, ReadStock(w, j) PROVE InStock(i)
  <2>1. agg' = agg
    BY <1>2 DEF ReadStock, aggregates
  <2> QED BY <1>2, <2>1, StockWork DEF Stocked
<1>3. ASSUME NEW w \in Workers, FlushAggregate(w) PROVE InStock(i)
  <2>1. agg' = agg
    BY <1>3 DEF FlushAggregate, aggregates
  <2> QED BY <1>3, <2>1, FlushWork DEF Stocked
<1>4. ASSUME NEW w \in Workers, CommitRecompute(w) PROVE InStock(i)
  <2>1. EndRecompute(w)
    BY <1>4 DEF CommitRecompute
  <2>2. CASE written[w][i] = v
    BY <2>2, LoopAssumption DEF Stocked, WorksOn
  <2>3. CASE written[w][i] # v
    BY <1>4, <2>1, <2>3, CommitRows, EndWork DEF Stocked
  <2> QED BY <2>2, <2>3
<1>5. ASSUME NEW w \in Workers, RecomputeFails(w) PROVE InStock(i)
  <2>1. EndRecompute(w) /\ agg' = agg
    BY <1>5 DEF RecomputeFails, aggregates
  <2> QED BY <2>1, EndWork DEF Stocked
<1> QED BY <1>1, <1>2, <1>3, <1>4, <1>5, QuietSteps, Steps

LEMMA SoleStep == TypeOK /\ Together /\ SoleRow /\ [Next]_vars => SoleRow'
<1> SUFFICES ASSUME TypeOK, Together, SoleRow, [Next]_vars PROVE SoleRow'
  OBVIOUS
<1> DEFINE Sole(w) == \A q \in Workers :
             /\ phase[w] = "flush" /\ agg[item[w]][q] # Absent => q = found[w]
             /\ \A i \in Items : written[w][i] # None /\ agg[i][q] # Absent => q = written[w][i]
<1>0. /\ \A w \in Workers \ overlapped : Sole(w)
      /\ SoleRow' <=> \A w \in Workers \ overlapped' : Sole(w)'
  BY DEF SoleRow
<1> HIDE DEF Sole
<1>1. ASSUME NEW w \in Workers, Sole(w), agg' = agg, item'[w] = item[w],
             written'[w] = written[w],
             phase'[w] # "flush" \/ (phase'[w] = phase[w] /\ found'[w] = found[w])
      PROVE  Sole(w)'
  BY <1>1 DEF Sole
<1>2. CASE SyncCommits \/ Detect \/ JobLost \/ UNCHANGED vars
  <2>1. UNCHANGED <<phase, agg, item, written, found, overlapped>>
    BY <1>2 DEF SyncCommits, Detect, JobLost, vars, aggregates, recompute
  <2> QED BY <1>0, <1>1, <2>1
<1>3. ASSUME NEW w \in Workers, NEW is \in due, StartRecompute(w, is) PROVE SoleRow'
  <2>1. /\ UNCHANGED <<agg, item, written, found, overlapped>>
        /\ \A v \in Workers : phase'[v] # "flush" \/ phase'[v] = phase[v]
    BY <1>3 DEF StartRecompute, TypeOK, aggregates
  <2> QED BY <1>0, <1>1, <2>1
<1>4. ASSUME NEW w \in Workers, NEW j \in Items, ReadStock(w, j) PROVE SoleRow'
  <2>1. UNCHANGED <<agg, written, found>> /\ overlapped \subseteq overlapped'
    BY <1>4, StockWork DEF ReadStock, aggregates
  <2>2. \A v \in Workers : \/ phase'[v] = phase[v] /\ item'[v] = item[v]
                           \/ phase'[v] = "inputs"
    BY <1>4, StockCases DEF TypeOK
  <2> QED BY <1>0, <2>1, <2>2 DEF Sole
<1>5. ASSUME NEW w \in Workers, ReadInputs(w) PROVE SoleRow'
  <2>1. /\ UNCHANGED <<agg, item, written, found, overlapped>>
        /\ \A v \in Workers : phase'[v] # "flush" \/ phase'[v] = phase[v]
    BY <1>5 DEF ReadInputs, TypeOK, aggregates
  <2> QED BY <1>0, <1>1, <2>1
<1>6. ASSUME NEW w \in Workers, SelectAggregate(w) PROVE SoleRow'
  <2>1. UNCHANGED <<agg, item, written, overlapped>>
    BY <1>6 DEF SelectAggregate, aggregates
  <2>2. \A v \in Workers \ {w} : phase'[v] = phase[v] /\ found'[v] = found[v]
    BY <1>6 DEF SelectAggregate, TypeOK
  <2>3. ASSUME Sole(w) PROVE Sole(w)'
    <3>1. item[w] \in Items
      BY <1>6 DEF SelectAggregate, TypeOK
    <3>2. ASSUME NEW q \in Workers, agg[item[w]][q] # Absent PROVE q = found'[w]
      <4>1. q \in Existing(item[w])
        BY <3>2 DEF Existing, AggRows
      <4> QED BY <1>6, <4>1 DEF SelectAggregate, TypeOK
    <3> QED BY <2>1, <2>3, <3>2 DEF Sole
  <2> QED BY <1>0, <1>1, <2>1, <2>2, <2>3
<1>7. ASSUME NEW w \in Workers, FlushAggregate(w) PROVE SoleRow'
  <2>1. UNCHANGED <<agg, overlapped>>
    BY <1>7 DEF FlushAggregate, aggregates
  <2>2. \A v \in Workers \ {w} : /\ phase'[v] = phase[v] /\ found'[v] = found[v]
                                 /\ item'[v] = item[v] /\ written'[v] = written[v]
    BY <1>7 DEF FlushAggregate, TypeOK
  <2>3. ASSUME Sole(w) PROVE Sole(w)'
    <3>1. item[w] \in Items /\ phase[w] = "flush" /\ phase'[w] = "next"
      BY <1>7 DEF FlushAggregate, TypeOK
    <3>2. ASSUME NEW q \in Workers, NEW i \in Items, written'[w][i] # None, agg[i][q] # Absent
          PROVE  q = written'[w][i]
      <4>1. CASE i = item[w]
        <5>1. q = found[w]
          BY <2>3, <3>1, <3>2, <4>1 DEF Sole
        <5>2. written'[w][i] = IF found[w] = None THEN w ELSE found[w]
          BY <1>7, <4>1 DEF FlushAggregate, TypeOK
        <5> QED BY <5>1, <5>2, LoopAssumption
      <4>2. CASE i # item[w]
        <5>1. written'[w][i] = written[w][i]
          BY <1>7, <4>2 DEF FlushAggregate, TypeOK
        <5> QED BY <2>3, <3>2, <5>1 DEF Sole
      <4> QED BY <4>1, <4>2
    <3> QED BY <2>1, <3>1, <3>2 DEF Sole
  <2> QED BY <1>0, <1>1, <2>1, <2>2, <2>3
<1>8. ASSUME NEW w \in Workers, EndRecompute(w) PROVE
        /\ overlapped' = overlapped \ {w}
        /\ phase'[w] = "idle" /\ \A i \in Items : written'[w][i] = None
        /\ \A v \in Workers \ {w} : /\ phase'[v] = phase[v] /\ found'[v] = found[v]
                                    /\ item'[v] = item[v] /\ written'[v] = written[v]
  BY <1>8 DEF EndRecompute, TypeOK
<1>9. ASSUME NEW w \in Workers, CommitRecompute(w) PROVE SoleRow'
  <2>1. EndRecompute(w)
    BY <1>9 DEF CommitRecompute
  <2>2. Sole(w)'
    BY <1>8, <2>1 DEF Sole
  <2>3. ASSUME NEW v \in Workers \ {w}, v \notin overlapped, Sole(v) PROVE Sole(v)'
    <3>1. ASSUME NEW q \in Workers, NEW i \in Items, WorksOn(v, i) PROVE agg'[i][q] = agg[i][q]
      <4>1. written[w][i] = None
        BY <2>3, <3>1 DEF Together, WorksOn
      <4> QED BY <1>9, <4>1, CommitRows, LoopAssumption
    <3>2. phase[v] = "flush" => item[v] \in Items /\ WorksOn(v, item[v])
      BY DEF TypeOK, WorksOn
    <3>3. \A i \in Items : written[v][i] # None => WorksOn(v, i)
      BY DEF WorksOn
    <3> QED BY <1>8, <2>1, <2>3, <3>1, <3>2, <3>3 DEF Sole
  <2> QED BY <1>0, <1>8, <2>1, <2>2, <2>3
<1>10. ASSUME NEW w \in Workers, RecomputeFails(w) PROVE SoleRow'
  <2>1. EndRecompute(w) /\ agg' = agg
    BY <1>10 DEF RecomputeFails, aggregates
  <2>2. Sole(w)'
    BY <1>8, <2>1 DEF Sole
  <2> QED BY <1>0, <1>1, <1>8, <2>1, <2>2
<1> QED BY <1>2, <1>3, <1>4, <1>5, <1>6, <1>7, <1>9, <1>10, Steps

LEMMA CommitRaced ==
  ASSUME TypeOK, NEW w \in Workers, CommitRecompute(w), NEW i \in Items
  PROVE  i \in raced' <=> IF written[w][i] = None THEN i \in raced ELSE w \in overlapped
BY DEF CommitRecompute

LEMMA SingleStep == TypeOK /\ SoleRow /\ Single /\ [Next]_vars => Single'
<1> SUFFICES ASSUME TypeOK, SoleRow, Single, [Next]_vars PROVE Single'
  OBVIOUS
<1>1. CASE UNCHANGED <<agg, raced>>
  BY <1>1 DEF Single
<1>2. ASSUME NEW w \in Workers, CommitRecompute(w) PROVE Single'
  <2>1. SUFFICES ASSUME NEW i \in Items, i \notin raced', NEW q \in Workers, NEW r \in Workers,
                        agg'[i][q] # Absent, agg'[i][r] # Absent
                 PROVE  q = r
    BY DEF Single
  <2>2. CASE written[w][i] = None
    BY <1>2, <2>1, <2>2, CommitRows, CommitRaced, LoopAssumption DEF Single
  <2>3. CASE written[w][i] # None
    <3>1. w \notin overlapped
      BY <1>2, <2>1, <2>3, CommitRaced
    <3>2. \A x \in Workers : agg'[i][x] # Absent => x = written[w][i]
      BY <1>2, <2>3, <3>1, CommitRows DEF SoleRow
    <3> QED BY <2>1, <3>2
  <2> QED BY <2>2, <2>3
<1>3. Quiet => UNCHANGED <<agg, raced>>
  BY DEF Quiet
<1>4. ASSUME NEW w \in Workers, \/ \E j \in Items : ReadStock(w, j)
                                \/ FlushAggregate(w) \/ RecomputeFails(w)
      PROVE  UNCHANGED <<agg, raced>>
  BY <1>4 DEF ReadStock, FlushAggregate, RecomputeFails, aggregates, history
<1> QED BY <1>1, <1>2, <1>3, <1>4, QuietSteps, Steps

\* What becomes outdated in a step gets a job in it.
LEMMA SyncOutdates ==
  ASSUME TypeOK, [Next]_vars, NEW inputs, NEW i \in Items,
         \E k \in Inputs(i) \cap Watched, r \in RowIds :
           inputs[k][r] # Absent /\ inputs[k][r] # rows'[k][r]
  PROVE  Outdated(inputs, i) \/ Waiting(i)'
<1>1. CASE rows' = rows
  BY <1>1 DEF Outdated
<1>2. CASE SyncCommits
  <2>1. PICK is \in SUBSET Items : Canonical!Commit(is)
    BY <1>2 DEF SyncCommits
  <2>2. PICK k \in Inputs(i) \cap Watched, r \in RowIds :
          inputs[k][r] # Absent /\ inputs[k][r] # rows'[k][r]
    OBVIOUS
  <2>3. CASE rows[k][r] = inputs[k][r]
    <3>1. Canonical!Changed(k)
      BY <2>2, <2>3 DEF Canonical!Changed
    <3>2. i \in is /\ is \in due'
      BY <2>1, <2>2, <3>1 DEF Canonical!Commit, Inputs
    <3> QED BY <3>2 DEF Waiting
  <2>4. CASE rows[k][r] # inputs[k][r]
    BY <2>2, <2>4 DEF Outdated
  <2> QED BY <2>3, <2>4
<1> QED BY <1>1, <1>2, Steps
        DEF Detect, JobLost, vars, table, StartRecompute, ReadStock, ReadInputs,
            SelectAggregate, FlushAggregate, CommitRecompute, RecomputeFails

LEMMA CommitWaits ==
  ASSUME TypeOK, NEW w \in Workers, CommitRecompute(w), NEW i \in Items, Waiting(i)
  PROVE  Waiting(i)'
<1>1. due' = due /\ todo[w] = {} /\ todo' = [todo EXCEPT ![w] = {}]
  BY DEF CommitRecompute, EndRecompute, table
<1> QED BY <1>1 DEF Waiting, TypeOK

\* A job that waits is lost, begun, or waits on.
LEMMA WaitingStep ==
  ASSUME TypeOK, Within, Stocked, [Next]_vars, NEW i \in Items, Waiting(i)
  PROVE  \/ Waiting(i)' \/ i \in lost' \/ ~InStock(i)
         \/ \E w \in Workers : ReadStock(w, i) /\ InStock(i)
<1>1. CASE SyncCommits
  <2>1. due \subseteq due' /\ todo' = todo
    BY <1>1 DEF SyncCommits, Canonical!Commit, recompute
  <2> QED BY <2>1 DEF Waiting
<1>2. CASE Detect \/ UNCHANGED vars
  <2>1. due' = due /\ todo' = todo
    BY <1>2 DEF Detect, vars, table, recompute
  <2> QED BY <2>1 DEF Waiting
<1>3. CASE JobLost
  <2>1. todo' = todo
    BY <1>3 DEF JobLost, recompute
  <2>2. CASE \E is \in due : due' = due \ {is} /\ lost' = lost \cup is
    BY <2>1, <2>2 DEF Waiting
  <2>3. CASE due' = due
    BY <2>1, <2>3 DEF Waiting
  <2> QED BY <1>3, <2>2, <2>3 DEF JobLost, table
<1>4. ASSUME NEW w \in Workers, NEW is \in due, StartRecompute(w, is) PROVE Waiting(i)'
  <2>1. due' = due \ {is} /\ todo' = [todo EXCEPT ![w] = is] /\ todo[w] = {}
    BY <1>4 DEF StartRecompute, Within
  <2> QED BY <2>1 DEF Waiting, TypeOK
<1>5. ASSUME NEW w \in Workers, NEW j \in Items, ReadStock(w, j)
      PROVE  Waiting(i)' \/ i = j
  <2>1. due' = due /\ todo' = [todo EXCEPT ![w] = @ \ {j}]
    BY <1>5 DEF ReadStock, table
  <2> QED BY <2>1 DEF Waiting, TypeOK
<1>6. ASSUME NEW w \in Workers, ReadInputs(w) \/ SelectAggregate(w) \/ FlushAggregate(w)
      PROVE  Waiting(i)'
  <2>1. due' = due /\ todo' = todo
    BY <1>6 DEF ReadInputs, SelectAggregate, FlushAggregate, table
  <2> QED BY <2>1 DEF Waiting
<1>7. ASSUME NEW w \in Workers, CommitRecompute(w) PROVE Waiting(i)'
  BY <1>7, CommitWaits
<1>8. ASSUME NEW w \in Workers, RecomputeFails(w) PROVE Waiting(i)' \/ i \in lost'
  <2>1. /\ due' = due /\ todo' = [todo EXCEPT ![w] = {}]
        /\ todo[w] \subseteq payload[w] /\ lost' = lost \cup payload[w]
    BY <1>8 DEF RecomputeFails, EndRecompute, Within, table
  <2> QED BY <2>1 DEF Waiting, TypeOK
<1> QED BY <1>1, <1>2, <1>3, <1>4, <1>5, <1>6, <1>7, <1>8, Steps

LEMMA LostStays ==
  ASSUME [Next]_vars PROVE lost \subseteq lost'
BY Steps DEF SyncCommits, Detect, JobLost, vars, history, StartRecompute, ReadStock,
             ReadInputs, SelectAggregate, FlushAggregate, CommitRecompute, RecomputeFails

Stale(w, i) == \/ item[w] = i /\ Outdated(snap[w], i)
               \/ written[w][i] # None /\ Outdated(content[w][i], i)

\* Inputs that w reads are fresh, and age as others do.
LEMMA StaleStep ==
  ASSUME TypeOK, [Next]_vars, NEW w \in Workers, NEW i \in Items, Stale(w, i)'
  PROVE  Stale(w, i) \/ Waiting(i)'
<1>1. CASE /\ item'[w] = item[w] /\ snap'[w] = snap[w]
           /\ written'[w] = written[w] /\ content'[w] = content[w]
  <2>1. ASSUME NEW inputs,
               \E k \in Inputs(i) \cap Watched, r \in RowIds :
                 inputs[k][r] # Absent /\ inputs[k][r] # rows'[k][r]
        PROVE  Outdated(inputs, i) \/ Waiting(i)'
    BY <2>1, SyncOutdates
  <2>2. CASE item[w] = i /\ \E k \in Inputs(i) \cap Watched, r \in RowIds :
               snap[w][k][r] # Absent /\ snap[w][k][r] # rows'[k][r]
    BY <2>1, <2>2 DEF Stale
  <2>3. CASE written[w][i] # None /\ \E k \in Inputs(i) \cap Watched, r \in RowIds :
               content[w][i][k][r] # Absent /\ content[w][i][k][r] # rows'[k][r]
    BY <2>1, <2>3 DEF Stale
  <2> QED BY <1>1, <2>2, <2>3 DEF Stale, Outdated
<1>2. SyncCommits \/ Detect \/ JobLost \/ UNCHANGED vars =>
        UNCHANGED <<item, snap, written, content>>
  BY DEF SyncCommits, Detect, JobLost, vars, recompute
<1>3. ASSUME NEW v \in Workers, \/ \E is \in due : StartRecompute(v, is)
                                \/ SelectAggregate(v)
      PROVE  UNCHANGED <<item, snap, written, content>>
  BY <1>3 DEF StartRecompute, SelectAggregate
<1>4. ASSUME NEW v \in Workers, v # w, \/ \E j \in Items : ReadStock(v, j)
                                       \/ ReadInputs(v) \/ FlushAggregate(v) \/ EndRecompute(v)
      PROVE  /\ item'[w] = item[w] /\ snap'[w] = snap[w]
             /\ written'[w] = written[w] /\ content'[w] = content[w]
  BY <1>4 DEF ReadStock, ReadInputs, FlushAggregate, EndRecompute, TypeOK
<1>5. ASSUME NEW j \in Items, ReadStock(w, j) PROVE Stale(w, i)
  <2>1. rows' = rows /\ written' = written /\ content' = content
    BY <1>5 DEF ReadStock, table
  <2>2. CASE UNCHANGED <<item, snap>>
    BY <2>1, <2>2 DEF Stale, Outdated
  <2>3. CASE snap' = [snap EXCEPT ![w] =
                 [k \in Keys |-> IF k \in Stock /\ ItemKey[k] = j THEN rows[k] ELSE NoRows]]
    <3>1. \A k \in Inputs(i), r \in RowIds : snap'[w][k][r] \in {Absent, rows[k][r]}
      BY <2>3, LoopAssumption DEF Inputs, TypeOK, NoRows
    <3>2. ~ Outdated(snap[w], i)'
      BY <2>1, <3>1 DEF Outdated
    <3> QED BY <2>1, <3>2 DEF Stale, Outdated
  <2> QED BY <1>5, <2>2, <2>3, StockCases
<1>6. ASSUME ReadInputs(w) PROVE Stale(w, i)
  <2>1. UNCHANGED <<rows, item, written, content>>
    BY <1>6 DEF ReadInputs, table
  <2>2. ASSUME item[w] = i, NEW k \in Inputs(i) PROVE snap'[w][k] \in {snap[w][k], rows[k]}
    BY <1>6, <2>2, LoopAssumption DEF ReadInputs, TypeOK, Inputs
  <2> QED BY <2>1, <2>2 DEF Stale, Outdated
<1>7. ASSUME FlushAggregate(w) PROVE Stale(w, i)
  <2>1. rows' = rows /\ item'[w] = None
    BY <1>7 DEF FlushAggregate, TypeOK, table
  <2>2. CASE i = item[w]
    <3>1. content'[w][i] = snap[w]
      BY <1>7, <2>2 DEF FlushAggregate, TypeOK, Computed
    <3> QED BY <2>1, <2>2, <3>1 DEF Stale, Outdated, Items, Canonical!Items
  <2>3. CASE i # item[w]
    <3>1. content'[w][i] = content[w][i] /\ written'[w][i] = written[w][i]
      BY <1>7, <2>3 DEF FlushAggregate, TypeOK
    <3> QED BY <2>1, <3>1 DEF Stale, Outdated, Items, Canonical!Items
  <2> QED BY <2>2, <2>3
<1>8. ASSUME EndRecompute(w) PROVE FALSE
  <2>1. item'[w] = None /\ written'[w][i] = None
    BY <1>8 DEF EndRecompute, TypeOK
  <2> QED BY <2>1 DEF Stale, Items, Canonical!Items
<1>9. \A v \in Workers : CommitRecompute(v) \/ RecomputeFails(v) => EndRecompute(v)
  BY DEF CommitRecompute, RecomputeFails
<1> QED BY <1>1, <1>2, <1>3, <1>4, <1>5, <1>6, <1>7, <1>8, <1>9, Steps

LEMMA CoveredStep == LInv /\ [Next]_vars => Covered'
<1> SUFFICES ASSUME LInv, [Next]_vars, NEW w \in Workers, w \notin overlapped',
                    NEW i \in Items, Stale(w, i)'
             PROVE  Waiting(i)' \/ i \in lost'
  BY DEF Covered, Stale
<1> USE DEF LInv
<1>1. CASE Stale(w, i)
  <2>1. WorksOn(w, i)
    BY <1>1 DEF Stale, WorksOn
  <2>2. w \notin overlapped
    <3>1. ASSUME NEW v \in Workers, v # w,
                 \/ Quiet \/ (\E j \in Items : ReadStock(v, j)) \/ FlushAggregate(v)
                 \/ EndRecompute(v)
          PROVE  overlapped \ {v} \subseteq overlapped'
      BY <3>1, StockWork DEF Quiet, FlushAggregate, EndRecompute
    <3>2. ASSUME \/ Quiet \/ (\E j \in Items : ReadStock(w, j)) \/ FlushAggregate(w)
          PROVE  overlapped \subseteq overlapped'
      BY <3>2, StockWork DEF Quiet, FlushAggregate
    <3>3. ~ EndRecompute(w)
      BY EndWork DEF Stale, WorksOn
    <3>4. \A v \in Workers : CommitRecompute(v) \/ RecomputeFails(v) => EndRecompute(v)
      BY DEF CommitRecompute, RecomputeFails
    <3> QED BY <3>1, <3>2, <3>3, <3>4, QuietSteps, Steps DEF Quiet
  <2>3. Waiting(i) \/ i \in lost
    BY <1>1, <2>2 DEF Covered, Stale
  <2>4. ASSUME NEW v \in Workers, ReadStock(v, i), InStock(i) PROVE FALSE
    <3>1. v # w
      BY <2>1, <2>4 DEF ReadStock, Within
    <3>2. item[v] = None /\ i # None
      BY <2>4 DEF ReadStock, TypeOK, Items, Canonical!Items
    <3>3. w \in {u \in Workers \ {v} : WorksOn(u, i)}
      BY <2>1, <3>1
    <3>4. item' # item
      BY <2>4, <3>2, StockCases DEF TypeOK
    <3> QED BY <2>4, <3>3, <3>4, StockCases
  <2>5. InStock(i)
    BY <2>1 DEF Stocked
  <2> QED BY <2>3, <2>4, <2>5, WaitingStep, LostStays
<1>2. CASE ~Stale(w, i)
  BY <1>2, StaleStep
<1> QED BY <1>1, <1>2

LEMMA FreshStep == LInv /\ [Next]_vars => FreshUnlessPending'
<1> SUFFICES ASSUME LInv, [Next]_vars, NEW i \in Items, NEW q \in Workers,
                    agg'[i][q] # Absent, Outdated(agg[i][q], i)',
                    i \notin raced', i \notin lost'
             PROVE  Pending(i)'
  BY DEF FreshUnlessPending
<1> USE DEF LInv
<1>a. /\ Waiting(i)' => Pending(i)'
      /\ \A v \in Workers : WorksOn(v, i)' => Pending(i)'
      /\ Pending(i) => Waiting(i) \/ \E v \in Workers : WorksOn(v, i)
  BY DEF Waiting, Pending
<1>1. CASE agg' = agg /\ raced' = raced /\ \A v \in Workers : ~CommitRecompute(v)
  <2>1. Outdated(agg[i][q], i) \/ Waiting(i)'
    BY <1>1, SyncOutdates DEF Outdated
  <2>2. CASE Outdated(agg[i][q], i)
    <3>1. Pending(i) /\ InStock(i)
      BY <1>1, <2>2, LostStays DEF FreshUnlessPending, Stocked
    <3>2. CASE Waiting(i)
      <4>1. ASSUME NEW v \in Workers, ReadStock(v, i), InStock(i) PROVE WorksOn(v, i)'
        BY <4>1, StockWork
      <4> QED BY <3>1, <3>2, <4>1, <1>a, WaitingStep
    <3>3. ASSUME NEW v \in Workers, WorksOn(v, i) PROVE WorksOn(v, i)'
      <4>1. ~RecomputeFails(v)
        BY <3>3 DEF RecomputeFails, Within
      <4>2. \A u \in Workers : RecomputeFails(u) => EndRecompute(u)
        BY DEF RecomputeFails
      <4> QED BY <1>1, <3>3, <4>1, <4>2, QuietSteps, QuietWork, StockWork, FlushWork,
                 EndWork, Steps
    <3> QED BY <3>1, <3>2, <3>3, <1>a
  <2> QED BY <2>1, <2>2, <1>a
<1>2. ASSUME NEW w \in Workers, CommitRecompute(w) PROVE Pending(i)'
  <2>1. rows' = rows /\ lost' = lost /\ EndRecompute(w)
    BY <1>2 DEF CommitRecompute, table
  <2>2. CASE written[w][i] = None
    <3>1. agg'[i][q] = agg[i][q] /\ i \notin raced
      BY <1>2, <2>2, CommitRows, CommitRaced, LoopAssumption
    <3>2. Outdated(agg[i][q], i)
      BY <2>1, <3>1 DEF Outdated
    <3>3. Pending(i)
      BY <2>1, <3>1, <3>2 DEF FreshUnlessPending
    <3>4. ~WorksOn(w, i)
      BY <1>2, <2>2 DEF CommitRecompute, TypeOK, WorksOn, Items, Canonical!Items
    <3> QED BY <1>2, <2>1, <3>3, <3>4, <1>a, CommitWaits, EndWork
  <2>3. CASE written[w][i] # None
    <3>1. w \notin overlapped
      BY <1>2, <2>3, CommitRaced
    <3>2. q = written[w][i]
      BY <1>2, <2>3, <3>1, CommitRows DEF SoleRow
    <3>3. Outdated(content[w][i], i)
      BY <1>2, <2>1, <3>2, CommitRows DEF Outdated
    <3>4. Waiting(i)
      BY <2>1, <2>3, <3>1, <3>3 DEF Covered
    <3> QED BY <1>2, <3>4, <1>a, CommitWaits
  <2> QED BY <2>2, <2>3
<1>3. Quiet => agg' = agg /\ raced' = raced
  BY DEF Quiet
<1>4. ASSUME NEW w \in Workers, \/ \E j \in Items : ReadStock(w, j)
                                \/ FlushAggregate(w) \/ RecomputeFails(w)
      PROVE  agg' = agg /\ raced' = raced
  BY <1>4 DEF ReadStock, FlushAggregate, RecomputeFails, aggregates, history
<1> QED BY <1>1, <1>2, <1>3, <1>4, QuietSteps, Steps

LEMMA InitialLoop == Init => LInv
<1> SUFFICES ASSUME Init PROVE LInv
  OBVIOUS
<1>1. TypeOK
  BY InitialTypes
<1>2. \A i \in Items, w \in Workers : ~WorksOn(w, i) /\ agg[i][w] = Absent /\ ~Stale(w, i)
  BY DEF Init, WorksOn, Stale, Items, Canonical!Items
<1>3. Within
  BY <1>2 DEF Init, Within
<1>4. \A w \in Workers : phase[w] # "flush" /\ \A i \in Items : written[w][i] = None
  BY DEF Init
<1> QED BY <1>1, <1>2, <1>3, <1>4
        DEF LInv, Stocked, Together, SoleRow, Covered, Stale, Single, FreshUnlessPending

LEMMA Loop == Spec => []LInv
<1>1. LInv /\ [Next]_vars => LInv'
  <2> SUFFICES ASSUME LInv, [Next]_vars PROVE LInv'
    OBVIOUS
  <2>1. TypeOK' /\ Within'
    BY TypeStep, WithinStep DEF LInv
  <2>2. Stocked' /\ Together' /\ SoleRow' /\ Single'
    BY StockedStep, TogetherStep, SoleStep, SingleStep DEF LInv
  <2>3. Covered' /\ FreshUnlessPending'
    BY CoveredStep, FreshStep
  <2> QED BY <2>1, <2>2, <2>3 DEF LInv
<1> QED BY <1>1, InitialLoop, PTL DEF Spec

\* An aggregate that a watched change made wrong is being put right, for any
\* number of workers and items (sync.py:222, aggregates.py:50-89).
THEOREM AggregatesFollowSignals == Spec => []FreshUnlessPending
<1>1. LInv => FreshUnlessPending
  BY DEF LInv
<1> QED BY <1>1, Loop, PTL

\* An item has one aggregate as long as no two recomputations of it overlapped,
\* although no constraint binds the rows (aggregates.py:191-214).
THEOREM AggregatesAreSingle == Spec => []OneAggregate
<1>1. LInv => OneAggregate
  <2> SUFFICES ASSUME Single, NEW i \in Items \ raced PROVE Cardinality(AggRows(i)) <= 1
    BY DEF LInv, OneAggregate
  <2>1. CASE AggRows(i) = {}
    BY <2>1, FS_EmptySet
  <2>2. CASE AggRows(i) # {}
    <3>1. PICK r \in Workers : AggRows(i) = {r}
      BY <2>2 DEF Single, AggRows
    <3> QED BY <3>1, FS_Singleton
  <2> QED BY <2>1, <2>2
<1> QED BY <1>1, Loop, PTL
=============================================================================
