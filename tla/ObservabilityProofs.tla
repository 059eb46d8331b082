------------------------ MODULE ObservabilityProofs -------------------------
(* Theorems about Observability, for any sessions, gaps and callers.       *)
EXTENDS Observability, FiniteSetTheorems, TLAPS

LEMMA InitialTypes == Init => TypeOK
<1> SUFFICES ASSUME Init PROVE TypeOK
  OBVIOUS
<1>1. checked \in BOOLEAN /\ overlap \in BOOLEAN
  BY DEF Init
<1>2. /\ input \in [Keys -> {"up", "down"}] /\ open \in [Keys -> SUBSET Gaps]
      /\ health \in Health
  BY DEF Init, Keys, Health
<1>3. /\ pc \in [Sessions -> PCs]
      /\ caller \in [Sessions -> {"check", "sync", "explain"}]
      /\ read \in [Sessions -> Health] /\ answer \in [Sessions -> {"up", "down"}]
      /\ mine \in [Sessions -> SUBSET Gaps]
  BY DEF Init, PCs, Health
<1> QED BY <1>1, <1>2, <1>3 DEF TypeOK

LEMMA TypeStep == TypeOK /\ [Next]_vars => TypeOK'
<1> SUFFICES ASSUME TypeOK, [Next]_vars PROVE TypeOK'
  OBVIOUS
<1> USE DEF TypeOK, Keys, Health, PCs, table, session
<1>1. ASSUME NEW k \in Keys, InputChanges(k) PROVE TypeOK'
  BY <1>1 DEF InputChanges
<1>2. ASSUME NEW s \in Sessions, NEW c \in Callers, Begin(s, c) PROVE TypeOK'
  BY <1>2, ObservabilityAssumption DEF Begin
<1>3. ASSUME NEW s \in Sessions, Asked(s) PROVE TypeOK'
  BY <1>3 DEF Asked, Key
<1>4. ASSUME NEW s \in Sessions, LookUp(s) PROVE TypeOK'
  BY <1>4 DEF LookUp, Closes, Current, Key, Free
<1>5. ASSUME NEW s \in Sessions, Commit(s) PROVE TypeOK'
  BY <1>5 DEF Commit, EndSession, NewHealth, Key
<1>6. ASSUME NEW s \in Sessions,
             ModelAnswered(s) \/ LookUpRaises(s) \/ SyncFails(s) \/ Abandon(s)
      PROVE  TypeOK'
  BY <1>6 DEF ModelAnswered, LookUpRaises, SyncFails, Abandon, EndSession
<1>7. CASE UNCHANGED vars
  BY <1>7 DEF vars
<1> QED BY <1>1, <1>2, <1>3, <1>4, <1>5, <1>6, <1>7 DEF Next, Operate, Proceed

\* The rows and the local state of every transaction keep their types.
THEOREM TypeCorrect == Spec => []TypeOK
<1>1. Init => TypeOK
  BY InitialTypes
<1> QED BY <1>1, TypeStep, PTL DEF Spec

-----------------------------------------------------------------------------
\* Duplicated gaps are never closed, and the health of their source is frozen,
\* however many transactions run and whatever they are answered.
THEOREM DuplicatesAreForever == Spec => StuckForever
<1>1. ASSUME TypeOK, [Next]_vars, NEW k \in Keys, Stuck(k)
      PROVE  Stuck(k)' /\ open'[k] = open[k] /\ (k = "source" => health' = health)
  <2> USE <1>1 DEF TypeOK, Stuck, Key, table, session
  <2>1. ASSUME NEW i \in Keys, InputChanges(i)
        PROVE  Stuck(k)' /\ open'[k] = open[k] /\ (k = "source" => health' = health)
    BY <2>1 DEF InputChanges
  <2>2. ASSUME NEW s \in Sessions, NEW c \in Callers, Begin(s, c)
        PROVE  Stuck(k)' /\ open'[k] = open[k] /\ (k = "source" => health' = health)
    BY <2>2 DEF Begin
  <2>3. ASSUME NEW s \in Sessions, Asked(s)
        PROVE  Stuck(k)' /\ open'[k] = open[k] /\ (k = "source" => health' = health)
    BY <2>3 DEF Asked
  <2>4. ASSUME NEW s \in Sessions, LookUp(s)
        PROVE  Stuck(k)' /\ open'[k] = open[k] /\ (k = "source" => health' = health)
    <3>1. Key(s) # k
      <4>1. IsFiniteSet(open[k])
        BY ObservabilityAssumption, FS_Subset
      <4>2. Cardinality(open[k]) \in Nat
        BY <4>1, FS_CardinalityType
      <4> QED BY <2>4, <4>2 DEF LookUp, Current
    <3> QED BY <2>4, <3>1 DEF LookUp
  <2>5. ASSUME NEW s \in Sessions, Commit(s)
        PROVE  Stuck(k)' /\ open'[k] = open[k] /\ (k = "source" => health' = health)
    <3>1. Key(s) # k
      BY <2>5 DEF Commit
    <3>2. k = "source" => caller[s] = "explain"
      BY <3>1
    <3> QED BY <2>5, <3>1, <3>2 DEF Commit, EndSession
  <2>6. ASSUME NEW s \in Sessions,
               ModelAnswered(s) \/ LookUpRaises(s) \/ SyncFails(s) \/ Abandon(s)
        PROVE  Stuck(k)' /\ open'[k] = open[k] /\ (k = "source" => health' = health)
    BY <2>6 DEF ModelAnswered, LookUpRaises, SyncFails, Abandon, EndSession
  <2>7. CASE UNCHANGED vars
    BY <2>7 DEF vars
  <2> QED BY <2>1, <2>2, <2>3, <2>4, <2>5, <2>6, <2>7 DEF Next, Operate, Proceed
<1>2. TypeOK /\ [Next]_vars =>
        [\A k \in Keys : Stuck(k) =>
           /\ Stuck(k)' /\ open'[k] = open[k]
           /\ k = "source" => health' = health]_vars
  BY <1>1
<1> QED BY <1>2, TypeCorrect, PTL DEF Spec, StuckForever

-----------------------------------------------------------------------------
(* As long as no two transactions have overlapped.                         *)

AtMostOne(S) == \A g, h \in S : g = h

\* One transaction is open at a time.
OneAtATime == \A s, t \in Sessions : pc[s] # "idle" /\ pc[t] # "idle" => s = t

\* What a transaction has read is still there when it writes.
ReadIsCurrent ==
  \A s \in Sessions :
    /\ pc[s] # "idle" /\ caller[s] # "explain" => read[s] = health
    /\ pc[s] # "writing" => mine[s] = {}
    /\ pc[s] = "writing" /\ answer[s] = "up" => mine[s] = open[Key(s)]
    /\ pc[s] = "writing" /\ answer[s] = "down" =>
         /\ AtMostOne(mine[s])
         /\ mine[s] = {} <=> open[Key(s)] # {}

Undisturbed ==
  /\ OneAtATime
  /\ \A k \in Keys : AtMostOne(open[k])
  /\ ReadIsCurrent
  /\ HealthMatchesGap

SInv == TypeOK /\ (~overlap => Undisturbed)

LEMMA OverlapStays == TypeOK /\ [Next]_vars /\ overlap => overlap'
BY DEF Next, Operate, Proceed, InputChanges, Begin, Asked, ModelAnswered, LookUp, LookUpRaises,
   Commit, SyncFails, Abandon, EndSession, vars

LEMMA UndisturbedStep == SInv /\ [Next]_vars => SInv'
<1> SUFFICES ASSUME SInv, [Next]_vars PROVE SInv'
  OBVIOUS
<1>0. TypeOK /\ TypeOK'
  BY TypeStep DEF SInv
<1> SUFFICES ASSUME ~overlap' PROVE Undisturbed'
  BY <1>0 DEF SInv
<1>u. ~overlap /\ Undisturbed
  BY <1>0, OverlapStays DEF SInv, TypeOK
<1> USE <1>0, <1>u DEF Undisturbed, OneAtATime, TypeOK, Keys, Health, PCs, AtMostOne, ReadIsCurrent,
         HealthMatchesGap, HealthFits, Key, table, session
<1>1. ASSUME NEW k \in Keys, InputChanges(k) PROVE Undisturbed'
  BY <1>1 DEF InputChanges
<1>2. ASSUME NEW s \in Sessions, NEW c \in Callers, Begin(s, c) PROVE Undisturbed'
  <2>1. \A o \in Sessions : pc[o] = "idle"
    BY <1>2 DEF Begin
  <2>2. OneAtATime'
    BY <1>2, <2>1 DEF Begin
  <2>3. UNCHANGED <<table, mine, answer>> /\ mine[s] = {} /\ pc'[s] = "asking"
    BY <1>2, <2>1 DEF Begin
  <2>4. ReadIsCurrent'
    BY <1>2, <2>1, <2>3 DEF Begin
  <2> QED BY <2>2, <2>3, <2>4
<1>3. ASSUME NEW s \in Sessions, Asked(s) PROVE Undisturbed'
  BY <1>3 DEF Asked
<1>4. ASSUME NEW s \in Sessions, LookUp(s) PROVE Undisturbed'
  <2>1. /\ pc[s] = "answered" /\ mine[s] = {} /\ Key(s) \in Keys
        /\ pc' = [pc EXCEPT ![s] = "writing"]
        /\ UNCHANGED <<table, caller, read, answer, overlap>>
    BY <1>4 DEF LookUp, UsesGaps
  <2>2. CASE answer[s] = "up" /\ mine' = [mine EXCEPT ![s] = open[Key(s)]]
    BY <2>1, <2>2
  <2>3. CASE answer[s] = "down" /\ open[Key(s)] # {} /\ UNCHANGED mine
    BY <2>1, <2>3
  <2>4. CASE /\ answer[s] = "down" /\ open[Key(s)] = {}
             /\ \E g \in Free : mine' = [mine EXCEPT ![s] = {g}]
    BY <2>1, <2>4
  <2> QED BY <1>4, <2>2, <2>3, <2>4 DEF LookUp, Closes, Current
<1>5. ASSUME NEW s \in Sessions, Commit(s) PROVE Undisturbed'
  BY <1>5 DEF Commit, EndSession, NewHealth
<1>6. ASSUME NEW s \in Sessions,
             ModelAnswered(s) \/ LookUpRaises(s) \/ SyncFails(s) \/ Abandon(s)
      PROVE  Undisturbed'
  BY <1>6 DEF ModelAnswered, LookUpRaises, SyncFails, Abandon, EndSession
<1>7. CASE UNCHANGED vars
  BY <1>7 DEF vars
<1> HIDE <1>0, <1>u DEF Undisturbed, OneAtATime, TypeOK, Keys, Health, PCs, AtMostOne,
         ReadIsCurrent, HealthMatchesGap, HealthFits, Key, table, session
<1> QED BY <1>1, <1>2, <1>3, <1>4, <1>5, <1>6, <1>7 DEF Next, Operate, Proceed

LEMMA UndisturbedInvariance == Spec => []SInv
<1>1. Init => SInv
  BY InitialTypes DEF Init, SInv, Undisturbed, OneAtATime, Keys, AtMostOne, ReadIsCurrent,
     HealthMatchesGap, HealthFits
<1>2. SInv /\ [Next]_vars => SInv'
  BY UndisturbedStep
<1> QED BY <1>1, <1>2, PTL DEF Spec

\* As long as transactions do not overlap, at most one gap of a key is open.
THEOREM GapsAreUnique == Spec => []OneOpenGap
<1>1. SInv => OneOpenGap
  <2> SUFFICES ASSUME SInv, ~overlap, NEW k \in Keys PROVE Cardinality(open[k]) <= 1
    BY DEF OneOpenGap
  <2>1. CASE open[k] = {}
    BY <2>1, FS_EmptySet
  <2>2. CASE open[k] # {}
    <3>1. PICK g \in open[k] : open[k] = {g}
      BY <2>2 DEF SInv, Undisturbed, AtMostOne
    <3>2. Cardinality({g}) = 1
      BY FS_Singleton
    <3> QED BY <3>1, <3>2
  <2> QED BY <2>1, <2>2
<1> QED BY <1>1, UndisturbedInvariance, PTL

\* As long as transactions do not overlap, the health of the source and its gap
\* are in step.
THEOREM HealthFollowsGap == Spec => []HealthMatchesGap
<1>1. SInv => HealthMatchesGap
  BY DEF SInv, Undisturbed, HealthMatchesGap
<1> QED BY <1>1, UndisturbedInvariance, PTL
=============================================================================
