---------------------------- MODULE SchemaProofs ----------------------------
(***************************************************************************)
(* Theorems about Schema, for every set of kept tables, all goals and      *)
(* every chain of scripts that fulfils the assumptions of the module.      *)
(* What the scripts build is defined by recursion: the first part proves   *)
(* that these recursions are what they look like.                          *)
(***************************************************************************)
EXTENDS Schema, WellFoundedInduction, TLAPS

-----------------------------------------------------------------------------
(* Induction and recursion over an interval of numbers.                    *)

Below == {p \in Nat \X Nat : p[1] < p[2]}

LEMMA UpTo ==
  ASSUME NEW L \in Nat, NEW S, 0 \in S, \A k \in 1..L : k - 1 \in S => k \in S
  PROVE  0..L \subseteq S
<1> DEFINE T == (0..L) \ S
<1> SUFFICES ASSUME T # {} PROVE FALSE
  OBVIOUS
<1>1. IsWellFoundedOn(Below, Nat)
  BY NatLessThanWellFounded DEF OpToRel, Below
<1>2. PICK k \in T : \A j \in T : <<j, k>> \notin Below
  <2>1. T \subseteq Nat
    OBVIOUS
  <2> HIDE DEF T
  <2> QED BY <1>1, <2>1, WFMin
<1>3. k \in 1..L /\ k - 1 \in 0..L /\ <<k - 1, k>> \in Below
  BY DEF Below
<1>4. k - 1 \in S
  BY <1>2, <1>3
<1> QED BY <1>3, <1>4

\* f starts with base and makes the first n steps of F.
Iteration(f, n, X, base, F) ==
  f \in [0..n -> X] /\ f[0] = base /\ \A k \in 1..n : f[k] = F[k][f[k - 1]]

LEMMA Iterates ==
  ASSUME NEW L \in Nat, NEW X, NEW base \in X, NEW F \in [1..L -> [X -> X]]
  PROVE  \E f : Iteration(f, L, X, base, F)
<1> DEFINE Is(f, n) == Iteration(f, n, X, base, F)
           S == {n \in 0..L : \E f : Is(f, n)}
<1>1. 0 \in S
  <2>1. Is([k \in 0..0 |-> base], 0)
    BY DEF Iteration
  <2> HIDE DEF Is
  <2> QED BY <2>1
<1>2. ASSUME NEW n \in 1..L, n - 1 \in S PROVE n \in S
  <2>1. PICK f : Is(f, n - 1)
    BY <1>2
  <2> DEFINE g == [k \in 0..n |-> IF k = n THEN F[n][f[n - 1]] ELSE f[k]]
  <2>2. f[n - 1] \in X
    BY <2>1 DEF Iteration
  <2>3. F[n][f[n - 1]] \in X
    BY <2>2
  <2>4. g \in [0..n -> X] /\ g[0] = base
    BY <2>1, <2>3 DEF Iteration
  <2>5. \A k \in 1..n : g[k] = F[k][g[k - 1]]
    <3>1. ASSUME NEW k \in 1..(n - 1) PROVE g[k] = f[k] /\ g[k - 1] = f[k - 1]
      OBVIOUS
    <3>2. g[n] = F[n][f[n - 1]] /\ g[n - 1] = f[n - 1]
      OBVIOUS
    <3> HIDE DEF g
    <3>3. \A k \in 1..n : k = n \/ k \in 1..(n - 1)
      OBVIOUS
    <3> QED BY <2>1, <3>1, <3>2, <3>3 DEF Iteration
  <2>6. Is(g, n)
    BY <2>4, <2>5 DEF Iteration
  <2> HIDE DEF Is
  <2> QED BY <2>6
<1>3. L \in S
  <2> HIDE DEF S
  <2>1. 0..L \subseteq S
    BY <1>1, <1>2, UpTo
  <2> QED BY <2>1
<1> QED BY <1>3

-----------------------------------------------------------------------------
(* What scripts do to a schema.                                            *)

CheckConstraints == [table : STRING, column : STRING, without : SUBSET {"risk_dismissed"}]

Schemas == [tables : SUBSET STRING, checks : SUBSET CheckConstraints,
            guarded : SUBSET STRING, function : BOOLEAN]

LEMMA AppliedType ==
  ASSUME NEW s \in Schemas, NEW o \in Operations
  PROVE  Applied(s, o) \in Schemas
<1>1. CASE o \in [op : {"create"}, table : STRING, fks : SUBSET (STRING \X STRING)]
  BY <1>1 DEF Schemas, Applied
<1>2. CASE o \in [op : {"drop", "attach", "detach"}, table : STRING]
  BY <1>2 DEF Schemas, Applied
<1>3. CASE o \in [op : {"check"}, table : STRING, column : STRING,
                  without : SUBSET {"risk_dismissed"}]
  BY <1>3 DEF Schemas, Applied, CheckConstraints
<1>4. CASE o \in [op : {"uncheck"}, table : STRING, column : STRING]
  BY <1>4 DEF Schemas, Applied, ChecksOn
<1>5. CASE o \in [op : {"create_function", "drop_function"}]
  BY <1>5 DEF Schemas, Applied
<1> QED BY <1>1, <1>2, <1>3, <1>4, <1>5 DEF Operations

\* The recursion of Performed makes one operation at a time.
LEMMA PerformedDef ==
  ASSUME NEW s \in Schemas, NEW script \in Seq(Operations)
  PROVE  /\ Performed(s, script) \in [0..Len(script) -> Schemas]
         /\ Performed(s, script)[0] = s
         /\ \A k \in 1..Len(script) :
              Performed(s, script)[k] = Applied(Performed(s, script)[k - 1], script[k])
<1> DEFINE L == Len(script)
           F == [k \in 1..L |-> [t \in Schemas |-> Applied(t, script[k])]]
           Is(g) == g = [k \in 0..Len(script) |-> IF k = 0 THEN s
                                                  ELSE Applied(g[k - 1], script[k])]
           h == Performed(s, script)
<1>1. L \in Nat /\ \A k \in 1..L : script[k] \in Operations
  OBVIOUS
<1>2. PICK f : Iteration(f, L, Schemas, s, F)
  <2>1. F \in [1..L -> [Schemas -> Schemas]]
    BY <1>1, AppliedType
  <2> HIDE DEF F, L, Is, h
  <2> QED BY <1>1, <2>1, Iterates
<1>3. \A k \in 1..L : f[k - 1] \in Schemas /\ f[k] = Applied(f[k - 1], script[k])
  BY <1>1, <1>2 DEF Iteration
<1>4. Is(f)
  BY <1>1, <1>2, <1>3 DEF Iteration
<1>5. h = CHOOSE g : Is(g)
  BY DEF Performed
<1>6. Is(h)
  <2> HIDE DEF Is, h
  <2> QED BY <1>4, <1>5, Zenon
<1> HIDE DEF h
<1>7. DOMAIN h = 0..L /\ h[0] = s /\ \A k \in 1..L : h[k] = Applied(h[k - 1], script[k])
  BY <1>1, <1>6
<1>8. \A k \in 0..L : h[k] = f[k]
  <2> DEFINE S == {k \in 0..L : h[k] = f[k]}
  <2>1. 0 \in S
    BY <1>1, <1>2, <1>7 DEF Iteration
  <2>2. \A k \in 1..L : k - 1 \in S => k \in S
    BY <1>1, <1>3, <1>7
  <2>3. 0..L \subseteq S
    <3> HIDE DEF S
    <3> QED BY <1>1, <2>1, <2>2, UpTo
  <2> QED BY <2>3
<1>9. h \in [0..L -> Schemas]
  BY <1>2, <1>6, <1>8 DEF Iteration
<1> QED BY <1>7, <1>9 DEF h

LEMMA ResultType ==
  ASSUME NEW s \in Schemas, NEW script \in Seq(Operations)
  PROVE  Result(s, script) \in Schemas
BY PerformedDef DEF Result

\* The recursion of Built adds one revision at a time.
LEMMA BuiltDef ==
  /\ Newest \in Nat /\ Built \in [0..Newest -> Schemas]
  /\ Built[0] = Empty
  /\ \A n \in 1..Newest : Built[n] = Result(Built[n - 1], Upgrades[n])
<1> DEFINE F == [n \in 1..Newest |-> [t \in Schemas |-> Result(t, Upgrades[n])]]
           Is(g) == g = [n \in 0..Newest |-> IF n = 0 THEN Empty
                                             ELSE Result(g[n - 1], Upgrades[n])]
<1>1. Newest \in Nat /\ \A n \in 1..Newest : Upgrades[n] \in Seq(Operations)
  BY ScriptsAreOperations DEF Newest
<1>2. Empty \in Schemas
  BY DEF Empty, Schemas
<1>3. PICK f : Iteration(f, Newest, Schemas, Empty, F)
  <2>1. F \in [1..Newest -> [Schemas -> Schemas]]
    BY <1>1, ResultType
  <2> HIDE DEF F, Is
  <2> QED BY <1>1, <1>2, <2>1, Iterates
<1>4. ASSUME NEW n \in 1..Newest
      PROVE  f[n - 1] \in Schemas /\ f[n] = Result(f[n - 1], Upgrades[n])
  <2>1. f[n - 1] \in Schemas /\ f[n] = F[n][f[n - 1]]
    BY <1>1, <1>3 DEF Iteration
  <2> QED BY <2>1
<1>5. Is(f)
  BY <1>1, <1>3, <1>4 DEF Iteration
<1>6. Built = CHOOSE g : Is(g)
  BY DEF Built
<1>7. Is(Built)
  <2> HIDE DEF Is
  <2> QED BY <1>5, <1>6, Zenon
<1>8. /\ DOMAIN Built = 0..Newest /\ Built[0] = Empty
      /\ \A n \in 1..Newest : Built[n] = Result(Built[n - 1], Upgrades[n])
  BY <1>1, <1>7
<1>9. \A n \in 0..Newest : Built[n] = f[n]
  <2> DEFINE S == {n \in 0..Newest : Built[n] = f[n]}
  <2>1. 0 \in S
    BY <1>1, <1>3, <1>8 DEF Iteration
  <2>2. \A n \in 1..Newest : n - 1 \in S => n \in S
    BY <1>1, <1>4, <1>8
  <2>3. 0..Newest \subseteq S
    <3> HIDE DEF S
    <3> QED BY <1>1, <2>1, <2>2, UpTo
  <2> QED BY <2>3
<1>10. Built \in [0..Newest -> Schemas]
  BY <1>3, <1>7, <1>9 DEF Iteration
<1> QED BY <1>1, <1>8, <1>10

\* The scripts on the way from revision a to revision g.
ScriptOf(c, a) == IF c = "upgrade" THEN Upgrades[a + 1] ELSE Downgrades[a]
Toward(c, a)   == IF c = "upgrade" THEN a + 1 ELSE a - 1

LEMMA OnTheWay ==
  ASSUME NEW c \in {"upgrade", "downgrade"}, NEW a \in 0..Newest, NEW g \in 0..Newest,
         IF c = "upgrade" THEN a < g ELSE g < a
  PROVE  /\ ScriptOf(c, a) \in Seq(Operations) /\ Len(ScriptOf(c, a)) \in Nat \ {0}
         /\ Toward(c, a) \in 0..Newest
         /\ Result(Built[a], ScriptOf(c, a)) = Built[Toward(c, a)]
         /\ \A k \in 1..Len(ScriptOf(c, a)) :
              /\ ScriptOf(c, a)[k] \in Operations
              /\ ~Misplaced(Performed(Built[a], ScriptOf(c, a))[k - 1], ScriptOf(c, a)[k])
<1>1. Newest \in Nat /\ Toward(c, a) \in 0..Newest
  BY BuiltDef DEF Toward
<1>2. ScriptOf(c, a) \in Seq(Operations)
  BY <1>1, ScriptsAreOperations DEF ScriptOf, Newest
<1>3. /\ InOrder(Built[a], ScriptOf(c, a))
      /\ Result(Built[a], ScriptOf(c, a)) = Built[Toward(c, a)]
  <2>1. CASE c = "upgrade"
    <3>1. a + 1 \in 1..Newest /\ (a + 1) - 1 = a
      BY <1>1, <2>1
    <3> QED BY <2>1, <3>1, ScriptsAssumption, BuiltDef DEF ScriptOf, Toward
  <2>2. CASE c = "downgrade"
    BY <1>1, <2>2, ScriptsAssumption DEF ScriptOf, Toward
  <2> QED BY <2>1, <2>2
<1>4. Len(ScriptOf(c, a)) \in Nat \ {0}
  BY <1>2, <1>3 DEF InOrder
<1> QED BY <1>1, <1>2, <1>3, <1>4 DEF InOrder

\* A CHECK that is new is the one of the operation, whose table gets locked.
LEMMA AppliedChecks ==
  ASSUME NEW s \in Schemas, NEW o \in Operations, NEW k \in Applied(s, o).checks
  PROVE  \/ k \in s.checks
         \/ /\ o.op = "check" /\ k.table = o.table /\ k.without = o.without
            /\ o.table \in Locks(o)
<1>1. CASE o \in [op : {"create"}, table : STRING, fks : SUBSET (STRING \X STRING)]
  BY <1>1 DEF Schemas, Applied
<1>2. CASE o \in [op : {"drop", "attach", "detach"}, table : STRING]
  BY <1>2 DEF Schemas, Applied
<1>3. CASE o \in [op : {"check"}, table : STRING, column : STRING,
                  without : SUBSET {"risk_dismissed"}]
  BY <1>3 DEF Schemas, Applied, CheckConstraints, Locks
<1>4. CASE o \in [op : {"uncheck"}, table : STRING, column : STRING]
  BY <1>4 DEF Schemas, Applied, ChecksOn
<1>5. CASE o \in [op : {"create_function", "drop_function"}]
  BY <1>5 DEF Schemas, Applied
<1> QED BY <1>1, <1>2, <1>3, <1>4, <1>5 DEF Operations

LEMMA LocksType ==
  ASSUME NEW o \in Operations
  PROVE  Locks(o) \subseteq STRING
BY DEF Operations, Locks

LEMMA ForeignKeysType ==
  \A t \in Tables : ForeignKeys[t] \in SUBSET (STRING \X STRING)
<1> SUFFICES ASSUME NEW t \in Tables PROVE ForeignKeys[t] \in SUBSET (STRING \X STRING)
  OBVIOUS
<1> DEFINE o == CHOOSE q \in Creates : q.table = t
<1>1. o \in Creates /\ ForeignKeys[t] = o.fks
  BY DEF Tables, ForeignKeys
<1>2. o \in Operations /\ o.op = "create"
  <2> HIDE DEF o
  <2>1. PICK n \in 1..Newest : o \in Range(Upgrades[n])
    BY <1>1 DEF Creates
  <2>2. Upgrades[n] \in Seq(Operations)
    BY ScriptsAreOperations DEF Newest
  <2> QED BY <1>1, <2>1, <2>2 DEF Creates, Range
<1> HIDE DEF o
<1> QED BY <1>1, <1>2 DEF Operations

-----------------------------------------------------------------------------
(* Type correctness and what a command has done so far.                    *)

Rows == [table : STRING, kind : {"event", "risk_dismissed", "row"}, links : SUBSET STRING]

TypeOK ==
  /\ rev \in 0..Newest /\ db \in Schemas /\ rows \subseteq Rows
  /\ cmd \in {"none", "upgrade", "downgrade"}
  /\ goal \in 0..Newest /\ at \in 0..Newest /\ step \in Nat
  /\ work \in Schemas /\ locked \subseteq STRING

OfRevision == db = Built[rev]

\* A command leads from rev to goal; its transaction sees the schema of the
\* revision it has reached, and of the operations it has performed since.
UnderWay ==
  cmd # "none" =>
    /\ cmd = "upgrade" => rev < goal /\ at <= goal
    /\ cmd = "downgrade" => goal < rev /\ goal <= at
    /\ at = goal => work = Built[at]
    /\ at # goal => /\ step < Len(Script)
                    /\ work = Performed(Built[at], Script)[step]

RInv == TypeOK /\ OfRevision /\ UnderWay

LEMMA StepsUnderWay ==
  ASSUME RInv, MigrationStep
  PROVE  /\ at' \in 0..Newest /\ step' \in Nat /\ UnderWay'
         /\ work \in Schemas /\ Operation \in Operations /\ work' = Applied(work, Operation)
         /\ ~Misplaced(work, Operation)
         /\ at' # at => work' = Built[at'] /\ at' = Toward(cmd, at)
<1> DEFINE S == ScriptOf(cmd, at)
<1>0. /\ cmd \in {"upgrade", "downgrade"} /\ at # goal
      /\ at \in 0..Newest /\ goal \in 0..Newest /\ step \in Nat /\ Newest \in Nat
      /\ IF cmd = "upgrade" THEN at < goal ELSE goal < at
      /\ UNCHANGED <<rev, cmd, goal>>
  BY BuiltDef DEF RInv, TypeOK, UnderWay, MigrationStep
<1>1. Script = S
  BY <1>0 DEF Script, ScriptOf
<1>2. /\ S \in Seq(Operations) /\ Len(S) \in Nat \ {0}
      /\ Toward(cmd, at) \in 0..Newest
      /\ Result(Built[at], S) = Built[Toward(cmd, at)]
      /\ \A k \in 1..Len(S) :
           S[k] \in Operations /\ ~Misplaced(Performed(Built[at], S)[k - 1], S[k])
  BY <1>0, OnTheWay
<1>3. step < Len(S) /\ work = Performed(Built[at], S)[step] /\ work \in Schemas
  BY <1>0, <1>1 DEF RInv, UnderWay, TypeOK
<1>4. step + 1 \in 1..Len(S) /\ (step + 1) - 1 = step
  BY <1>0, <1>2, <1>3
<1>5. Operation = S[step + 1] /\ Operation \in Operations /\ ~Misplaced(work, Operation)
  BY <1>1, <1>2, <1>3, <1>4 DEF Operation
<1>6. work' = Applied(work, Operation)
  BY DEF MigrationStep
<1>7. Built[at] \in Schemas
  BY <1>0, BuiltDef
<1>8. work' = Performed(Built[at], S)[step + 1]
  BY <1>2, <1>3, <1>4, <1>5, <1>6, <1>7, PerformedDef
<1>9. CASE step + 1 < Len(S)
  <2>1. step' = step + 1 /\ at' = at
    BY <1>1, <1>9 DEF MigrationStep
  <2>2. Script' = S
    BY <1>0, <1>1, <2>1 DEF Script
  <2>3. UnderWay'
    BY <1>0, <1>8, <1>9, <2>1, <2>2 DEF RInv, UnderWay
  <2> QED BY <1>0, <1>3, <1>5, <1>6, <2>1, <2>3
<1>10. CASE ~(step + 1 < Len(S))
  <2>1. step' = 0 /\ at' = Toward(cmd, at)
    BY <1>0, <1>1, <1>10 DEF MigrationStep, Toward
  <2>2. step + 1 = Len(S)
    BY <1>2, <1>4, <1>10
  <2>3. work' = Built[at']
    BY <1>2, <1>8, <2>1, <2>2 DEF Result
  <2>4. at' \in 0..Newest /\ (cmd = "upgrade" => at' <= goal) /\ (cmd = "downgrade" => goal <= at')
    BY <1>0, <1>2, <2>1 DEF Toward
  <2>5. ASSUME at' # goal
        PROVE  0 < Len(Script') /\ work' = Performed(Built[at'], Script')[0]
    <3>1. IF cmd = "upgrade" THEN at' < goal ELSE goal < at'
      BY <1>0, <2>4, <2>5
    <3>2. Script' = ScriptOf(cmd, at')
      BY <1>0 DEF Script, ScriptOf
    <3>3. ScriptOf(cmd, at') \in Seq(Operations) /\ Len(ScriptOf(cmd, at')) \in Nat \ {0}
      BY <1>0, <2>4, <3>1, OnTheWay
    <3>4. Built[at'] \in Schemas
      BY <2>4, BuiltDef
    <3> QED BY <2>3, <3>2, <3>3, <3>4, PerformedDef
  <2>6. UnderWay'
    BY <1>0, <2>1, <2>3, <2>4, <2>5 DEF RInv, UnderWay
  <2> QED BY <1>3, <1>5, <1>6, <2>1, <2>3, <2>4, <2>6
<1> QED BY <1>9, <1>10

\* What the program writes.
LEMMA Written ==
  ASSUME TypeOK, WriteRow
  PROVE  \E t \in db.tables \ locked : \E kind \in Kinds(t) : \E new \in Rows :
           /\ rows' = rows \cup {new} /\ new.table = t /\ new.kind = kind
           /\ \A k \in db.checks : k.table = t => kind \notin k.without
           /\ Occurs(kind)
<1> DEFINE open(t) == {k \in ForeignKeys[t] : \E r \in rows : r.table = k[1]}
           must(t) == {k \in ForeignKeys[t] : k[2] \in {"restrict", "cascade"}}
<1>1. PICK t \in (Kept \cap db.tables) \ locked : \E kind \in Kinds(t) :
        \E some \in SUBSET (open(t) \ must(t)) :
          /\ \A k \in db.checks : k.table = t => kind \notin k.without
          /\ Occurs(kind)
          /\ rows' = rows \cup {[table |-> t, kind |-> kind,
                                links |-> {k[1] : k \in must(t) \cup some}]}
  BY DEF WriteRow
<1>2. PICK kind \in Kinds(t), some \in SUBSET (open(t) \ must(t)) :
        /\ \A k \in db.checks : k.table = t => kind \notin k.without
        /\ Occurs(kind)
        /\ rows' = rows \cup {[table |-> t, kind |-> kind,
                              links |-> {k[1] : k \in must(t) \cup some}]}
  BY <1>1
<1>3. ForeignKeys[t] \in SUBSET (STRING \X STRING)
  BY SchemaAssumption, ForeignKeysType
<1>4. {k[1] : k \in must(t) \cup some} \subseteq STRING
  BY <1>3
<1>5. t \in STRING /\ kind \in {"event", "risk_dismissed", "row"}
  <2>1. db.tables \subseteq STRING
    BY DEF TypeOK, Schemas
  <2>2. kind \in {"event", "risk_dismissed", "row"}
    BY DEF Kinds
  <2> QED BY <2>1, <2>2
<1> HIDE DEF open, must
<1> DEFINE new == [table |-> t, kind |-> kind, links |-> {k[1] : k \in must(t) \cup some}]
<1>6. new \in Rows /\ new.table = t /\ new.kind = kind
  BY <1>4, <1>5 DEF Rows
<1>7. rows' = rows \cup {new}
  BY <1>2
<1> HIDE DEF new
<1> QED BY <1>2, <1>6, <1>7

\* What an operator leaves of the rows: some, perhaps with fewer links.
LEMMA Deleted ==
  ASSUME TypeOK, DeleteRows
  PROVE  /\ rows' \subseteq Rows
         /\ \A r \in rows' : \E q \in rows : q.table = r.table /\ q.kind = r.kind
<1>1. PICK ts :
        rows' = {r \in rows : r.table \notin ts /\ r \notin Unlinked(ts)}
                \cup {[r EXCEPT !.links = @ \ ts] : r \in Unlinked(ts)}
  BY DEF DeleteRows
<1>2. Unlinked(ts) \subseteq rows
  BY DEF Unlinked
<1>3. ASSUME NEW r \in rows
      PROVE  /\ [r EXCEPT !.links = @ \ ts] \in Rows
             /\ [r EXCEPT !.links = @ \ ts].table = r.table
             /\ [r EXCEPT !.links = @ \ ts].kind = r.kind
  BY <1>3 DEF TypeOK, Rows
<1>4. ASSUME NEW r \in rows' PROVE r \in Rows /\ \E q \in rows : q.table = r.table /\ q.kind = r.kind
  <2>1. CASE r \in rows
    BY <2>1 DEF TypeOK
  <2>2. CASE r \notin rows
    <3>1. PICK q \in Unlinked(ts) : r = [q EXCEPT !.links = @ \ ts]
      BY <1>1, <2>2
    <3> QED BY <1>2, <1>3, <3>1
  <2> QED BY <2>1, <2>2
<1> QED BY <1>4

LEMMA RevisionStep == RInv /\ [Next]_vars => RInv'
<1> SUFFICES ASSUME RInv, [Next]_vars PROVE RInv'
  OBVIOUS
<1> USE DEF command
<1>0. Newest \in Nat /\ Empty \in Schemas /\ Goals \subseteq 0..Newest
  BY BuiltDef, SchemaAssumption DEF Empty, Schemas
<1>1. CASE StartMigration
  <2>1. PICK g \in Goals \ {rev} :
          goal' = g /\ cmd' = IF g > rev THEN "upgrade" ELSE "downgrade"
    BY <1>1 DEF StartMigration
  <2>2. /\ g \in 0..Newest /\ rev \in 0..Newest /\ db \in Schemas /\ db = Built[rev]
        /\ at' = rev /\ step' = 0 /\ work' = db /\ locked' = {} /\ UNCHANGED <<rev, db, rows>>
    BY <1>0, <1>1 DEF RInv, TypeOK, OfRevision, StartMigration
  <2>3. TypeOK' /\ OfRevision'
    BY <2>1, <2>2 DEF RInv, TypeOK, OfRevision
  <2>4. Script' = ScriptOf(cmd', at')
    BY <2>1 DEF Script, ScriptOf
  <2>5. IF cmd' = "upgrade" THEN at' < goal' ELSE goal' < at'
    BY <1>0, <2>1, <2>2
  <2>6. ScriptOf(cmd', at') \in Seq(Operations) /\ Len(ScriptOf(cmd', at')) \in Nat \ {0}
    BY <2>1, <2>2, <2>5, OnTheWay
  <2>7. work' = Performed(Built[at'], ScriptOf(cmd', at'))[0]
    BY <2>2, <2>6, PerformedDef
  <2>8. UnderWay'
    BY <1>0, <2>1, <2>2, <2>4, <2>5, <2>6, <2>7 DEF UnderWay
  <2> QED BY <2>3, <2>8 DEF RInv
<1>2. CASE MigrationStep
  <2>1. work' \in Schemas
    BY <1>2, StepsUnderWay, AppliedType
  <2>2. locked' \subseteq STRING
    BY <1>2, StepsUnderWay, LocksType DEF MigrationStep, RInv, TypeOK
  <2>3. UNCHANGED <<rev, db, rows, cmd, goal>>
    BY <1>2 DEF MigrationStep
  <2> QED BY <1>2, <2>1, <2>2, <2>3, StepsUnderWay DEF RInv, TypeOK, OfRevision
<1>3. CASE CommitMigration
  <2>1. TypeOK'
    BY <1>0, <1>3 DEF RInv, TypeOK, CommitMigration, EndCommand
  <2>2. OfRevision' /\ UnderWay'
    BY <1>3 DEF RInv, OfRevision, UnderWay, CommitMigration, EndCommand
  <2> QED BY <2>1, <2>2 DEF RInv
<1>4. CASE FailMigration \/ KillMigration
  <2>1. EndCommand /\ UNCHANGED <<rev, db, rows>>
    BY <1>4 DEF FailMigration, KillMigration
  <2> QED BY <1>0, <2>1 DEF RInv, TypeOK, OfRevision, UnderWay, EndCommand
<1>5. CASE WriteRow \/ DeleteRows
  <2>1. rows' \subseteq Rows
    <3>1. CASE WriteRow
      BY <3>1, Written DEF RInv, TypeOK
    <3>2. CASE DeleteRows
      BY <3>2, Deleted DEF RInv
    <3> QED BY <1>5, <3>1, <3>2
  <2>2. UNCHANGED <<rev, db, command>>
    BY <1>5 DEF WriteRow, DeleteRows
  <2> QED BY <2>1, <2>2 DEF RInv, TypeOK, OfRevision, UnderWay, Script
<1>6. CASE UNCHANGED vars
  BY <1>6 DEF vars, RInv, TypeOK, OfRevision, UnderWay, Script
<1> QED BY <1>1, <1>2, <1>3, <1>4, <1>5, <1>6 DEF Next

LEMMA RevisionInit == Init => RInv
<1>1. 0 \in 0..Newest /\ Empty \in Schemas /\ Built[0] = Empty
  BY BuiltDef DEF Empty, Schemas
<1> QED BY <1>1 DEF Init, RInv, TypeOK, OfRevision, UnderWay

LEMMA RevisionInvariance == Spec => []RInv
BY RevisionInit, RevisionStep, PTL DEF Spec

\* The schemas, rows and the state of a command keep their types.
THEOREM TypeCorrect == Spec => []TypeOK
<1>1. RInv => TypeOK
  BY DEF RInv
<1> QED BY <1>1, RevisionInvariance, PTL

\* Whatever commands were run, failed or were killed, and whatever was written
\* meanwhile: the database has the schema of its revision, and at head exactly the
\* append-only models are guarded (env.py:45-46).
THEOREM RevisionsHaveOneSchema == Spec => []SchemaOfRevision
<1>1. RInv => SchemaOfRevision
  BY GuardAssumption DEF RInv, OfRevision, SchemaOfRevision
<1> QED BY <1>1, RevisionInvariance, PTL

\* No row of an append-only table is changed or removed while the table is there
\* and guarded: not by a deletion that reaches it through its foreign keys, not by
\* a migration (core/migrations.py:30-35).
THEOREM AppendOnlyTablesOnlyGrow == Spec => AppendOnlyRowsStay
<1>1. ASSUME RInv, [Next]_vars, NEW r \in rows,
             r.table \in AppendOnly, rev >= 3, r.table \in db'.tables
      PROVE  r \in rows'
  <2> USE DEF command
  <2>1. CASE DeleteRows
    <3>1. PICK ts :
            /\ ~Forbidden(ts) /\ UNCHANGED db
            /\ rows' = {q \in rows : q.table \notin ts /\ q \notin Unlinked(ts)}
                       \cup {[q EXCEPT !.links = @ \ ts] : q \in Unlinked(ts)}
      BY <2>1 DEF DeleteRows
    <3>2. Newest \in Nat /\ rev \in 3..Newest /\ db = Built[rev]
      BY <1>1, BuiltDef DEF RInv, TypeOK, OfRevision
    <3>3. r.table \in db.guarded
      BY <1>1, <3>1, <3>2, GuardAssumption
    <3> QED BY <1>1, <3>1, <3>3 DEF Forbidden
  <2>2. CASE CommitMigration
    BY <1>1, <2>2 DEF CommitMigration
  <2>3. CASE WriteRow
    BY <1>1, <2>3, Written DEF RInv
  <2>4. CASE StartMigration \/ MigrationStep \/ FailMigration \/ KillMigration \/ UNCHANGED vars
    BY <1>1, <2>4 DEF StartMigration, MigrationStep, FailMigration, KillMigration, vars
  <2> QED BY <1>1, <2>1, <2>2, <2>3, <2>4 DEF Next
<1>2. RInv /\ [Next]_vars =>
        [\A r \in rows : r.table \in AppendOnly /\ rev >= 3 /\ r.table \in db'.tables
           => r \in rows']_vars
  BY <1>1
<1> QED BY <1>2, RevisionInvariance, PTL DEF Spec, AppendOnlyRowsStay

-----------------------------------------------------------------------------
(* Audited dismissals.                                                     *)

Dismissed == \E r \in rows : r.kind = "risk_dismissed"

RowsFit ==
  \A r \in rows : r.table \in db.tables /\ (r.kind = "risk_dismissed" => r.table = "audit_record")

Satisfies(k) == \A r \in rows : r.table = k.table => r.kind \notin k.without

\* The committed CHECKs hold; so do those that the open transaction sees, and what
\* it has added is on tables that it keeps locked.
ChecksHold ==
  /\ \A k \in db.checks : Satisfies(k)
  /\ cmd # "none" => \A k \in work.checks : Satisfies(k) /\ (k.table \in locked \/ k \in db.checks)

\* A dismissal is on record at head only.  A command that has left head has found
\* none, and lets none be written.
DismissedAtHead ==
  /\ Dismissed => rev = Newest
  /\ cmd = "downgrade" /\ rev = Newest /\ at < Newest => ~Dismissed /\ "audit_record" \in locked

DInv == RInv /\ RowsFit /\ ChecksHold /\ DismissedAtHead

\* Fewer rows disturb nothing, as long as schema and command stay.
LEMMA FewerRows ==
  ASSUME DInv, UNCHANGED <<rev, db, command>>,
         \A r \in rows' : \E q \in rows : q.table = r.table /\ q.kind = r.kind
  PROVE  RowsFit' /\ ChecksHold' /\ DismissedAtHead'
<1> USE DEF command
<1>1. RowsFit'
  BY DEF DInv, RowsFit
<1>2. ASSUME NEW k, Satisfies(k) PROVE Satisfies(k)'
  BY <1>2 DEF Satisfies
<1>3. ChecksHold'
  BY <1>2 DEF DInv, ChecksHold
<1>4. Dismissed' => Dismissed
  BY DEF Dismissed
<1>5. DismissedAtHead'
  BY <1>4 DEF DInv, DismissedAtHead
<1> QED BY <1>1, <1>3, <1>5

\* The step of a command: a CHECK that is new was accepted, and a command that
\* leaves head has brought back the one that admits no dismissal.
LEMMA StepKeepsDismissals ==
  ASSUME DInv, MigrationStep
  PROVE  RowsFit' /\ ChecksHold' /\ DismissedAtHead'
<1>0. /\ UNCHANGED <<rev, db, rows, cmd, goal>> /\ cmd # "none"
      /\ ~Contradicted(Operation) /\ locked' = locked \cup Locks(Operation)
  BY DEF MigrationStep, Refused
<1>1. RowsFit'
  BY <1>0 DEF DInv, RowsFit
<1>2. /\ work \in Schemas /\ Operation \in Operations /\ work' = Applied(work, Operation)
      /\ at' # at => work' = Built[at'] /\ at' = Toward(cmd, at)
  BY StepsUnderWay DEF DInv
<1>3. \A k : Satisfies(k)' <=> Satisfies(k)
  BY <1>0 DEF Satisfies
<1>4. ASSUME NEW k \in work'.checks
      PROVE  Satisfies(k) /\ (k.table \in locked' \/ k \in db.checks)
  <2>1. CASE k \in work.checks
    BY <1>0, <2>1 DEF DInv, ChecksHold
  <2>2. CASE k \notin work.checks
    <3>1. /\ Operation.op = "check" /\ k.table = Operation.table
          /\ k.without = Operation.without /\ Operation.table \in Locks(Operation)
      BY <1>2, <2>2, AppliedChecks
    <3> QED BY <1>0, <3>1 DEF Contradicted, Satisfies
  <2> QED BY <2>1, <2>2
<1>5. ChecksHold'
  BY <1>0, <1>3, <1>4 DEF DInv, ChecksHold
<1>6. Dismissed' <=> Dismissed
  BY <1>0 DEF Dismissed
<1>7. ASSUME cmd = "downgrade", rev = Newest, at' < Newest
      PROVE  ~Dismissed /\ "audit_record" \in locked'
  <2>1. CASE at < Newest
    BY <1>0, <1>7, <2>1 DEF DInv, DismissedAtHead
  <2>2. CASE ~(at < Newest)
    <3>1. at = Newest /\ at' # at /\ at' = Newest - 1
      BY <1>2, <1>7, <2>2, BuiltDef DEF DInv, RInv, TypeOK, Toward
    <3>2. PICK k \in work'.checks : k.table = "audit_record" /\ "risk_dismissed" \in k.without
      BY <1>2, <3>1, DismissalAssumption
    <3>3. k \notin db.checks
      BY <1>7, <3>2, DismissalAssumption DEF DInv, RInv, OfRevision
    <3>4. "audit_record" \in locked' /\ Satisfies(k)
      BY <1>4, <3>2, <3>3
    <3> QED BY <3>2, <3>4 DEF DInv, RowsFit, Satisfies, Dismissed
  <2> QED BY <2>1, <2>2
<1>8. DismissedAtHead'
  BY <1>0, <1>6, <1>7 DEF DInv, DismissedAtHead
<1> QED BY <1>1, <1>5, <1>8

LEMMA CommitKeepsDismissals ==
  ASSUME DInv, CommitMigration
  PROVE  RowsFit' /\ ChecksHold' /\ DismissedAtHead'
<1>0. /\ cmd # "none" /\ at = goal /\ rev' = at /\ db' = work /\ cmd' = "none"
      /\ rows' = {r \in rows : r.table \in work.tables}
  BY DEF CommitMigration, EndCommand
<1>1. RowsFit'
  BY <1>0 DEF DInv, RowsFit
<1>2. ASSUME NEW k, Satisfies(k) PROVE Satisfies(k)'
  BY <1>0, <1>2 DEF Satisfies
<1>3. ChecksHold'
  BY <1>0, <1>2 DEF DInv, ChecksHold
<1>4. ASSUME Dismissed' PROVE rev' = Newest
  <2>1. Dismissed /\ rev = Newest
    BY <1>0, <1>4 DEF Dismissed, DInv, DismissedAtHead
  <2>2. Newest \in Nat /\ goal \in 0..Newest /\ at \in 0..Newest
    BY BuiltDef DEF DInv, RInv, TypeOK
  <2>3. cmd = "downgrade"
    BY <1>0, <2>1, <2>2 DEF DInv, RInv, TypeOK, UnderWay
  <2> QED BY <1>0, <2>1, <2>2, <2>3 DEF DInv, DismissedAtHead
<1>5. DismissedAtHead'
  BY <1>0, <1>4 DEF DismissedAtHead
<1> QED BY <1>1, <1>3, <1>5

LEMMA WriteKeepsDismissals ==
  ASSUME DInv, WriteRow
  PROVE  RowsFit' /\ ChecksHold' /\ DismissedAtHead'
<1> USE DEF command
<1>0. UNCHANGED <<rev, db, command>>
  BY DEF WriteRow
<1>1. PICK t \in db.tables \ locked : \E kind \in Kinds(t) : \E new \in Rows :
        /\ rows' = rows \cup {new} /\ new.table = t /\ new.kind = kind
        /\ \A k \in db.checks : k.table = t => kind \notin k.without
        /\ Occurs(kind)
  BY Written DEF DInv, RInv
<1>2. PICK new \in Rows :
        /\ rows' = rows \cup {new} /\ new.table = t /\ new.kind \in Kinds(t)
        /\ \A k \in db.checks : k.table = t => new.kind \notin k.without
        /\ Occurs(new.kind)
  BY <1>1
<1>3. new.kind = "risk_dismissed" => t = "audit_record"
  BY <1>2 DEF Kinds
<1>4. RowsFit'
  BY <1>0, <1>1, <1>2, <1>3 DEF DInv, RowsFit
<1>5. ASSUME NEW k, Satisfies(k), k.table # t \/ k \in db.checks PROVE Satisfies(k)'
  BY <1>2, <1>5 DEF Satisfies
<1>6. ChecksHold'
  BY <1>0, <1>1, <1>5 DEF DInv, ChecksHold
<1>7. ASSUME new.kind = "risk_dismissed" PROVE rev = Newest
  <2>1. "risk_finding" \in db.tables
    BY <1>2, <1>7 DEF Occurs, DInv, RowsFit
  <2> QED BY <2>1, BuiltDef, DismissalAssumption DEF DInv, RInv, TypeOK, OfRevision
<1>8. ASSUME Dismissed' PROVE Dismissed \/ new.kind = "risk_dismissed"
  BY <1>2, <1>8 DEF Dismissed
<1>9. DismissedAtHead'
  BY <1>0, <1>1, <1>3, <1>7, <1>8 DEF DInv, DismissedAtHead
<1> QED BY <1>4, <1>6, <1>9

LEMMA DismissalStep == DInv /\ [Next]_vars => DInv'
<1> SUFFICES ASSUME DInv, [Next]_vars PROVE DInv'
  OBVIOUS
<1>0. RInv'
  BY RevisionStep DEF DInv
<1>1. CASE StartMigration
  <2>1. UNCHANGED <<rev, db, rows>> /\ work' = db /\ at' = rev
    BY <1>1 DEF StartMigration
  <2>2. RowsFit'
    BY <2>1 DEF DInv, RowsFit
  <2>3. \A k : Satisfies(k)' <=> Satisfies(k)
    BY <2>1 DEF Satisfies
  <2>4. ChecksHold'
    BY <2>1, <2>3 DEF DInv, ChecksHold
  <2>5. Dismissed' <=> Dismissed
    BY <2>1 DEF Dismissed
  <2>6. DismissedAtHead'
    BY <2>1, <2>5, BuiltDef DEF DInv, DismissedAtHead
  <2> QED BY <1>0, <2>2, <2>4, <2>6 DEF DInv
<1>2. CASE MigrationStep
  BY <1>0, <1>2, StepKeepsDismissals DEF DInv
<1>3. CASE CommitMigration
  BY <1>0, <1>3, CommitKeepsDismissals DEF DInv
<1>4. CASE FailMigration \/ KillMigration
  <2>1. UNCHANGED <<rev, db, rows>> /\ cmd' = "none"
    BY <1>4 DEF FailMigration, KillMigration, EndCommand
  <2>2. RowsFit'
    BY <2>1 DEF DInv, RowsFit
  <2>3. \A k : Satisfies(k)' <=> Satisfies(k)
    BY <2>1 DEF Satisfies
  <2>4. ChecksHold'
    BY <2>1, <2>3 DEF DInv, ChecksHold
  <2>5. DismissedAtHead'
    BY <2>1 DEF DInv, DismissedAtHead, Dismissed
  <2> QED BY <1>0, <2>2, <2>4, <2>5 DEF DInv
<1>5. CASE WriteRow
  BY <1>0, <1>5, WriteKeepsDismissals DEF DInv
<1>6. CASE DeleteRows
  <2>1. UNCHANGED <<rev, db, command>>
    BY <1>6 DEF DeleteRows
  <2> QED BY <1>0, <1>6, <2>1, Deleted, FewerRows DEF DInv, RInv
<1>7. CASE UNCHANGED vars
  BY <1>0, <1>7, FewerRows DEF DInv, vars
<1> QED BY <1>1, <1>2, <1>3, <1>4, <1>5, <1>6, <1>7 DEF Next

LEMMA DismissalInvariance == Spec => []DInv
<1>1. Init => DInv
  BY RevisionInit DEF Init, DInv, RowsFit, ChecksHold, Satisfies, DismissedAtHead, Dismissed, Empty
<1> QED BY <1>1, DismissalStep, PTL DEF Spec

\* Whatever rows there are and whatever is written while a command runs, no
\* migration fails, but for a downgrade from head where a dismissal was audited
\* (ee988845269c:307-314).
THEOREM OnlyDismissalsGetInTheWay == Spec => []OnlyDismissalsStopMigrations
<1>1. ASSUME DInv, Raises
      PROVE  /\ cmd = "downgrade" /\ at = Newest
             /\ \E r \in rows : r.kind = "risk_dismissed"
  <2>1. /\ cmd \in {"upgrade", "downgrade"} /\ at # goal /\ Refused(work, Operation)
        /\ at \in 0..Newest /\ goal \in 0..Newest /\ rev \in 0..Newest /\ step \in Nat
        /\ Newest \in Nat
    BY <1>1, BuiltDef DEF Raises, DInv, RInv, TypeOK
  <2>2. IF cmd = "upgrade" THEN at < goal ELSE goal < at
    BY <1>1, <2>1 DEF DInv, RInv, UnderWay
  <2>3. Script = ScriptOf(cmd, at)
    BY <2>1 DEF Script, ScriptOf
  <2>4. step < Len(Script) /\ work = Performed(Built[at], Script)[step]
    BY <1>1, <2>1 DEF DInv, RInv, UnderWay
  <2>5. Operation \in Operations /\ ~Misplaced(work, Operation)
    <3>1. \A k \in 1..Len(Script) :
            Script[k] \in Operations /\ ~Misplaced(Performed(Built[at], Script)[k - 1], Script[k])
      BY <2>1, <2>2, <2>3, OnTheWay
    <3>2. Len(Script) \in Nat
      BY <2>1, <2>2, <2>3, OnTheWay
    <3>3. step + 1 \in 1..Len(Script) /\ (step + 1) - 1 = step
      BY <2>1, <2>4, <3>2
    <3> QED BY <2>4, <3>1, <3>3 DEF Operation
  <2>6. PICK r \in rows : Operation.op = "check" /\ r.kind \in Operation.without
    BY <2>1, <2>5 DEF Refused, Contradicted
  <2>7. r.kind = "risk_dismissed"
    BY <2>5, <2>6 DEF Operations
  <2>8. Dismissed /\ rev = Newest
    BY <1>1, <2>7 DEF Dismissed, DInv, DismissedAtHead
  <2>9. cmd = "downgrade"
    BY <1>1, <2>1, <2>8 DEF DInv, RInv, UnderWay
  <2>10. at = Newest
    BY <1>1, <2>1, <2>8, <2>9 DEF DInv, DismissedAtHead
  <2> QED BY <2>7, <2>9, <2>10
<1>2. DInv => OnlyDismissalsStopMigrations
  BY <1>1 DEF OnlyDismissalsStopMigrations
<1> QED BY <1>2, DismissalInvariance, PTL
=============================================================================
