--------------------------- MODULE Observability ----------------------------
(***************************************************************************)
(* Observability gaps (app/observation/observability.py) and the health of *)
(* a data source, as the callers of the service change them: the           *)
(* connection check of the API (integration/service.py), the sync job      *)
(* (integration/sync.py) and the fail-safe path of the model calls         *)
(* (ai/structured.py, analysis/explain.py).                                *)
(*                                                                         *)
(* A session is one transaction at READ COMMITTED.  It loads the source,   *)
(* asks the outside, looks for an open gap, and commits; each of these is  *)
(* a step.  There is one source and one capability, since no operation     *)
(* concerns two.  Rows of closed gaps have no further effect: an id in     *)
(* open[k] is an open row and any other id is free to be inserted.         *)
(***************************************************************************)
EXTENDS Integers, FiniteSets

CONSTANTS
  Sessions, \* transactions in flight at the same time
  Gaps,     \* ids of observability_gap rows
  Callers   \* the operations that run: a subset of {"check", "sync", "explain"}

VARIABLES
  input,   \* input[k]: is the source, or the model behind the capability, "up"
  health,  \* data_source.health
  checked, \* data_source.last_check_at IS NOT NULL
  open,    \* open[k]: the gap rows of k with closed_at IS NULL
  pc, caller, \* where a session is, and which operation it runs
  read,    \* read[s]: data_source.health as s loaded it
  answer,  \* answer[s]: what the outside answered
  mine,    \* mine[s]: the gap s is about to insert or close, {} when none
  overlap  \* history: two transactions have been open at the same time

table   == <<health, checked, open>>
session == <<pc, caller, read, answer, mine>>
vars    == <<input, health, checked, open, pc, caller, read, answer, mine, overlap>>

Keys   == {"source", "capability"}
Health == {"available", "unavailable"}
PCs    == {"idle", "asking", "answered", "writing"}
Key(s) == IF caller[s] = "explain" THEN "capability" ELSE "source"
Free   == {g \in Gaps : /\ \A k \in Keys : g \notin open[k]
                        /\ \A s \in Sessions : g \notin mine[s]}

ASSUME ObservabilityAssumption ==
  /\ Callers \subseteq {"check", "sync", "explain"}
  /\ IsFiniteSet(Gaps)

Init ==
  /\ input = [k \in Keys |-> "up"]
  /\ health = "unavailable" /\ checked = FALSE
  /\ open = [k \in Keys |-> {}]
  /\ pc = [s \in Sessions |-> "idle"]
  /\ caller = [s \in Sessions |-> "check"]
  /\ read = [s \in Sessions |-> "unavailable"]
  /\ answer = [s \in Sessions |-> "up"]
  /\ mine = [s \in Sessions |-> {}]
  /\ overlap = FALSE

-----------------------------------------------------------------------------
\* The ERP, the file server or the model service goes away or comes back (for
\* the model, "down" includes answers that are invalid or cite no evidence).
InputChanges(k) ==
  /\ input' = [input EXCEPT ![k] = IF @ = "up" THEN "down" ELSE "up"]
  /\ UNCHANGED <<table, session, overlap>>

EndSession(s) ==
  /\ pc' = [pc EXCEPT ![s] = "idle"]
  /\ caller' = [caller EXCEPT ![s] = "check"]
  /\ read' = [read EXCEPT ![s] = "unavailable"]
  /\ answer' = [answer EXCEPT ![s] = "up"]
  /\ mine' = [mine EXCEPT ![s] = {}]
  /\ UNCHANGED overlap

\* The transaction begins; check_connection and sync_source load the source.
Begin(s, c) ==
  /\ pc[s] = "idle" /\ c \in Callers
  /\ pc' = [pc EXCEPT ![s] = "asking"]
  /\ caller' = [caller EXCEPT ![s] = c]
  /\ read' = [read EXCEPT ![s] = IF c = "explain" THEN @ ELSE health]
  /\ overlap' = (overlap \/ \E o \in Sessions : pc[o] # "idle")
  /\ UNCHANGED <<input, table, answer, mine>>

\* test_connection, fetch or the last attempt of the model call returns.
Asked(s) ==
  /\ pc[s] = "asking"
  /\ answer' = [answer EXCEPT ![s] = input[Key(s)]]
  /\ pc' = [pc EXCEPT ![s] = "answered"]
  /\ UNCHANGED <<input, table, caller, read, mine, overlap>>

\* A model call that succeeds has nothing to do with gaps: none is closed.
ModelAnswered(s) ==
  /\ pc[s] = "answered" /\ caller[s] = "explain" /\ answer[s] = "up"
  /\ EndSession(s)
  /\ UNCHANGED <<input, table>>

\* Mutant of UsesGaps: a source that is back is not acted on.
UsesGaps_OnFailure(s) == pc[s] = "answered" /\ answer[s] = "down"

UsesGaps(s) == pc[s] = "answered" /\ (caller[s] = "explain" => answer[s] = "down")

\* Mutants of Current: one of several open gaps wins instead of an exception; the
\* query forgets "closed_at IS NULL" and finds nothing it can use.
Current_Any(k) == IF open[k] = {} THEN {} ELSE {CHOOSE g \in open[k] : TRUE}

Current_None(k) == {}

\* _current: the open gaps of the key that a SELECT finds.
Current(k) == open[k]

\* close: the gap that is going to get its closed_at.
Closes(s) == Current(Key(s))

LookUp(s) ==
  /\ UsesGaps(s)
  /\ Cardinality(Current(Key(s))) <= 1
  /\ \/ answer[s] = "up" /\ mine' = [mine EXCEPT ![s] = Closes(s)]
     \/ answer[s] = "down" /\ Current(Key(s)) # {} /\ UNCHANGED mine
     \/ /\ answer[s] = "down" /\ Current(Key(s)) = {}
        /\ \E g \in Free : mine' = [mine EXCEPT ![s] = {g}]
  /\ pc' = [pc EXCEPT ![s] = "writing"]
  /\ UNCHANGED <<input, table, caller, read, answer, overlap>>

\* scalar_one_or_none raises MultipleResultsFound: everything is rolled back.
LookUpRaises(s) ==
  /\ UsesGaps(s)
  /\ Cardinality(Current(Key(s))) > 1
  /\ EndSession(s)
  /\ UNCHANGED <<input, table>>

\* Mutant of NewHealth: a failing check keeps what it loaded.
NewHealth_Unchanged(s) == IF answer[s] = "up" THEN "available" ELSE read[s]

NewHealth(s) == IF answer[s] = "up" THEN "available" ELSE "unavailable"

\* The writes become visible.  data_source.health is written only when it
\* differs from the loaded value.  A failing sync never gets here.
Commit(s) ==
  /\ pc[s] = "writing" /\ (caller[s] = "sync" => answer[s] = "up")
  /\ open' = [open EXCEPT ![Key(s)] = IF answer[s] = "up" THEN @ \ mine[s] ELSE @ \cup mine[s]]
  /\ IF caller[s] = "explain"
     THEN UNCHANGED <<health, checked>>
     ELSE /\ health' = IF NewHealth(s) = read[s] THEN health ELSE NewHealth(s)
          /\ checked' = TRUE
  /\ EndSession(s)
  /\ UNCHANGED input

\* sync_source raises UpstreamError after it has flushed the failure, and the
\* worker rolls the transaction back.
SyncFails(s) ==
  /\ pc[s] = "writing" /\ caller[s] = "sync" /\ answer[s] = "down"
  /\ EndSession(s)
  /\ UNCHANGED <<input, table>>

\* The request is cancelled, a later write of the sync fails, the process dies.
Abandon(s) ==
  /\ pc[s] # "idle"
  /\ EndSession(s)
  /\ UNCHANGED <<input, table>>

-----------------------------------------------------------------------------
Proceed(s) ==
  Asked(s) \/ ModelAnswered(s) \/ LookUp(s) \/ LookUpRaises(s) \/ Commit(s) \/ SyncFails(s)

Operate(s) == (\E c \in Callers : Begin(s, c)) \/ Proceed(s)

Next ==
  \/ \E k \in Keys : InputChanges(k)
  \/ \E s \in Sessions : Operate(s) \/ Abandon(s)

Spec == Init /\ [][Next]_vars

(***************************************************************************)
(* Operations that have begun go on (a call to the outside has a timeout). *)
(* Operators test the source again and again, and not every test is cut    *)
(* short at the same point.  Nothing is assumed of syncs, of explanation   *)
(* jobs, of the outside, nor of what is abandoned otherwise.               *)
(***************************************************************************)
FairSpec ==
  /\ Spec
  /\ \A s \in Sessions :
       /\ WF_vars(Proceed(s))
       /\ SF_vars(Begin(s, "check"))
       /\ SF_vars(caller[s] = "check" /\ Asked(s))
       /\ SF_vars(caller[s] = "check" /\ LookUp(s))
       /\ SF_vars(caller[s] = "check" /\ Commit(s))

-----------------------------------------------------------------------------
(* Properties, for any number of sessions.                                 *)

TypeOK ==
  /\ input \in [Keys -> {"up", "down"}]
  /\ health \in Health /\ checked \in BOOLEAN
  /\ open \in [Keys -> SUBSET Gaps]
  /\ pc \in [Sessions -> PCs]
  /\ caller \in [Sessions -> {"check", "sync", "explain"}]
  /\ read \in [Sessions -> Health]
  /\ answer \in [Sessions -> {"up", "down"}]
  /\ mine \in [Sessions -> SUBSET Gaps]
  /\ overlap \in BOOLEAN

\* Two gaps of one key are open and no transaction has looked before that.
Stuck(k) ==
  /\ Cardinality(open[k]) > 1
  /\ \A s \in Sessions : pc[s] = "writing" => Key(s) # k

\* Then nothing the program does closes either of them any more, and a stuck
\* source keeps the health it has (_current raises in open and in close).
StuckForever ==
  [][\A k \in Keys : Stuck(k) =>
       /\ Stuck(k)' /\ open'[k] = open[k]
       /\ k = "source" => health' = health]_vars

\* The health and the gap of a source agree.  Overlapping checks leave them in
\* contradiction (service.py:205-224), so that this is not promised for ever.
HealthFits == checked => (health = "unavailable" <=> open["source"] # {})

(* As long as no two transactions have overlapped.                         *)

\* A key has at most one open gap (open re-opens nothing it finds open).
OneOpenGap == ~overlap => \A k \in Keys : Cardinality(open[k]) <= 1

\* The health an operator sees and the gap that blocks autonomy tell the same
\* story (check_connection and sync_source write both).
HealthMatchesGap == ~overlap => HealthFits

\* "closed when it recovers" (observability.py:3-4), for a source that stays up.
SourceGapCloses ==
  [](~overlap) /\ <>[](input["source"] = "up") => <>[](open["source"] = {})

(* What the documentation says and the program does not do.                *)

\* observability.py:3-4 for the other kind of gap: a model that is back.
CapabilityGapCloses ==
  <>[](input["capability"] = "up") => <>[](open["capability"] = {})

\* observability.py:3-4 "opened when a required input is lost (source
\* unavailable ...)": a sync that could not reach its source leaves a gap.
FailedSyncIsRecorded == [][\A s \in Sessions : SyncFails(s) => open'["source"] # {}]_vars
=============================================================================
