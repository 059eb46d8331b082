---------------------------- MODULE RiskPipeline ----------------------------
(***************************************************************************)
(* Risk findings: detect_risks (app/analysis/rules.py), generate_explanation*)
(* (app/analysis/explain.py, app/analysis/jobs.py) and the dismissal of a  *)
(* finding by a human (app/api/routers/risks.py), run by worker processes  *)
(* and HTTP requests that share one database at READ COMMITTED.            *)
(*                                                                         *)
(* A condition is what a rule can find: a risk type with its item and      *)
(* supplier, the identity _find_non_terminal dedupes on.  A worker runs    *)
(* one handler at a time in one transaction: its SELECTs are steps, its    *)
(* writes (found, newLinks, newJobs) become visible together in its commit.*)
(*                                                                         *)
(* The job table appears only as counts per finding, which is all that     *)
(* _maybe_enqueue_explanation asks of it: rows that wait in the queue (or  *)
(* in the batch of a worker that has not reached them), and rows stranded  *)
(* in status 'running' (JobQueue shows how they come about).               *)
(***************************************************************************)
EXTENDS Integers, FiniteSets

CONSTANTS
  Conditions,  \* identities: (risk_type, item_id, supplier_id)
  Findings,    \* ids of the risk_finding rows that may be inserted (a bound)
  CondOf,      \* the condition of each finding: written by the insert only
  Signals,     \* what may be cited: observation_signal rows, purchase orders
  EvidenceOf,  \* the signals, or orders, that match a condition
  Unlinked,    \* conditions of type systematic_supplier_delay: their evidence
               \* is the purchase orders themselves, and nothing is linked
  Workers,     \* worker processes
  Requests,    \* dismissals in flight
  MaxPasses,   \* how many detect_risks jobs may wait at a time (a bound)
  None         \* no finding

VARIABLES
  active,    \* the conditions whose rule fires on the current domain rows
  observed,  \* the signals there are, and the orders received late or in time
  ever,      \* history: what has been observed at some time
  passes,    \* detect_risks jobs that wait
  status, ai,\* columns of risk_finding
  links,     \* links[f][s]: risk_signal_link rows between f and s
  cited,     \* cited[f]: the refs of the explanation rows of f, {} when none
  queued,    \* queued[f]: pending generate_explanation jobs for f
  stuck,     \* stuck[f]: generate_explanation jobs of f stranded as 'running'
  pc,        \* pc[w]: what worker w runs
  todo,      \* todo[w]: conditions the pass has yet to apply
  at,        \* at[w]: the finding w works on
  read,      \* read[w]: its ai_status as w loaded it
  evidence,  \* evidence[w]: evidence_payloads as w loaded it
  found, newLinks, newJobs, \* what w has inserted and not committed: findings,
             \* <<finding, signal>> links, and findings with a new job
  dismissing \* dismissing[r]: the finding request r has read

pipeline == <<active, observed, ever, passes>>
rows     == <<status, ai, links, cited, queued, stuck>>
buffer   == <<found, newLinks, newJobs>>
locals   == <<pc, todo, at, read, evidence, buffer>>
vars     == <<active, observed, ever, passes, status, ai, links, cited,
              queued, stuck, pc, todo, at, read, evidence, found, newLinks, newJobs, dismissing>>

PCs        == {"idle", "detecting", "applying", "explaining"}
AIStatuses == {"pending", "ready", "unavailable"}

\* Rows of purchase_order, which a sync overwrites; signals are append-only.
OrderRefs == UNION {EvidenceOf[c] : c \in Unlinked}

ASSUME PipelineAssumption ==
  /\ CondOf \in [Findings -> Conditions]
  /\ EvidenceOf \in [Conditions -> SUBSET Signals]
  /\ Unlinked \subseteq Conditions
  /\ \A c \in Conditions \ Unlinked : EvidenceOf[c] \cap OrderRefs = {}
  /\ None \notin Findings
  /\ IsFiniteSet(Workers) /\ MaxPasses \in Nat

Open(c) == {f \in Findings : CondOf[f] = c /\ status[f] = "open"}
Free(c) == {f \in Findings : /\ CondOf[f] = c /\ status[f] = "absent"
                             /\ \A w \in Workers : f \notin found[w]}
Linked(f) == {s \in Signals : links[f][s] > 0}

\* evidence_payloads: the only refs an explanation of f may cite.
Evidence(f) ==
  IF CondOf[f] \in Unlinked THEN observed \cap EvidenceOf[CondOf[f]] ELSE Linked(f)

Explainers(f) == {w \in Workers : pc[w] = "explaining" /\ at[w] = f}

\* The pending and running jobs of f that _maybe_enqueue_explanation counts.
LiveJobs(f) == queued[f] + stuck[f] + Cardinality(Explainers(f))

Init ==
  /\ active = {} /\ observed = {} /\ ever = {} /\ passes = 0
  /\ status = [f \in Findings |-> "absent"]
  /\ ai = [f \in Findings |-> "pending"]
  /\ links = [f \in Findings |-> [s \in Signals |-> 0]]
  /\ cited = [f \in Findings |-> {}]
  /\ queued = [f \in Findings |-> 0]
  /\ stuck = [f \in Findings |-> 0]
  /\ pc = [w \in Workers |-> "idle"]
  /\ todo = [w \in Workers |-> {}]
  /\ at = [w \in Workers |-> None]
  /\ read = [w \in Workers |-> "pending"]
  /\ evidence = [w \in Workers |-> {}]
  /\ found = [w \in Workers |-> {}]
  /\ newLinks = [w \in Workers |-> {}]
  /\ newJobs = [w \in Workers |-> {}]
  /\ dismissing = [r \in Requests |-> None]

\* The transaction of w is over: what its session held is gone.
EndTransaction(w) ==
  /\ pc' = [pc EXCEPT ![w] = "idle"]
  /\ todo' = [todo EXCEPT ![w] = {}]
  /\ at' = [at EXCEPT ![w] = None]
  /\ read' = [read EXCEPT ![w] = "pending"]
  /\ evidence' = [evidence EXCEPT ![w] = {}]
  /\ found' = [found EXCEPT ![w] = {}]
  /\ newLinks' = [newLinks EXCEPT ![w] = {}]
  /\ newJobs' = [newJobs EXCEPT ![w] = {}]

-----------------------------------------------------------------------------
(* The synchronised data: recompute_aggregates and sync_source.            *)

\* A rule begins or ceases to fire: rows are inserted or overwritten, aggregates
\* recomputed, time passes.
ConditionChanges(c) ==
  /\ active' = IF c \in active THEN active \ {c} ELSE active \cup {c}
  /\ UNCHANGED <<observed, ever, passes, rows, locals, dismissing>>

SignalObserved(s) ==
  /\ s \notin observed
  /\ observed' = observed \cup {s} /\ ever' = ever \cup {s}
  /\ UNCHANGED <<active, passes, rows, locals, dismissing>>

\* A sync overwrites an order, which is not received any more, or has lost a date
\* that no longer parses, or belongs to another supplier.
OrderOverwritten(s) ==
  /\ s \in observed \cap OrderRefs
  /\ observed' = observed \ {s}
  /\ UNCHANGED <<active, ever, passes, rows, locals, dismissing>>

\* Only a recomputation asks for a pass, and a sync asks for a recomputation only
\* when a watched attribute of a row has changed (ObservationLoop).
PassRequested ==
  /\ passes < MaxPasses
  /\ passes' = passes + 1
  /\ UNCHANGED <<active, observed, ever, rows, locals, dismissing>>

-----------------------------------------------------------------------------
(* detect_risks.                                                           *)

\* A detect_risks job is taken up; the rules are evaluated.
StartPass(w) ==
  /\ pc[w] = "idle" /\ passes > 0
  /\ passes' = passes - 1
  /\ pc' = [pc EXCEPT ![w] = "detecting"]
  /\ todo' = [todo EXCEPT ![w] = active]
  /\ UNCHANGED <<active, observed, ever, rows, at, read, evidence, buffer, dismissing>>

\* Mutants of Known: the query never matches; it matches terminal findings too.
Known_Never(c) == {}
Known_AnyStatus(c) == {f \in Findings : CondOf[f] = c /\ status[f] # "absent"}

\* _find_non_terminal: scalar_one_or_none over the findings of the identity.
Known(c) == Open(c)

FindExisting(w, c) ==
  /\ \E f \in Known(c) :
       /\ Known(c) = {f}
       /\ at' = [at EXCEPT ![w] = f]
       /\ read' = [read EXCEPT ![w] = ai[f]]
  /\ UNCHANGED found

FindNothing(w, c) ==
  /\ Known(c) = {}
  /\ \E f \in Free(c) :
       /\ at' = [at EXCEPT ![w] = f]
       /\ found' = [found EXCEPT ![w] = @ \cup {f}]
  /\ read' = [read EXCEPT ![w] = "pending"]

Find(w) ==
  /\ pc[w] = "detecting"
  /\ \E c \in todo[w] :
       /\ FindExisting(w, c) \/ FindNothing(w, c)
       /\ todo' = [todo EXCEPT ![w] = @ \ {c}]
  /\ pc' = [pc EXCEPT ![w] = "applying"]
  /\ UNCHANGED <<pipeline, rows, evidence, newLinks, newJobs, dismissing>>

\* Two open findings of one condition: MultipleResultsFound ends the pass.
FindRaises(w) ==
  /\ pc[w] = "detecting"
  /\ \E c \in todo[w] : Cardinality(Known(c)) > 1
  /\ EndTransaction(w)
  /\ UNCHANGED <<pipeline, rows, dismissing>>

\* Mutant of NewEvidence: what is linked already is not excluded.
NewEvidence_All(f) == observed \cap EvidenceOf[CondOf[f]]

\* _link_new_evidence: matching signals not linked to f yet.
NewEvidence(f) ==
  IF CondOf[f] \in Unlinked THEN {} ELSE (observed \cap EvidenceOf[CondOf[f]]) \ Linked(f)

\* Mutants of Enqueues: running jobs are not counted; a failure is not retried.
Enqueues_PendingOnly(w) == read[w] # "ready" /\ queued[at[w]] = 0
Enqueues_FirstTime(w) == read[w] = "pending" /\ LiveJobs(at[w]) = 0

\* _maybe_enqueue_explanation adds a job.
Enqueues(w) == read[w] # "ready" /\ LiveJobs(at[w]) = 0

\* The rest of _apply: new evidence and, perhaps, an explanation job.
Apply(w) ==
  /\ pc[w] = "applying"
  /\ newLinks' = [newLinks EXCEPT ![w] = @ \cup ({at[w]} \X NewEvidence(at[w]))]
  /\ newJobs' = [newJobs EXCEPT ![w] = IF Enqueues(w) THEN @ \cup {at[w]} ELSE @]
  /\ pc' = [pc EXCEPT ![w] = "detecting"]
  /\ at' = [at EXCEPT ![w] = None]
  /\ read' = [read EXCEPT ![w] = "pending"]
  /\ UNCHANGED <<pipeline, rows, todo, evidence, found, dismissing>>

CommitPass(w) ==
  /\ pc[w] = "detecting" /\ todo[w] = {}
  /\ status' = [f \in Findings |-> IF f \in found[w] THEN "open" ELSE status[f]]
  /\ links' = [f \in Findings |-> [s \in Signals |->
                 IF <<f, s>> \in newLinks[w] THEN links[f][s] + 1 ELSE links[f][s]]]
  /\ queued' = [f \in Findings |-> IF f \in newJobs[w] THEN queued[f] + 1 ELSE queued[f]]
  /\ EndTransaction(w)
  /\ UNCHANGED <<pipeline, ai, cited, stuck, dismissing>>

-----------------------------------------------------------------------------
(* generate_explanation.                                                   *)

\* A job is taken up: the finding and its evidence are loaded, and the model
\* is asked.  Neither finding.status nor finding.ai_status is looked at.
StartExplain(w, f) ==
  /\ pc[w] = "idle" /\ queued[f] > 0
  /\ queued' = [queued EXCEPT ![f] = @ - 1]
  /\ pc' = [pc EXCEPT ![w] = "explaining"]
  /\ at' = [at EXCEPT ![w] = f]
  /\ read' = [read EXCEPT ![w] = ai[f]]
  /\ evidence' = [evidence EXCEPT ![w] = Evidence(f)]
  /\ UNCHANGED <<pipeline, status, ai, links, cited, stuck, todo, buffer, dismissing>>

\* The UPDATE is emitted only when the value differs from the loaded one.
SetAI(w, value) ==
  ai' = IF value = read[w] THEN ai ELSE [ai EXCEPT ![at[w]] = value]

EndExplain(w) ==
  /\ EndTransaction(w)
  /\ UNCHANGED <<pipeline, status, links, queued, stuck, dismissing>>

\* Mutant of Kept: what the model cites is believed.
Kept_Unchecked(w, refs) == refs

\* Grounding: a cited ref is kept only if it was in the evidence.
Kept(w, refs) == refs \cap evidence[w]

\* The model answers, citing any refs, and some survive grounding.
Explained(w) ==
  /\ pc[w] = "explaining"
  /\ \E refs \in SUBSET Signals :
       /\ Kept(w, refs) # {}
       /\ cited' = [cited EXCEPT ![at[w]] = @ \cup Kept(w, refs)]
  /\ SetAI(w, "ready")
  /\ EndExplain(w)

\* Mutant of GivenUp: the finding is not touched.
GivenUp_Silent(w) == UNCHANGED ai

\* What a failed explanation writes to the finding.
GivenUp(w) == SetAI(w, "unavailable")

\* The model fails for good, or nothing it cites is evidence.  The handler
\* swallows LLMUnavailable, so this commits too.
Unavailable(w) ==
  /\ pc[w] = "explaining"
  /\ GivenUp(w)
  /\ UNCHANGED cited
  /\ EndExplain(w)

-----------------------------------------------------------------------------
(* What can go wrong with a worker.                                        *)

\* The handler raises, its commit fails or the process dies: nothing of the
\* transaction stays, and the row of the job stays 'running'.
Interrupted(w) ==
  /\ pc[w] # "idle"
  /\ EndTransaction(w)
  /\ stuck' = IF pc[w] = "explaining" THEN [stuck EXCEPT ![at[w]] = @ + 1] ELSE stuck
  /\ UNCHANGED <<pipeline, status, ai, links, cited, queued, dismissing>>

\* A job that is claimed but not reached is lost with the rest of its batch;
\* nobody counts the stranded rows of detect_risks.
PassLost ==
  /\ passes > 0
  /\ passes' = passes - 1
  /\ UNCHANGED <<active, observed, ever, rows, locals, dismissing>>

BatchLost(f) ==
  /\ queued[f] > 0
  /\ queued' = [queued EXCEPT ![f] = @ - 1]
  /\ stuck' = [stuck EXCEPT ![f] = @ + 1]
  /\ UNCHANGED <<pipeline, status, ai, links, cited, locals, dismissing>>

-----------------------------------------------------------------------------
(* POST /risks/{id}/dismiss                                                *)

DismissRead(r) ==
  /\ dismissing[r] = None
  /\ \E f \in Findings :
       /\ status[f] = "open"
       /\ dismissing' = [dismissing EXCEPT ![r] = f]
  /\ UNCHANGED <<pipeline, rows, locals>>

DismissCommit(r) ==
  /\ dismissing[r] # None
  /\ status' = [status EXCEPT ![dismissing[r]] = "dismissed"]
  /\ dismissing' = [dismissing EXCEPT ![r] = None]
  /\ UNCHANGED <<pipeline, ai, links, cited, queued, stuck, locals>>

-----------------------------------------------------------------------------
Handler(w) == Find(w) \/ FindRaises(w) \/ Apply(w) \/ CommitPass(w)
              \/ Explained(w) \/ Unavailable(w)

Environment ==
  \/ \E c \in Conditions : ConditionChanges(c)
  \/ \E s \in Signals : SignalObserved(s) \/ OrderOverwritten(s)
  \/ PassRequested
  \/ \E r \in Requests : DismissRead(r) \/ DismissCommit(r)

Work(w) == StartPass(w) \/ (\E f \in Findings : StartExplain(w, f)) \/ Handler(w)

Faults ==
  \/ \E w \in Workers : Interrupted(w)
  \/ \E f \in Findings : BatchLost(f)
  \/ PassLost

Next == Environment \/ (\E w \in Workers : Work(w)) \/ Faults

Spec == Init /\ [][Next]_vars

(***************************************************************************)
(* Without faults.  Handlers run to their end, and a job that waits is not *)
(* passed over for ever, as the queue claims the oldest first (JobQueue,   *)
(* DueGetsClaimed).  A model that is asked about a finding again and again *)
(* cites something real now and then.  That passes are requested, or       *)
(* explanations asked for again, is not assumed.                           *)
(***************************************************************************)
CalmSpec ==
  /\ Init /\ [][Environment \/ \E w \in Workers : Work(w)]_vars
  /\ \A w \in Workers :
       /\ WF_vars(Handler(w))
       /\ SF_vars(StartPass(w))
       /\ \A f \in Findings :
            /\ SF_vars(StartExplain(w, f))
            /\ SF_vars(Explained(w) /\ at[w] = f)

-----------------------------------------------------------------------------
(* Properties, for any number of workers.                                  *)

TypeOK ==
  /\ active \subseteq Conditions /\ passes \in Nat
  /\ observed \subseteq Signals /\ ever \subseteq Signals
  /\ status \in [Findings -> {"absent", "open", "dismissed"}]
  /\ ai \in [Findings -> AIStatuses]
  /\ links \in [Findings -> [Signals -> Nat]]
  /\ cited \in [Findings -> SUBSET Signals]
  /\ queued \in [Findings -> Nat] /\ stuck \in [Findings -> Nat]
  /\ pc \in [Workers -> PCs]
  /\ todo \in [Workers -> SUBSET Conditions]
  /\ at \in [Workers -> Findings \cup {None}]
  /\ \A w \in Workers : pc[w] \in {"applying", "explaining"} => at[w] \in Findings
  /\ read \in [Workers -> AIStatuses]
  /\ evidence \in [Workers -> SUBSET Signals]
  /\ found \in [Workers -> SUBSET Findings]
  /\ newLinks \in [Workers -> SUBSET (Findings \X Signals)]
  /\ newJobs \in [Workers -> SUBSET Findings]
  /\ dismissing \in [Requests -> Findings \cup {None}]

\* A finding that waits for its explanation always has a job that is going to
\* write it or to record the failure - or a stranded one, which is the trace
\* of a fault: no finding is forgotten without a trace, however passes,
\* explanations and dismissals interleave (_apply, generate_explanation_handler).
NeverForgotten ==
  \A f \in Findings : status[f] # "absent" /\ ai[f] = "pending" => LiveJobs(f) > 0

\* What has been evidence of f at some time.  A link is never removed; an order
\* may have been overwritten since.
Grounds(f) ==
  IF CondOf[f] \in Unlinked THEN ever \cap EvidenceOf[CondOf[f]] ELSE Linked(f)

\* ai_status 'ready' is never a claim without an explanation behind it, and an
\* explanation cites nothing that was not evidence of its own finding (explain.py,
\* "Evidence grounding"), whatever the model answers and whichever orders are
\* overwritten while it is asked.
ExplainedAndGrounded ==
  \A f \in Findings :
    /\ ai[f] = "ready" => cited[f] # {}
    /\ cited[f] \subseteq Grounds(f)

(* Properties of a single worker.                                          *)

\* rules.py:387-391: repeated passes over an unexplained finding "don't pile
\* up duplicate jobs".
OneLiveJob == \A f \in Findings : LiveJobs(f) <= 1

\* _link_new_evidence links a signal to a finding once (there is no unique
\* constraint on risk_signal_link).
LinkedOnce == \A f \in Findings, s \in Signals : links[f][s] <= 1

\* One worker and one dismissal at a time implement the register of findings.
Register == INSTANCE RiskRegister
RegisterSpec == Register!Spec

Exhausted == \E c \in Conditions : Free(c) = {} /\ Open(c) = {}

\* Two open findings of a condition, after which every pass over it raises.
Doubled == \E c \in Conditions : Cardinality(Open(c)) > 1

\* A condition that holds while a pass waits is found, by that pass or by one that
\* is under way, however dismissals and other passes interleave (detect_risks);
\* unless two passes have doubled a finding, or the model runs out of ids.
Detected ==
  \A c \in Conditions :
    c \in active /\ passes > 0 ~> Open(c) # {} \/ c \notin active \/ Doubled \/ Exhausted

\* Every new finding gets the answer of an explanation, if only that there is
\* none.  One that stays without is asked about again by later passes, and
\* explained in the end if such passes keep coming (analysis/jobs.py:39-43).
ExplainedInTheEnd ==
  \A f \in Findings :
    /\ status[f] = "open" /\ ai[f] = "pending" ~> ai[f] # "pending" \/ Exhausted
    /\ []<>(passes > 0) =>
         (status[f] = "open" /\ Evidence(f) # {} ~>
            \/ ai[f] = "ready" \/ status[f] = "dismissed" \/ CondOf[f] \notin active
            \/ Evidence(f) = {} \/ Doubled \/ Exhausted)

(* What the documentation says and the program does not do.                *)

\* rules.py:284-286 "a matching open condition gets new evidence linked
\* instead of a duplicate row": with two workers it gets the duplicate row.
OneOpenPerCondition == \A c \in Conditions : Cardinality(Open(c)) <= 1

\* A condition that stays is found: not if no pass is requested, as after the sync
\* that inserts the first rows, or one that changes orders (sync.py:222).
FoundUnasked ==
  \A c \in Conditions : c \in active ~> Open(c) # {} \/ c \notin active \/ Doubled \/ Exhausted

\* analysis/jobs.py:41 "Retry happens naturally": not unless a watched value changes.
RetriedUnasked ==
  \A f \in Findings :
    status[f] = "open" /\ Evidence(f) # {} ~>
      \/ ai[f] = "ready" \/ status[f] = "dismissed" \/ CondOf[f] \notin active
      \/ Evidence(f) = {} \/ Doubled \/ Exhausted

\* explain.py:160-162: the evidence that GET /risks/{id} shows is the trail the
\* explanation was grounded in.  An overwritten order is cited and not shown.
CitedIsShown == \A f \in Findings : cited[f] \subseteq Evidence(f)

\* rules.py:391 "re-enqueued only if ai_status is not yet ready".
EnqueuedOnlyUnlessReady ==
  [][\A f \in Findings : queued'[f] > queued[f] => ai[f] # "ready"]_vars

\* analysis/jobs.py:41-43 "the next detect_risks pass re-enqueues
\* generate_explanation for any finding whose ai_status is still not ready":
\* a pass leaves no such finding with nothing but a stranded job.
RetriedByNextPass ==
  [][\A w \in Workers, f \in Findings :
       Apply(w) /\ at[w] = f /\ ai[f] # "ready"
         => f \in newJobs'[w] \/ queued[f] > 0 \/ Explainers(f) # {}]_vars

\* test_dismiss_an_already_terminal_risk_is_a_conflict: what is dismissed is
\* not dismissed again.
DismissedOnce ==
  [][\A r \in Requests, f \in Findings :
       DismissCommit(r) /\ dismissing[r] = f => status[f] = "open"]_vars
=============================================================================
