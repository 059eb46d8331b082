-------------------------- MODULE MappingLifecycle --------------------------
(***************************************************************************)
(* What the mapping service promises about the field mappings of a source: *)
(* a request decides on the row as it is, changes it in one step, and      *)
(* leaves one event that tells what the row was before and after.          *)
(* FieldMapping.tla implements this as long as requests are served one     *)
(* after the other.                                                        *)
(***************************************************************************)
EXTENDS Integers, Sequences

CONSTANTS
  Mappings,  \* ids of field_mapping rows
  Targets,   \* what a source field can be mapped to
  Actors,    \* users who may confirm
  Null    \* NULL: nobody

VARIABLES
  row,       \* row[m]: the mapping, Absent before it is created
  history    \* history[m]: its change events, oldest first

vars == <<row, history>>

Absent == [status |-> "none", target |-> Null, by |-> Null]
Snap(r) == [status |-> r.status, target |-> r.target]

Init ==
  /\ row = [m \in Mappings |-> Absent]
  /\ history = [m \in Mappings |-> <<>>]

\* The mappings of ms become new[m] and each leaves an event.
Change(ms, action, a, new) ==
  /\ row' = [m \in Mappings |-> IF m \in ms THEN new[m] ELSE row[m]]
  /\ history' = [m \in Mappings |->
       IF m \in ms
         THEN Append(history[m], [action |-> action, actor |-> a,
                                  before |-> Snap(row[m]), after |-> Snap(new[m])])
         ELSE history[m]]

\* A user or the model suggests mappings; the model suggests no target twice.
Suggest(ms, a) ==
  \E t \in [ms -> Targets] :
    /\ \A m \in ms : row[m] = Absent
    /\ a = Null => \A m \in ms : \A n \in Mappings \ {m} :
         t[m] # IF n \in ms THEN t[n] ELSE row[n].target
    /\ Change(ms, "suggested", a,
              [m \in ms |-> [status |-> "suggested", target |-> t[m], by |-> Null]])

Confirm(ms, a) ==
  /\ \A m \in ms : \/ row[m].status \in {"suggested", "confirmed", "rejected"} /\ ms = {m}
                   \/ row[m].status = "suggested"
  /\ Change(ms, "confirmed", a,
            [m \in ms |-> [row[m] EXCEPT !.status = "confirmed", !.by = a]])

Reject(m, a) ==
  /\ row[m] # Absent
  /\ Change({m}, "rejected", a,
            [n \in {m} |-> [row[n] EXCEPT !.status = "rejected", !.by = Null]])

Retire(m, a) ==
  /\ row[m] # Absent
  /\ Change({m}, "retired", a, [n \in {m} |-> [row[n] EXCEPT !.status = "retired"]])

Edit(m, a) ==
  \E t \in Targets :
    /\ row[m] # Absent
    /\ Change({m}, "edited", a, [n \in {m} |-> [row[n] EXCEPT !.target = t]])

Next ==
  \/ \E ms \in SUBSET Mappings, a \in Actors \cup {Null} : Suggest(ms, a)
  \/ \E ms \in SUBSET Mappings, a \in Actors : Confirm(ms, a)
  \/ \E m \in Mappings, a \in Actors : Reject(m, a) \/ Retire(m, a) \/ Edit(m, a)

Spec == Init /\ [][Next]_vars
=============================================================================
