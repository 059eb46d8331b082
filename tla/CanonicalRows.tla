--------------------------- MODULE CanonicalRows ---------------------------
(***************************************************************************)
(* What the canonical tables and the queue of recompute_aggregates jobs    *)
(* promise to the rest of the system, whatever sync_source goes through:   *)
(* rows never vanish, and the transaction that changes a watched attribute *)
(* of a row enqueues the recomputation of its item.                        *)
(***************************************************************************)
EXTENDS Integers

CONSTANTS Keys, RowIds, ItemKey, Watched, Values, Absent, None

VARIABLES rows, due

Items   == {ItemKey[k] : k \in Keys} \ {None}
RowSets == [RowIds -> Values \cup {Absent}]
Table   == [Keys -> RowSets]

Init == rows = [k \in Keys |-> [r \in RowIds |-> Absent]] /\ due = {}

Changed(k) == \E r \in RowIds : rows[k][r] # Absent /\ rows'[k][r] # rows[k][r]

\* A sync commits: rows stay, and the items of the watched rows it changed are
\* named in the job that it enqueues.
Commit(is) ==
  /\ rows' \in Table
  /\ \A k \in Keys, r \in RowIds : rows[k][r] # Absent => rows'[k][r] # Absent
  /\ \A k \in Watched : Changed(k) => ItemKey[k] \in is
  /\ due' = IF is = {} THEN due ELSE due \cup {is}

\* A job is claimed.
Take(is) == is \in due /\ due' = due \ {is} /\ UNCHANGED rows

Next == \/ \E is \in SUBSET Items : Commit(is)
        \/ \E is \in due : Take(is)

Spec == Init /\ [][Next]_<<rows, due>>
=============================================================================
