----------------------------- MODULE MCJobQueue -----------------------------
(* Small instances of JobQueue for TLC. *)
EXTENDS JobQueue, TLC

CONSTANTS o1, o2, n1, u1  \* job ids

\* One observe_source chain, one plain job, one job nobody can run.
MCKinds      == {"observe_source", "noop", "unknown"}
MCKindOf     == [j \in Jobs |-> IF j \in {o1, o2} THEN "observe_source"
                                ELSE IF j = n1 THEN "noop" ELSE "unknown"]
MCRegistered == {"observe_source", "noop"}
MCRecurring  == {"observe_source"}
=============================================================================
