------------------------------ MODULE MCSchema ------------------------------
(***************************************************************************)
(* Instance of Schema with the scripts of alembic/versions: the            *)
(* append-only tables, what they reference and the findings; a command may *)
(* lead from any revision to any other.                                    *)
(***************************************************************************)
EXTENDS Schema

Alembic == INSTANCE Migrations
MCUpgrades == Alembic!Upgrading
MCDowngrades == Alembic!Downgrading

MCKept == {"enterprise", "capability", "capability_level_event", "audit_record",
           "data_source", "field_mapping", "mapping_change_event", "item",
           "risk_finding", "observation_signal"}
MCGoals == 0..5
=============================================================================
