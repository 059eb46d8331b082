----------------------------- MODULE Migrations -----------------------------
(***************************************************************************)
(* The five Alembic revisions (alembic/versions), as the sequences of      *)
(* operations that upgrade and downgrade perform.  Of a table they keep    *)
(* its foreign keys, of a CHECK the column it restricts; plain columns,    *)
(* indexes and unique constraints are left out.                            *)
(***************************************************************************)
EXTENDS Naturals, Sequences

\* A foreign key: the table referenced and what deleting there does here; the
\* last kind is a CASCADE of a column that may be NULL, as SET NULL's is.
Restricts(p) == <<p, "restrict">>
Cascades(p) == <<p, "cascade">>
SetsNull(p) == <<p, "set_null">>
CascadesIfSet(p) == <<p, "cascade_if_set">>

Create(t, fks) == [op |-> "create", table |-> t, fks |-> fks]
Owned(t, fks)  == Create(t, {Restricts("enterprise")} \cup fks)
Drop(t)        == [op |-> "drop", table |-> t]

\* A CHECK on column c of t; without: the values in use that it does not list.
Check(t, c)   == [op |-> "check", table |-> t, column |-> c, without |-> {}]
Recheck(t, c, without) == [op |-> "check", table |-> t, column |-> c, without |-> without]
Uncheck(t, c) == [op |-> "uncheck", table |-> t, column |-> c]

\* The helpers of app/core/migrations.py.
CreateFunction == [op |-> "create_function"]
DropFunction   == [op |-> "drop_function"]
Attach(t) == [op |-> "attach", table |-> t]
Detach(t) == [op |-> "detach", table |-> t]

Each(f(_), names) == [i \in DOMAIN names |-> f(names[i])]

-----------------------------------------------------------------------------
(* e86718091d04: foundational schema *)

RootTables == <<
  Create("enterprise", {}), Create("job", {}), Create("permission", {})>>

EnterpriseTables == <<
  Owned("audit_record", {}), Owned("capability", {}), Owned("observability_gap", {}),
  Owned("role", {}), Owned("secret", {}), Owned("user", {})>>

DependentTables == <<
  Create("capability_level_event", {Cascades("capability")}),
  Owned("promotion_request", {Cascades("capability")}),
  Create("refresh_token", {Cascades("user")}),
  Create("role_permission", {Cascades("permission"), Cascades("role")}),
  Create("user_role", {Cascades("role"), Cascades("user")})>>

FoundationDown == Each(Drop, <<
  "user_role", "role_permission", "refresh_token", "promotion_request",
  "capability_level_event", "user", "secret", "role", "observability_gap",
  "capability", "audit_record", "permission", "job", "enterprise">>)

-----------------------------------------------------------------------------
(* a6db370213ce: CHECK constraints of the enumerations *)

EnumChecks == <<
  Recheck("audit_record", "event_type", {"risk_dismissed"}),
  Check("audit_record", "verified"),
  Check("capability", "key"), Check("capability", "level"),
  Check("capability_level_event", "direction"),
  Check("capability_level_event", "from_level"),
  Check("capability_level_event", "to_level"),
  Check("capability_level_event", "trigger"),
  Check("enterprise", "active_execution_adapter"),
  Check("job", "status"),
  Check("observability_gap", "reason"), Check("observability_gap", "scope"),
  Check("promotion_request", "origin"),
  Check("promotion_request", "proposed_to_level"),
  Check("promotion_request", "status"),
  Check("secret", "purpose")>>

EnumChecksDown == <<
  Uncheck("secret", "purpose"),
  Uncheck("promotion_request", "status"),
  Uncheck("promotion_request", "proposed_to_level"),
  Uncheck("promotion_request", "origin"),
  Uncheck("observability_gap", "scope"), Uncheck("observability_gap", "reason"),
  Uncheck("job", "status"),
  Uncheck("enterprise", "active_execution_adapter"),
  Uncheck("capability_level_event", "trigger"),
  Uncheck("capability_level_event", "to_level"),
  Uncheck("capability_level_event", "from_level"),
  Uncheck("capability_level_event", "direction"),
  Uncheck("capability", "level"), Uncheck("capability", "key"),
  Uncheck("audit_record", "verified"), Uncheck("audit_record", "event_type")>>

-----------------------------------------------------------------------------
(* d8607cfff4ac: the append-only guard *)

GuardUp == <<CreateFunction>> \o Each(Attach, <<"audit_record", "capability_level_event">>)

GuardDown == Each(Detach, <<"audit_record", "capability_level_event">>) \o <<DropFunction>>

-----------------------------------------------------------------------------
(* a48910eab2cb: data sources and domain tables *)

ObservabilityTables == <<
  "item", "warehouse", "supplier", "stock_level", "item_supplier", "price",
  "lead_time", "purchase_order", "consumption", "production_demand",
  "quality_record">>

MasterTables == <<
  Owned("item", {}), Owned("supplier", {}), Owned("warehouse", {}),
  Owned("consumption", {Cascades("item"), CascadesIfSet("warehouse")}),
  Owned("data_source", {SetsNull("secret")})>>

RecordTables == <<
  Owned("item_supplier", {Cascades("item"), Cascades("supplier")}),
  Owned("lead_time", {Cascades("item"), Cascades("supplier")}),
  Owned("price", {Cascades("item"), Cascades("supplier")}),
  Owned("production_demand", {Cascades("item")}),
  Owned("purchase_order", {SetsNull("item"), CascadesIfSet("supplier")}),
  Owned("quality_record", {Cascades("item"), CascadesIfSet("supplier")}),
  Owned("stock_level", {Cascades("item"), CascadesIfSet("warehouse")})>>

MappingTables == <<
  Create("field_mapping", {Cascades("data_source")}),
  Create("source_field", {Cascades("data_source")}),
  Create("mapping_change_event", {Cascades("field_mapping")})>>

CheckObservability(t) == Check(t, "observability")

DomainChecks == <<
  Check("data_source", "kind"), Check("data_source", "connector_type"),
  Check("data_source", "health"),
  Check("field_mapping", "canonical_entity"), Check("field_mapping", "status"),
  Check("mapping_change_event", "action"),
  Check("purchase_order", "status"), Check("purchase_order", "origin")>>
  \o Each(CheckObservability, ObservabilityTables)
  \o <<Attach("mapping_change_event")>>

DomainDown == <<Detach("mapping_change_event")>> \o Each(Drop, <<
  "mapping_change_event", "source_field", "field_mapping", "stock_level",
  "quality_record", "purchase_order", "production_demand", "price", "lead_time",
  "item_supplier", "data_source", "consumption", "warehouse", "supplier", "item">>)

-----------------------------------------------------------------------------
(* ee988845269c: observation and analysis *)

AnalysisTables == <<
  Owned("explanation", {}),
  Owned("risk_finding", {SetsNull("user"), SetsNull("item"), SetsNull("supplier")}),
  Owned("sku_aggregate", {Cascades("item"), CascadesIfSet("warehouse")}),
  Owned("observation_signal",
        {Restricts("data_source"), SetsNull("item"), SetsNull("supplier")}),
  Create("risk_signal_link", {Cascades("observation_signal"), Cascades("risk_finding")})>>

AnalysisChecks == <<
  Check("explanation", "subject_type"), Check("explanation", "generated_by"),
  Check("risk_finding", "risk_type"), Check("risk_finding", "severity"),
  Check("risk_finding", "status"), Check("risk_finding", "detected_by"),
  Check("risk_finding", "ai_status"), Check("observation_signal", "signal_type"),
  Attach("observation_signal"),
  Uncheck("audit_record", "event_type"), Check("audit_record", "event_type")>>

AnalysisDown ==
  << Uncheck("audit_record", "event_type"),
     Recheck("audit_record", "event_type", {"risk_dismissed"}),
     Detach("observation_signal") >>
  \o Each(Drop, <<"risk_signal_link", "observation_signal", "sku_aggregate",
                  "risk_finding", "explanation">>)

-----------------------------------------------------------------------------
\* The chain of down_revisions: 1 is e86718091d04, 5 is ee988845269c.
Upgrading == <<
  RootTables \o EnterpriseTables \o DependentTables,
  EnumChecks,
  GuardUp,
  MasterTables \o RecordTables \o MappingTables \o DomainChecks,
  AnalysisTables \o AnalysisChecks>>
Downgrading == <<FoundationDown, EnumChecksDown, GuardDown, DomainDown, AnalysisDown>>
=============================================================================
