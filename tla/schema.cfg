SPECIFICATION Spec
CONSTANTS
  Upgrades <- MCUpgrades
  Downgrades <- MCDowngrades
  Kept <- MCKept
  Goals <- MCGoals
INVARIANTS SchemaOfRevision OnlyDismissalsStopMigrations
PROPERTIES AppendOnlyRowsStay
