SPECIFICATION MCSpec
CHECK_DEADLOCK FALSE
CONSTANTS
  Machines = {"blobs", "recovery", "registry", "schema", "figures"}
  Contents = {"d1"}
  Uploaders = {"u1", "u2"}
  Evidence = {"e1"}
  Environments <- AllUploads
  RecoveryEnvironments <- AllDamage
  SchemaEnvironments <- AllAdministrators
INVARIANTS
  BlobsAreKept
  RecoveryIsTruthful
  RecordMatchesSchema
  FiguresAreTrue
PROPERTIES
  RemovalIsLawful
  BarrierHolds
