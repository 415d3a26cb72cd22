SPECIFICATION MCSpec
CHECK_DEADLOCK FALSE
CONSTANTS
  Machines = {"recovery"}
  Contents = {"d1"}
  Uploaders = {"u1", "u2"}
  Evidence = {"e1"}
  Environments <- AllUploads
  RecoveryEnvironments <- Sweeping
  SchemaEnvironments <- AllAdministrators
INVARIANT
  CheckpointHasRecords
