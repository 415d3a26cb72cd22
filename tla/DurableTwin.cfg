SPECIFICATION MCSpec
CHECK_DEADLOCK FALSE
CONSTANTS
  Machines = {"blobs"}
  Contents = {"d1"}
  Uploaders = {"u1", "u2"}
  Evidence = {"e1"}
  Environments <- TwoCommits
  RecoveryEnvironments <- AllDamage
  SchemaEnvironments <- AllAdministrators
INVARIANT
  CommittedReadable
