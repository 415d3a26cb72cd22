CHECK_DEADLOCK FALSE
SPECIFICATION MCSpec
CONSTANTS
  Deliveries = {1}
  Requests = {"r1"}
  Connections = {1, 2}
  DELIVERED_COMMANDS = 1
  Environments <- Progress
INVARIANT
  StartsAccounted
PROPERTY
  CommandsConclude
