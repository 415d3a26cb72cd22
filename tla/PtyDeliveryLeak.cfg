CHECK_DEADLOCK FALSE
SPECIFICATION Spec
CONSTANTS
  r1 = r1
  r2 = r2
  Deliveries <- OneDelivery
  Requests <- OneRequest
  Connections <- TwoConnections
  DELIVERED_COMMANDS = 1
  Environments <- OneBreak
INVARIANT
  SettledReplaysAnswered
