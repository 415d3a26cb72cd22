CHECK_DEADLOCK FALSE
SPECIFICATION Spec
CONSTANTS
  r1 = r1
  r2 = r2
  Deliveries <- TwoDeliveries
  Requests <- TwoRequests
  Connections <- TwoConnections
  DELIVERED_COMMANDS = 1
  Environments <- Races
SYMMETRY RequestSymmetry
INVARIANTS
  AppliedAtMostOnce
  AnswersAreTrue
  EvidenceKept
  AppliedInOrder
PROPERTIES
  SettledIsFinal
