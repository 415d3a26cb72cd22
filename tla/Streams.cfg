SPECIFICATION MCSpec
CONSTANTS
  Streams = {"s1", "s2"}
  MaxSubscriptions = 2
  SUBSCRIPTION_BATCH_ROWS = 2
  BATCH_QUEUE_DEPTH = 1
  RESPONSE_QUEUE_DEPTH = 1
  Limits <- SmallLimits
  Machines = {"subscription", "connection", "path"}
INVARIANTS
  ConsumersMissNothing
  PipeInStep
  ServingReachable
PROPERTY
  NobodyWaitsForGood
CHECK_DEADLOCK FALSE
