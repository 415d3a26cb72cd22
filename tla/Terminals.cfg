SPECIFICATION MCSpec
CONSTANTS
  Cells = {1, 2}
  Sizes = {1, 2}
  RETAINED_BATCHES = 1
  BROADCAST_CAPACITY = 1
  DELTA_CHANNEL_CAPACITY = 1
  RAW_RETAINED_EVENTS = 2
  BATCH_QUEUE_DEPTH = 1
  SocketFrames = 1
  Environments <- SmallEnvironments
  Machines = {"hub", "terminal", "workspace"}
  MAX_GLYPH = 8
INVARIANTS
  MirrorTrue
  ScreensAgree
  ArrangementSound
PROPERTIES
  RetiredIsOver
  RawNeverSkips
  PanesSettle
CHECK_DEADLOCK FALSE
