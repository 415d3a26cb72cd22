SPECIFICATION MCSpec
CHECK_DEADLOCK FALSE
CONSTANTS
  p1 = p1
  p2 = p2
  alice = alice
  bot = bot
  engine = engine
  ka = ka
  kb = kb
  k1 = k1
  k2 = k2
  k3 = k3
  k4 = k4
  k5 = k5
  k6 = k6
  k7 = k7
  k8 = k8
  k9 = k9
  id1 = id1
  id2 = id2
  id3 = id3
  id4 = id4
  gen = gen
  bytes1 = bytes1
  bytes2 = bytes2
  NoKey = NoKey
  NoPin = NoPin
  NoBytes = NoBytes
  NoScope = NoScope
  Never = Never
  NoParent = NoParent
  System = System
  GenesisKey = GenesisKey
  Singleton = Singleton
  Menus <- AllMenus
  MaxVersion = 4
  MaxNow <- Clock
  Machines = {"submit", "sweep", "originate", "context"}
  Candidates <- AllCandidates
  Budgets <- AllBudgets
  Scripts <- AllScripts
  Entries <- AllEntries
  Paths <- AllPaths
INVARIANTS
  EventsJustified
  AnswersHold
  RowsAgree
  OrderPinned
  ContextAgrees
PROPERTIES
  ActsOnEvidence
  SilentAttemptsBuried
