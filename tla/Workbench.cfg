SPECIFICATION MCSpec
CONSTANTS
  Machines = {"console", "feed", "form", "lens", "hall", "pages"}
  Menus <- SmallPlans
  Queries = {"", "a"}
  PrefixOf <- SmallPrefixOf
  MAX_DIGITS = 2
  CLOCK = 1
INVARIANTS
  ActsOnConfirmed
  ViewsAreHonest
  EditsBuildOnWhatWasSeen
PROPERTY
  NothingOverwritten
CHECK_DEADLOCK FALSE
