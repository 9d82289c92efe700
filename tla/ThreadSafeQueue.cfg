CONSTANTS
  Poppers = {p1, p2, p3}
  Items = {a, b}
  ThresIdle = 3
  MaxList = 3
SPECIFICATION FairQueueSpec
INVARIANTS QueueTypeOK CountersExact NoStrandedItem NoSleeperAfterClose
PROPERTIES ItemsKeepFlowing CloseReleasesAll
CHECK_DEADLOCK FALSE
