SPECIFICATION HomeSpec
CONSTANTS
  l1 = l1
  w1 = w1
  None = None
  Unknown = Unknown
  Light <- OneLight
  Watcher <- OnePage
  Healthy <- OnePage
  Faults = {"read"}
  lightChangedBuffer = 1
  subscriberBuffer = 1
  MaxChanges = 2
  MaxInFlight = 1
  MaxPosts = 1
INVARIANTS
  SnapshotMissesNothing
PROPERTIES
  PageCatchesUp
  NothingLeftBehind
CHECK_DEADLOCK FALSE
