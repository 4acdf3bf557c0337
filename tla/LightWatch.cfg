SPECIFICATION FairSpec
CONSTANTS
  l1 = l1
  l2 = l2
  w1 = w1
  w2 = w2
  None = None
  Light <- OneLight
  Watcher <- MCWatcher
  Healthy <- OneWatcher
  Faults = {"read", "outage"}
  lightChangedBuffer = 1
  subscriberBuffer = 1
  MaxChanges = 2
  MaxInFlight = 1
INVARIANTS
  SubscribersOpen
  MissesAccountedFor
PROPERTIES
  PublishedInOrder
  ShutdownEndsWatches
CHECK_DEADLOCK FALSE
