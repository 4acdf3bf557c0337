SPECIFICATION Spec
CONSTANTS
  l1 = l1
  l2 = l2
  w1 = w1
  w2 = w2
  None = None
  Light <- MCLight
  Watcher <- OneWatcher
  Healthy <- OneWatcher
  Faults = {}
  lightChangedBuffer = 2
  subscriberBuffer = 1
  MaxChanges = 1
  MaxInFlight = 2
INVARIANTS
  NeverMissesAChange
CHECK_DEADLOCK FALSE
