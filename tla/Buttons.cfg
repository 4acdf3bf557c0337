SPECIFICATION MCSpec
CONSTANTS
  r1 = r1
  r2 = r2
  p1 = p1
  Replica <- MCReplica
  PID <- MCPID
  Expiry = 2
  MaxCopies = 3
  MaxPresses = 2
  MaxRestarts = 2
  rgb105 = rgb105
  rgb108 = rgb108
  plug = plug
  c1 = c1
  c2 = c2
  Call <- MCCall
  Absent = Absent
  NSpec = 2
  aquariumLow <- MCLow
  aquariumHigh <- MCHigh
  MaxBrightness = 3
  MaxOps = 3
  MaxLate = 1
INVARIANTS
  ButtonTypeOK
  AgainOnlyAfterSilence
  OneBelieverOneDispatch
  ScheduleInstalled
  PressesAlternate
PROPERTIES
  StableLeaderDispatches
CHECK_DEADLOCK FALSE
