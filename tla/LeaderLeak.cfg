SPECIFICATION FairSpec
CONSTANTS
  r1 = r1
  r2 = r2
  s1 = s1
  s2 = s2
  s3 = s3
  None = None
  Replica <- MCReplica
  Session <- MCSession
  Faults <- OnlyMonitorFault
  MaxFaults = 1
PROPERTIES
  LeadershipRecovers
CHECK_DEADLOCK FALSE
