SPECIFICATION FairSpec
CONSTANTS
  r1 = r1
  r2 = r2
  s1 = s1
  s2 = s2
  s3 = s3
  None = None
  Replica <- MCReplica
  Session <- MCSession
  Faults <- FaultKind
  MaxFaults = 2
INVARIANTS
  TypeOK
  LiveLeaderHoldsKey
  AtMostOneBackedLeader
  LeakedSessionHoldsKey
PROPERTIES
  ImplementsLeadership
  KeyLeavesLiveSessionOnlyByRelease
  StaleLeaderStepsDown
  LeadershipRecoversUnlessLeaked
CHECK_DEADLOCK FALSE
