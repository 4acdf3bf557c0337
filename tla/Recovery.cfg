SPECIFICATION FairSpec
CONSTANTS
  base = base
  sub = sub
  deep = deep
  a = a
  b = b
  c = c
  File <- MCFile
  Dir <- MCDir
  Root = base
  In <- MCIn
  Name <- MCName
  MarkedName <- MCMarkedName
  Backup <- MCBackup
  PageSize = 2
  Permits = 2
  MaxRuns = 2
  MaxFaults = 2
INVARIANTS
  RunSettlesEveryFile
PROPERTIES
  RunEnds
  OnlyDamagedFilesChange
CHECK_DEADLOCK FALSE
