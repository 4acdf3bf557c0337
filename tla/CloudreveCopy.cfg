SPECIFICATION FairSpec
CONSTANTS
  small = small
  large = large
  larger = larger
  dir = dir
  Object <- MCObject
  Key <- MCKey
  Prefix <- MCPrefix
  Absent = Absent
  Foreign = Foreign
  Pages = 2
  PageOf <- MCPageOf
  Size <- MCSize
  simpleUploadMaxBytes = 2
  ServerChunkSize <- MCChunkSize
  Concurrency = 2
  MaxRuns = 2
  MaxFaults = 2
INVARIANTS
  CountsAddUp
  CleanRunCopiesAll
PROPERTIES
  RunEnds
CHECK_DEADLOCK FALSE
