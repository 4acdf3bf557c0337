SPECIFICATION MCSpec
CONSTANTS
  p1 = p1
  p2 = p2
  v1 = v1
  v2 = v2
  v3 = v3
  JFK = JFK
  SXF = SXF
  n1 = n1
  n2 = n2
  s1 = s1
  s2 = s2
  r1 = r1
  r2 = r2
  r3 = r3
  j1 = j1
  j2 = j2
  Viewer <- MCViewer
  Reading <- MCReading
  NoReading = NoReading
  tempUnknown = tempUnknown
  tempPeriod = 3
  QueryTimeout = 1
  MaxTime = 7
  MaxPollers = 1
  MaxPromFaults = 3
  Visitor <- MCVisitor
  NoRefresh = NoRefresh
  CacheFor = 2
  LastSecond = 6
  Airport <- MCAirport
  Listed <- MCListed
  closedAirports <- MCClosed
  Flight <- MCFlight
  MaxFlightFaults = 2
  MaxLists = 3
  Node <- MCNode
  Proxy = Proxy
  SnapshotCall <- MCSnapshotCall
  Millisecond <- MCMillisecond
  NoKey = NoKey
  MaxFailovers = 2
  Reader <- MCReader
  NoReader = NoReader
  Job <- MCJob
  NoJob = NoJob
INVARIANTS
  TemperatureIsShared
  CacheKeepsNewest
  ShownIsComplete
  CompletedMeansStored
  OneConsulClient
  OkMeansAllReceived
  
PROPERTIES
  VisitorsAnswered
  StartUpEnds
CHECK_DEADLOCK FALSE
