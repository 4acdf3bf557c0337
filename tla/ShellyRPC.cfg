SPECIFICATION FairSpec
CONSTANTS
  c1 = c1
  c2 = c2
  Call <- TwoCalls
  MaxConnections = 2
INVARIANTS
  AnswerIsOwnAndFresh
  ExecutedOncePerConnection
PROPERTIES
  EveryCallReturns
CHECK_DEADLOCK FALSE
