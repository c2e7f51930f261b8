SPECIFICATION FairSpec
CONSTANTS
  MaxCalls = 3
  MaxConns = 6
  attemptsMax = 2
  MaxTroubles = 3
INVARIANTS
  OwnAnswer
  RunsBounded
  SmoothOnce
PROPERTIES
  Return
CHECK_DEADLOCK FALSE
