SPECIFICATION FairSpec
CONSTANTS
  MaxConns = 4
INVARIANTS
  SlotTellsThread
  NoneOutlivesStop
PROPERTIES
  StopReturnsOrHolds
CHECK_DEADLOCK FALSE
