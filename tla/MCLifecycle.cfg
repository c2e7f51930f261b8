SPECIFICATION FairSpec
CONSTANTS
  COLS = 3
  ROWS = 2
  N = 1
  NumRects = 1
  Frames <- MCFrames
  CameraSizes <- MCCameras
  MaxWire = 2
  MaxTime = 2
  Losses = FALSE
  Ends = TRUE
INVARIANTS
  CleanAfterExit
PROPERTIES
  StopReturns
