SPECIFICATION Spec
CONSTANTS
  COLS = 3
  ROWS = 2
  N = 2
  NumRects = 2
  Frames <- MCFrames
  CameraSizes <- MCCameras
  MaxWire = 2
  MaxTime = 1
  Losses = FALSE
  Ends = FALSE
INVARIANTS
  NoStaleRects
CHECK_DEADLOCK FALSE
