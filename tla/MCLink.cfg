SPECIFICATION Spec
CONSTANTS
  COLS = 3
  ROWS = 2
  N = 2
  NumRects = 2
  Frames <- MCFrames
  CameraSizes <- MCCameras
  MaxWire = 2
  MaxTime = 1
  Losses = TRUE
  Ends = FALSE
INVARIANTS
  CacheMatchesOsd
  TrackerShown
  FailureShown
  DetectorShown
  ManualShown
  RectsOnScreen
