SPECIFICATION Spec
CONSTANTS
  COLS = 30
  ROWS = 16
  POSITIONS_SETTINGS = 2
  FieldOrder <- MCOrder
  Places <- SomePlaces
  Default <- MCDefault
  MaxWire = 1
  MaxStarts = 2
INVARIANTS
  PlacedAsConfigured
  VisibleOnScreen
