SPECIFICATION Spec
CONSTANTS
  Parts = {"geometry", "fields", "message", "wire", "flight", "config"}
  COLS = 3
  ROWS = 2
  Picture <- SmallPicture
  FieldPlaces = {0, 225}
  Altitudes <- SomeAltitudes
  Speeds <- SomeSpeeds
  Voltages <- SomeVoltages
  Angles <- SomeAngles
  TextColumns = 4
  TextRows = 3
  TextPlaces = {0, 5, 11}
  Texts <- SomeTexts
  WireMessages <- AllMessages
  WireBuffer = 65
  \* satellites just enough and one too few, two places; six messages: arming, a fix, three
  \* heartbeats without the bit, and arming again
  GLITCHES = 2
  MINSATFIX = 5
  Satellites = {4, 5}
  Places = {2, 9}
  MaxLog = 6
  Columns = 30
  Files <- SomeFiles
  Known = {"Altitude", "Yaw"}
  Garbage = {9, 200}
  NoNumber = NoNumber
  NoText = NoText
INVARIANTS
  ObjectFramed
  NumbersRead
  MessageLaidOut
  MessagesRead
  ArmedAsReported
  HomeAndDistance
  CompletePlaced
PROPERTIES
  ParsedToTheEnd
CHECK_DEADLOCK FALSE
