SPECIFICATION Spec
CONSTANTS
  Wrap = 5
  SERIALBUFFERSIZE = 3
  Named = 1
  Encapsulated = 2
  NamedLength = 2
  NamedPayloads <- MCNamed
  Wipes <- MCWipes
  Texts <- MCTexts
  MaxFaults = 1
INVARIANTS
  HandledWasSent
  CleanHandled
  TextWhole
