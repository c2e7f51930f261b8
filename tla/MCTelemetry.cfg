SPECIFICATION FairSpec
CONSTANTS
  Speeds <- MCSpeeds
  Altitudes <- MCAltitudes
  Voltages <- MCVoltages
  Angles <- MCAngles
  ShortMax = 32767
  Overflowed <- MCOverflowed
  MaxWire = 2
  MaxFaults = 2
INVARIANTS
  ShownIsLast
  ZeroAfterExit
PROPERTIES
  Repaired
