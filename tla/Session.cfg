SPECIFICATION SesSpec
CONSTANTS
  Clients <- MCClients
  Names = {n1, n2}
  None = None
  Setups <- MCSetups
  PerIP = 8
  CrcRows = 64
  Resettable = {n1}
  MaxReset = 1
  MaxAhead = 1
INVARIANT ScreenTruth
PROPERTY RigMeets
CHECK_DEADLOCK FALSE
