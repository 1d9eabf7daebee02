SPECIFICATION ScriptSpec
CONSTANTS
  Clients <- MCClients
  Names <- MCNames
  None = None
  Setups <- MCSetups
  PerIP = 8
  CrcRows = 64
INVARIANT OnlySeatsVary
INVARIANT SameTranscript
