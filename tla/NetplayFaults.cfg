SPECIFICATION FairSpec
CONSTANTS
  Inputs <- MCInputs
  Idle <- MCIdle
  Pad <- MCPad
  Delay = 1
  TickMod = 16
  LowMod = 4
  CrcPeriod = 2
  ResumeGap = 2
  NChunks = 1
  CrcParts = {1}
  ByteMod = 2
  WaitMax = 3
  HoldMax = 2
  PendMax = 1
  MaxTick = 2
  MaxDrift = 1
  DriftSites <- AllSites
  MaxLost = 0
  MayLeave = TRUE
INVARIANT TypeOK
PROPERTIES PlaysOnOrParks ReplaysOneLog
