SPECIFICATION Spec
CONSTANTS
  Inputs <- MCInputs
  Idle <- MCIdle
  Pad <- MCPad
  Delay = 2
  TickMod = 16
  LowMod = 8
  CrcPeriod = 2
  ResumeGap = 3
  NChunks = 2
  CrcParts = {1}
  ByteMod = 1
  WaitMax = 2
  HoldMax = 2
  PendMax = 2
  MaxTick = 18
  MaxDrift = 0
  DriftSites <- AllSites
  MaxLost = 0
  MayLeave = FALSE
INVARIANTS InputAgreement NoSpuriousResync
