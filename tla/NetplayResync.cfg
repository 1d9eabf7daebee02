SPECIFICATION Spec
CONSTANTS
  Inputs <- MCInputs
  Idle <- MCIdle
  Pad <- MCPad
  Delay = 1
  TickMod = 16
  LowMod = 4
  CrcPeriod = 2
  ResumeGap = 2
  NChunks = 2
  CrcParts = {1}
  ByteMod = 1
  WaitMax = 2
  HoldMax = 2
  PendMax = 1
  MaxTick = 8
  MaxDrift = 1
  DriftSites <- GuestSite
  MaxLost = 0
  MayLeave = FALSE
INVARIANTS InputAgreement StateAgreement PushesBounded
           DivergenceDetected NoMutualStall
PROPERTIES NoTornTick ReplaysOneLog
