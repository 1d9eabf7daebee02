SPECIFICATION LinkSpec
CONSTANTS
  Frames <- MCFrames
  Junk <- MCJunk
  Flen <- MCFlen
  MaxLen = 6
  RecvMax = 6
  MaxTx = 9
  SockBuf = 4
  ReadMax = 3
  RingSize = 8
  MaxSent = 4
  MaxLost = 1
PROPERTY Delivered Flows RingFits
CHECK_DEADLOCK FALSE
