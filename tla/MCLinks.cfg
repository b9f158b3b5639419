SPECIFICATION Spec
CONSTANTS
  NoFrame = NoFrame
  Sync0 = 170
  Sync1 = 85
  PayloadMax = 4
  Crc <- crc8_maxim
  Frames <- MCFrames
  NoiseBytes = {4, 5, 170}
  Bytes = {0, 1, 4, 5, 17, 32, 85, 119, 154, 170}
  NetTimeout = 2
  ClockMod = 8
  MaxLag = 1
  WaitingMax = 2
INVARIANTS
  TypeOK
  HandledIsIntact
  LossIsBounded
  MarkedIsRecent
PROPERTIES
  LostOnlyIfSilent
  IsFrameChannel
  Recovers
