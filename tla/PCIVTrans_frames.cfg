SPECIFICATION Spec
CONSTANTS
  Window = 16
  StreamInfoLen = 2
  DmaAlign = 2
  NChn = 2
  Encoders = {0, 1}
  VdecChn <- Identity
  FrameLens <- LargeAndSmall
  FrameMod = 3
  MaxStreamCnt = 1
  PortCap = 1
  MsgCap = 1
  MaxCoalesce = 1
  VBBlkCnt = 1
  GarbageMsgs <- NoGarbage
  InitFaults = FALSE
  ThreadFaults = TRUE
INVARIANTS
  BlockParses
  HeldIffFull
  BlockOwned
PROPERTIES
  IsFrameStream
