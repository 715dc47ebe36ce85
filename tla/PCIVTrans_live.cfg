SPECIFICATION FairSpec
CONSTANTS
  Window = 16
  StreamInfoLen = 2
  DmaAlign = 2
  NChn = 2
  Encoders = {0, 1}
  VdecChn <- Identity
  FrameLens <- WholeAndTooLong
  FrameMod = 1
  MaxStreamCnt = 1
  PortCap = 1
  MsgCap = 1
  MaxCoalesce = 1
  VBBlkCnt = 1
  GarbageMsgs <- NoGarbage
  InitFaults = FALSE
  ThreadFaults = FALSE
PROPERTIES
  CloseReturns
  LeftOverDrains
  EncodersServed
