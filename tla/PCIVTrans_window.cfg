SPECIFICATION FairSpec
CONSTANTS
  Window = 16
  StreamInfoLen = 2
  DmaAlign = 2
  NChn = 2
  Encoders = {0, 1}
  VdecChn <- Identity
  FrameLens <- LargeAndSmall
  FrameMod = 1
  MaxStreamCnt = 1
  PortCap = 2
  MsgCap = 2
  MaxCoalesce = 2
  VBBlkCnt = 1
  GarbageMsgs <- MCGarbage
  InitFaults = FALSE
  ThreadFaults = FALSE
INVARIANTS
  NoOverwrite
  StopAndWait
  RoomWhileRunning
  IInv
PROPERTIES
  RecvReturns
