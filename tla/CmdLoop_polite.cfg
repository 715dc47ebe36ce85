SPECIFICATION FairSpec
CONSTANTS
  MsgLen = 3
  TmpLen = 7
  PipeCap = 4
  IdMod = 2
  Types = {"START_TRANS", "STOP_TRANS", "SHUTDOWN", "REBOOT"}
  PortFaults = FALSE
  BufCap = 7
  Garbage = {"ACK"}
  Polite = TRUE
INVARIANTS
  DescriptorsOwned
  PoliteHeard
PROPERTIES
  SignalEnds
  ShutdownObeyed
