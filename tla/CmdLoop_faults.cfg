SPECIFICATION Spec
CONSTANTS
  MsgLen = 2
  TmpLen = 4
  PipeCap = 4
  IdMod = 3
  Types = {"START_TRANS", "QUERY_ADV7842", "SHUTDOWN"}
  PortFaults = TRUE
  BufCap = 4
  Garbage = {"START_TRANS", "ACK"}
  Polite = FALSE
INVARIANTS
  TypeOK
  RepliesOnce
  RepliesWhole
PROPERTIES
  HeardInOrder
