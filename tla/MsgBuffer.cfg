SPECIFICATION Spec
CONSTANTS
  Bytes = {0, 1}
  Cap = 5
  Chunks <- ShortChunks
INVARIANTS
  TypeOK
PROPERTIES
  IsFifo
