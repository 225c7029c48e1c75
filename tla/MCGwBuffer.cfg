SPECIFICATION Spec
CONSTANTS
  Byte <- MCByte
  Delimiter = "nl"
  BufferSize = 4
  MessageSize = 4
  Chunks <- MCChunks
INVARIANTS
  TypeOK
  TwoTurnsSuffice
PROPERTIES
  RingIsFifo
  CallsKeepPromise
