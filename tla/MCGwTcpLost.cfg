SPECIFICATION FairSpec
CONSTANTS
  Addr = {a1, a2}
  Unknown = Unknown
  Configured = a1
  Kinds <- MCKinds
  NoClient = NoClient
  Bus = Bus
  Server = Server
  ConTimeout = 1
  WriteTimeout = 1
  MaxSockets = 2
  MaxLost = 2
  TxSize = 2
  RxSize = 2
  Lines = 1
PROPERTIES
  Reconnects
