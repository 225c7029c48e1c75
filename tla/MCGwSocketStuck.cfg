SPECIFICATION FairSpec
CONSTANTS
  Peer = {p1, p2}
  Sender = {}
  NoClient = NoClient
  Bus = Bus
  maxClients = 1
  minId = 5
  TxSize = 3
  RxSize = 3
  WriteTimeout = 1
  Window = 1
  Lines <- MCLines
PROPERTIES
  StuckClientIsClosed
