SPECIFICATION Spec
CONSTANTS
  Peer = {p1, p2}
  Sender = {p1}
  NoClient = NoClient
  Bus = Bus
  maxClients = 2
  minId = 5
  TxSize = 3
  RxSize = 3
  WriteTimeout = 1
  Window = 1
  Lines <- MCLines
INVARIANTS
  TypeOK
  SocketsInSlots
  OutputFramed
