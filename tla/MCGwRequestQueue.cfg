SPECIFICATION FairSpec
CONSTANTS
  Web = {w1, w2}
  Forget = {f1}
  QueueLen = 1
  MaxLen = 2
  NoMessage = NoMessage
INVARIANTS
  TypeOK
  RefcountIsHolders
  AnswerIsComplete
PROPERTIES
  IsRequestService
  AcceptedIsPerformed
  EveryMessageFreed
