SPECIFICATION FairBatcherSpec
CONSTANTS
  Reporters = {r1, r2}
  MaxSize = 2
  QueueSize = 2
  MaxEvents = 2
INVARIANTS BatcherTypeOK NothingLost
PROPERTIES SentAndClosed
CHECK_DEADLOCK FALSE
