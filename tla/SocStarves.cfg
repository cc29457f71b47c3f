\* Only the prior block sends, and stops for good once all buffers are in use.
CONSTANTS
  NumRxRingEntries = 3
  NumTxRingEntries = 3
  WsQueueSize = 3
  AppRxMsgBatchSize = 1
  TxBatchSize = 1
  RxBatchSize = 1
  Senders = {"prior"}
  Failing = {}
  PostFaults = {}
  Throws = TRUE
SPECIFICATION FairSpec
PROPERTY NeverStarves
