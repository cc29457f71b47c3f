\* The next neighbour fails, e.g. the host process is killed.
CONSTANTS
  NumRxRingEntries = 3
  NumTxRingEntries = 3
  WsQueueSize = 3
  AppRxMsgBatchSize = 1
  TxBatchSize = 1
  RxBatchSize = 1
  Senders = {"prior", "next"}
  Failing = {"next"}
  PostFaults = {}
  Throws = TRUE
SPECIFICATION Spec
INVARIANT SentIsReceived
