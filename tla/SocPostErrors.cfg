\* A build without NICC_PRINT_ERROR: posts may fail, in part or altogether, and
\* the wrapper goes on.
CONSTANTS
  NumRxRingEntries = 3
  NumTxRingEntries = 3
  WsQueueSize = 3
  AppRxMsgBatchSize = 1
  TxBatchSize = 1
  RxBatchSize = 1
  Senders = {"prior", "next"}
  Failing = {}
  PostFaults = {"send", "recv"}
  Throws = FALSE
SPECIFICATION FairSpec
INVARIANT NeverOverwritten
PROPERTY RunEnds
