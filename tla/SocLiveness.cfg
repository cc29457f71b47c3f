\* The default build. Both directions, between neighbours that stay alive; any post may fail.
CONSTANTS
  NumRxRingEntries = 3
  NumTxRingEntries = 3
  WsQueueSize = 3
  AppRxMsgBatchSize = 1
  TxBatchSize = 1
  RxBatchSize = 1
  Senders = {"prior", "next"}
  Failing = {}
  PostFaults = {"send", "recv"}
  Throws = TRUE
SPECIFICATION FairSpec
PROPERTIES
  RunEnds
  ReturnDelivery
  BatchDelivery
