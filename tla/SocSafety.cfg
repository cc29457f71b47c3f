\* The default build. Both directions; either neighbour may fail, and any post.
CONSTANTS
  NumRxRingEntries = 3
  NumTxRingEntries = 3
  WsQueueSize = 3
  AppRxMsgBatchSize = 1
  TxBatchSize = 1
  RxBatchSize = 1
  Senders = {"prior", "next"}
  Failing = {"prior", "next"}
  PostFaults = {"send", "recv"}
  Throws = TRUE
SPECIFICATION Spec
INVARIANTS
  TypeOK
  RecvAgreement
  SendAgreement
  RingOrder
  Ownership
  SentIsReceivedFromLive
  WorkerLosesNothing
  FlushNeverWaits
PROPERTY RelaySpec
