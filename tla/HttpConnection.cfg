SPECIFICATION FairSpec
CONSTANTS
  Requests <- AllRequests
  MaxRequests = 2
  KeepAliveMax = 3
INVARIANTS
  TypeOK
  FramesAgree
  CloseAgreed
PROPERTIES
  ImplementsWorker
  RequestIsAnswered
  WorkerComesBack
CHECK_DEADLOCK FALSE
