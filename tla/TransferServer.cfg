CONSTANTS
  NumWorkers = 2
  QueueCap = 1
  TotalChunks = 4
  NumBlobs = 5
  IncomingCap = 1
  OutgoingCap = 2
SPECIFICATION Spec
INVARIANTS
  TypeOK
  NeverSendOnClosedQueue
  ChunksAccountedFor
  CompleteArrivesLast
PROPERTY UploadSettles
CHECK_DEADLOCK FALSE
