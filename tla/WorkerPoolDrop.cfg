CONSTANTS
  NumWorkers = 2
  QueueCap = 1
  TotalChunks = 4
  NumBlobs = 4
SPECIFICATION FairSpec
PROPERTY NoCompletionDeadlock
CHECK_DEADLOCK FALSE
