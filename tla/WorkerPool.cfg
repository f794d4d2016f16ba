CONSTANTS
  NumWorkers = 2
  QueueCap = 1
  TotalChunks = 3
  NumBlobs = 4
SPECIFICATION FairSpec
INVARIANTS
  IInv
  CrashOnlyOnSurplus
  AnnouncedExactly
PROPERTIES
  PromiseSpec
  CompletesUnlessChunkMissing
CHECK_DEADLOCK FALSE
