CONSTANTS
  Files = {f1, f2}
  MaxChunks = 2
  NumCalls = 2
  MaxFiles = 2
  MaxTasks = 2
  NumConns = 2
  NumEvents = 2
SPECIFICATION FairSpec
INVARIANTS
  UInv
PROPERTIES
  ProtocolSpec
  StartedIsCompleted
CHECK_DEADLOCK FALSE
