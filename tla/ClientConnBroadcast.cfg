CONSTANTS
  NumRequests = 3
  IncomingCap = 1
  OutgoingCap = 1
SPECIFICATION Spec
INVARIANT BroadcastPutsBytes
CHECK_DEADLOCK FALSE
