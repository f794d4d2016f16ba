CONSTANTS
  NumRequests = 3
  IncomingCap = 1
  OutgoingCap = 1
SPECIFICATION Spec
INVARIANTS
  TypeOK
  HandledInOrder
  LeavesChannelOfItsId
PROPERTIES
  TeardownIsFinal
  GoroutinesEnd
CHECK_DEADLOCK FALSE
