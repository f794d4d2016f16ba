CONSTANTS
  c1 = c1
  c2 = c2
  c3 = c3
  fixed = fixed
  other = other
  None = None
  Conns <- MCConns
  Keys <- MCKeys
  ClientId <- MCClientId
  NumRequests = 2
SPECIFICATION Spec
CHECK_DEADLOCK FALSE
SYMMETRY Symmetry
INVARIANT OneChannelPerGroup
