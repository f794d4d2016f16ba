SPECIFICATION SessionSpec
CONSTANTS
  Users = {u1, u2}
  AccessLife = 1
  RefreshLife = 2
  RememberLife = 3
  MaxTime = 3
  MaxRequests = 2
  NumVisits = 3
  None = None
INVARIANTS SessionTypeOK ShownIsLoggedIn SessionEnds CurrentHasJoined
PROPERTIES AppSettles
CHECK_DEADLOCK FALSE
