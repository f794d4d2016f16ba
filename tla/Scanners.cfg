CONSTANTS
  Disks = {d1, d2}
  Devices = {v1, v2}
  MaxScans = 2
  NumPosts = 2
  MaxActs = 8
  NoName = NoName
SPECIFICATION Spec
INVARIANTS
  TypeOK
  SavedStaySaved
  AnswersAreTrue
PROPERTY ScanLeadsOn
CHECK_DEADLOCK FALSE
