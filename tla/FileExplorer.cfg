SPECIFICATION Spec
CONSTANTS
  sub = sub
  doc = doc
  new = new
  new1 = new1
  folder = folder
  dev = dev
  c1 = c1
  c2 = c2
  None = None
  Names <- MCNames
  Contents <- MCContents
  FirstTree <- MCFirstTree
  Places <- MCPlaces
  NewNames <- MCNewNames
  TypedPaths <- MCTyped
  DiskPath <- MCDiskPath
  HomeRoot <- MCHomeRoot
  NumGestures = 3
  NumListings = 2
INVARIANTS TypeOK LastAskedIsTrue ShowsWhereItIs RenamesFromItsDirectory
PROPERTIES OnlyByRequest KeepsHistory
CHECK_DEADLOCK FALSE
