CONSTANTS
  movie = movie
  song = song
  NoBuffer = NoBuffer
  Tasks <- MCTasks
  Names <- MCNames
  Namings <- MCNamings
  Total <- MCTotal
SPECIFICATION Spec
INVARIANTS
  TypeOK
  CountsAreSafe
PROPERTY EveryChunkSettles
CHECK_DEADLOCK FALSE
