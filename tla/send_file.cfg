SPECIFICATION Spec
CONSTANTS
  ChunkSize = 2
  MaxSize = 5
  Bytes = {1, 2}
  Hole = 0
  MaxEdits = 1
  MaxMoves = 1
INVARIANTS
  TypeOK
  
  NoMixture
  
CHECK_DEADLOCK FALSE
