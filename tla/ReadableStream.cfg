SPECIFICATION Spec
CONSTANTS
  Readers = {r1, r2, r3}
  NoReader = NoReader
  MaxChunks = 3
  MaxReads = 4
  HasPull = TRUE
INVARIANTS
  StreamTypeOK
  NoLostWakeup
  ReadsInOrder
  NoChunkLost
PROPERTY
  IsSimple
CHECK_DEADLOCK FALSE
