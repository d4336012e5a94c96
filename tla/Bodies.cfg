SPECIFICATION FairBodiesSpec
CONSTANTS
  Readers = {r1, r2}
  NoReader = NoReader
  MaxChunks = 2
  MaxReads = 5
  HasPull = TRUE
  Objects = {o1, o2}
  NoObject = NoObject
  ScriptReads = 1
INVARIANTS
  BodiesTypeOK
  BodyIsWhole
  OneConsumes
PROPERTIES
  EndedStreamEndsText
CHECK_DEADLOCK FALSE
