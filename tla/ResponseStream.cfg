SPECIFICATION FairSpec
CONSTANTS
  Tasks = {t1, t2}
  NoTask = NoTask
  MaxChunks = 2
  Capacity = 1
  StreamsFail = TRUE
  HostDrops = TRUE
INVARIANTS
  CollectTypeOK
  BodyIsItsStream
  ReadsGoThroughTheGlobal
PROPERTIES
  CollectionEnds
CHECK_DEADLOCK FALSE
