SPECIFICATION Spec
CONSTANTS
  Tasks = {t1, t2}
  NoTask = NoTask
  MaxChunks = 1
  Capacity = 1
  StreamsFail = TRUE
  HostDrops = FALSE
INVARIANTS
  FailureIsOwn
CHECK_DEADLOCK FALSE
