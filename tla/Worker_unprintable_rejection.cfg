SPECIFICATION Spec
CONSTANTS
  FetchTasks = {f1}
  ScheduledTasks = {}
  MaxTimers = 0
  Works = {p1}
  MaxListeners = 1
  MaxOps = 0
  TasksFail = FALSE
  HostDrops = FALSE
  Unprintable = TRUE
  Script = Script
  NoTask = NoTask
INVARIANTS
  AnsweredDoesNotFail
CHECK_DEADLOCK FALSE
