SPECIFICATION Spec
CONSTANTS
  FetchTasks = {f1, f2}
  ScheduledTasks = {}
  MaxTimers = 1
  Works = {}
  MaxListeners = 1
  MaxOps = 0
  TasksFail = TRUE
  HostDrops = FALSE
  Unprintable = FALSE
  Script = Script
  NoTask = NoTask
INVARIANTS
  Isolation
CHECK_DEADLOCK FALSE
