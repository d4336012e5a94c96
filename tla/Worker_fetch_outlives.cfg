SPECIFICATION Spec
CONSTANTS
  FetchTasks = {f1, f2}
  ScheduledTasks = {}
  MaxTimers = 0
  Works = {}
  MaxListeners = 1
  MaxOps = 1
  TasksFail = FALSE
  HostDrops = FALSE
  Unprintable = FALSE
  Script = Script
  NoTask = NoTask
INVARIANTS
  SuccessLeavesNothing
CHECK_DEADLOCK FALSE
