SPECIFICATION Spec
CONSTANTS
  FetchTasks = {f1}
  ScheduledTasks = {}
  MaxTimers = 0
  Works = {p1, p2}
  MaxListeners = 1
  MaxOps = 0
  TasksFail = FALSE
  HostDrops = FALSE
  Unprintable = FALSE
  Script = Script
  NoTask = NoTask
INVARIANTS
  OkMeansAllSettled
CHECK_DEADLOCK FALSE
