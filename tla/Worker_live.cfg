SPECIFICATION FairSpec
CONSTANTS
  FetchTasks = {f1}
  ScheduledTasks = {s1}
  MaxTimers = 1
  Works = {p1}
  MaxListeners = 1
  MaxOps = 0
  TasksFail = TRUE
  HostDrops = TRUE
  Unprintable = FALSE
  Script = Script
  NoTask = NoTask
INVARIANT
  IntervalsStayArmed
PROPERTIES
  WorkDoesNotDelayTheResponse
  SettledWorkEndsTheTask

CHECK_DEADLOCK FALSE
