SPECIFICATION Spec
CONSTANTS
  FetchTasks = {f1}
  ScheduledTasks = {s1}
  MaxTimers = 2
  Works = {p1}
  MaxListeners = 1
  MaxOps = 0
  TasksFail = TRUE
  HostDrops = TRUE
  Unprintable = TRUE
  Script = Script
  NoTask = NoTask
INVARIANTS
  ControlInv
  SuccessLeavesNothing
  OneSleepEach
  TimeoutsStayArmed
PROPERTIES
  ServiceSpec
  TimersKept
  RemovedStaysSilent
CHECK_DEADLOCK FALSE
