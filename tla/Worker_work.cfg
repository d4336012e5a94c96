SPECIFICATION Spec
CONSTANTS
  FetchTasks = {f1}
  ScheduledTasks = {s1}
  MaxTimers = 0
  Works = {p1, p2}
  MaxListeners = 2
  MaxOps = 1
  TasksFail = TRUE
  HostDrops = FALSE
  Unprintable = FALSE
  Script = Script
  NoTask = NoTask
INVARIANTS
  WorkerTypeOK
  FetchDrainsItsOwnWork
  OkMeansSettled
  ScheduledSuccessMeansWorkDone
  AnsweredDoesNotFail

CHECK_DEADLOCK FALSE
