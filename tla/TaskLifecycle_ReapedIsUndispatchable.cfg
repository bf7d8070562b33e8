SPECIFICATION Spec
CONSTANTS
  Task = {t1}
  Run = {r1}
  NoTask = NoTask
  CronEnabled = TRUE
  MaxRequeues = 0
  MaxCrashes = 0
  MaxTerminate = 0
  MaxFaults = 0
CHECK_DEADLOCK FALSE
PROPERTY ReapedIsUndispatchable
