SPECIFICATION Spec
CONSTANTS
  Task = {t1}
  Run = {r1, r2}
  NoTask = NoTask
  CronEnabled = TRUE
  MaxRequeues = 1
  MaxCrashes = 1
  MaxTerminate = 1
  MaxFaults = 1
SYMMETRY TaskSymmetry
INVARIANTS
  TypeOK
  AtMostOneExecution
  PassOwnsItsTasks
  InterruptedNotReplayed
