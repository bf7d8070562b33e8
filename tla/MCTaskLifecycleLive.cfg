SPECIFICATION FairSpec
CONSTANTS
  Task = {t1}
  Run = {r1}
  NoTask = NoTask
  CronEnabled = TRUE
  MaxRequeues = 1
  MaxCrashes = 1
  MaxTerminate = 0
  MaxFaults = 1
PROPERTIES
  ClientsLeave
  HashesSettle
