SPECIFICATION Spec
CONSTANTS
  t1 = t1
  t2 = t2
  t3 = t3
  t4 = t4
  a = a
  b = b
  p = p
  Task = {t1, t2, t3, t4}
  Model = {a, b, p}
  NoModel = NoModel
  NoTask = NoTask
  Capacity = 5
  Need <- MCNeed
  Session <- MCSession
  MaxConcurrent <- MCMaxConcurrent
  Managed = {b}
  Run = {r1, r2, r3, r4}
  Route <- MCRoute
  SmartFallback = TRUE
  MaxRequeues = 1
  MaxAborts = 1
  MaxPanel = 0
  MaxReloads = 0
SYMMETRY MCRunSymmetry
CHECK_DEADLOCK FALSE
INVARIANTS
  MemoryNotOvercommitted
  UsedIsReserved
PROPERTY
  NeverStopBusy
