SPECIFICATION Spec
CONSTANTS
  t1 = t1
  t2 = t2
  t3 = t3
  t4 = t4
  a = a
  b = b
  p = p
  Task = {t1, t2, t3, t4}
  Model = {a, b, p}
  NoModel = NoModel
  NoTask = NoTask
  Capacity = 5
  Need <- MCNeed
  Session <- MCSession
  MaxConcurrent <- MCMaxConcurrent
  Managed = {b}
  Run = {r1, r2, r3, r4}
  Route <- MCRouteSingle
  SmartFallback = FALSE
  MaxRequeues = 2
  MaxAborts = 0
  MaxPanel = 1
  MaxReloads = 2
SYMMETRY MCRunSymmetry
CHECK_DEADLOCK FALSE
INVARIANTS
  TypeOK
  OneRunPerModel
  CountersExact
