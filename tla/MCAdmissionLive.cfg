SPECIFICATION FairSpec
CONSTANTS
  t1 = t1
  t2 = t2
  t3 = t3
  t4 = t4
  a = a
  b = b
  p = p
  Task = {t1, t2, t3, t4}
  Model = {a, b, p}
  NoModel = NoModel
  NoTask = {t1, t2, t3, t4}
  Capacity = 7
  Need <- MCNeedTight
  Session <- MCSessionTight
  MaxConcurrent <- MCMaxConcurrent
  Managed = {b, p}
  Run = {r1, r2, r3}
  Route <- MCRoute
  SmartFallback = FALSE
  MaxRequeues = 1
  MaxAborts = 0
  MaxPanel = 0
  MaxReloads = 0
CHECK_DEADLOCK FALSE
INVARIANT SessionsWithinMaximum
PROPERTY EveryTaskServed
