SPECIFICATION Spec
CONSTANTS
  None = None
  t1 = t1
  t2 = t2
  f1 = f1
  f2 = f2
  g = g
  Threads = {t1, t2}
  Once = {f1}
  Every = {g}
  MaxTime = 1
  MaxDelta = 2
  MaxMock = 1
INVARIANTS
  NothingLost
PROPERTIES
  SchedulerLive
