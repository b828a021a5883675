SPECIFICATION Spec
CONSTANTS
  None = None
  t1 = t1
  t2 = t2
  c1 = c1
  c2 = c2
  Flusher = Flusher
  Threads = {t1, t2}
  Clients = {c1, c2}
  MaxTime = 0
  MaxCallbacks = 3
INVARIANTS
  OneCallbackAtATime
PROPERTIES
  SerialSpec
  AllExecuted
