SPECIFICATION Spec
CHECK_DEADLOCK FALSE
CONSTANTS
  None = None
  p = p
  w = w
  a1 = a1
  s1 = s1
  Subscribers = {p, w}
  Peerman = p
  NeedsMain = {p}
  Activators = {a1}
  Submitters = {s1}
  Worker = Worker
  Shutter = Shutter
  Runners = {"serial", "immediate"}
  QueueLimit = 0
  MaxEvents = 3
  MaxRegistrations = 2
  MaxThrows = 1
INVARIANTS
  IterationSound
  
  
PROPERTIES
  InOrder
  EverybodyReturns
