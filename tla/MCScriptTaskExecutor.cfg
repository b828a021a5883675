SPECIFICATION Spec
CONSTANTS
  None = None
  w1 = w1
  w2 = w2
  e1 = e1
  Workers = {w1, w2}
  Submitters = {e1}
  Stopper = Stopper
  MaxTasks = 3
  MaxRange = 2
INVARIANTS
  TasksConserved
  StopDrains
  VerdictOfBatch
PROPERTIES
  EverybodyReturns
