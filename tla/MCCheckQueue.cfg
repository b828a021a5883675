SPECIFICATION Spec
CONSTANTS
  None = None
  w1 = w1
  w2 = w2
  m1 = m1
  m2 = m2
  Workers <- MCWorkers
  Masters <- MCMasters
  nBatchSize = 2
  MaxSessions = 2
  MaxAdd = 3
  MaxQueue = 3
INVARIANTS
  CountersExact
  ResultOfSession
  BatchesOfThisSession
PROPERTIES
  EverybodyReturns
