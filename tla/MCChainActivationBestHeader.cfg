CONSTANTS
  NumBlocks = 8
  Parent <- ThreeBranches
  Proof <- UnitProof
  BodyBad = {8}
  ConnectBad = {5}
  MinBlocksToKeep = 1
  MaxUnlinked = 2
  t1 = t1
  t2 = t2
  Threads = {t1, t2}
  None = None
  Scenarios <- InvalidateScenarios
  MaxPrecious = 2
  MaxSequenceId = 9
SPECIFICATION Spec
INVARIANT
  BestHeaderConsistent
