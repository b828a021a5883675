CONSTANTS
  g = g
  a1 = a1
  a2 = a2
  a3 = a3
  f2 = f2
  f1 = f1
  Genesis = g
  None = None
  Blocks = {a1, a2, a3, f2, f1}
  Parent <- SmallTree
  HeaderBad = {f1}
  BodyBad = {f2}
  MaxInterrupts = 1
  MaxCrashes = 1
  Scenarios <- AllScenarios
SPECIFICATION FairSpec
INVARIANTS  DeferredWait
PROPERTIES ImportFinishes
