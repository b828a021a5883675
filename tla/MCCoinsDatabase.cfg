SPECIFICATION Spec
CONSTANTS
    x = x
    y = y
    z = z
    w = w
    Outpoints = {x, y, z, w}
    Blocks <- MCBlocks
    Parent <- MCParent
    Txs <- MCTxs
    MaxCrashes <- TwoCrashes
    MaxFailures <- OneFailure
    FailingModes = {"flush"}
    MinBlocksToKeep = 1
    PruneModes = {FALSE, TRUE}
INVARIANTS FlagsTruthful DatabaseAtBest 
PROPERTY DurableSpec
CHECK_DEADLOCK FALSE
