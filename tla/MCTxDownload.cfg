CONSTANTS
  parent = parent
  child = child
  other = other
  joint = joint
  cheap = cheap
  payer = payer
  poor = poor
  odd = odd
  heir = heir
  Coin = Coin
  Txs <- MCTxs
  Inputs <- MCInputs
  Weight <- MCWeight
  LatencyScore <- MCLatency
  Verdict <- MCVerdict
  Segwit = {parent, child, odd}
  Peers = {1, 2}
  Preferred = {1}
  Reliable = {2}
  Scenarios <- MCScenarios
  GetDataInterval = 2
SPECIFICATION Spec
INVARIANTS RequestsFollowTheRules OrphanageConsistent 
PROPERTY Delivered
CHECK_DEADLOCK FALSE
