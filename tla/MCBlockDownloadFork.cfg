CONSTANTS
  reliable = reliable
  unreliable = unreliable
  g = g
  b1 = b1
  b2 = b2
  b3 = b3
  c1 = c1
  c2 = c2
  Peers = {reliable, unreliable}
  Blocks = {b1, b2, b3, c1, c2}
  NoPeer = NoPeer
  MaxTime = 1
  Genesis = g
  NoBlock = NoBlock
  Parent <- MCParent
  Reliable = {reliable}
  Scenarios <- ForkScenarios
  MaxInTransit = 2
  Window = 2
  NearTip = 1
SPECIFICATION FairDownloadSpec
PROPERTIES BestChainDownloaded
