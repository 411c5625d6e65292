SPECIFICATION FairSpec
CONSTANTS
  Nodes <- Row
  Hears <- RowHears
  NumLevels = 2
  ClusterOf <- TwoLevels
  FloodTtl = 3
  Bits = {1, 3}
  FirstBits = {1}
  Store <- FirstName
  Nonces = {1, 2}
  MaxBlooms = 2
  MaxElections = 1
  MaxFlight = 0
  NoFilter = NoFilter
INVARIANT
  FilterInv
PROPERTIES
  ImplementsDirectory
  FloodsEnd
  FloodsSpread
CHECK_DEADLOCK FALSE
