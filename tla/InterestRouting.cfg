SPECIFICATION FairSpec
CONSTANTS
  Nodes <- Row
  Hears <- RowHears
  Askers = {1, 2}
  Publisher = 3
  Holders = {}
  Width = 81
  Height = 83
  HalfUnit = 1
  NumLevels = 2
  Place <- RowPlaces
  Heads <- NoHeads
  Known <- FirstKnows
  HopsRead = {0, 5}
  MaxHops = 10
  Pipeline = 2
  NumSlots = 4
  Timeout = 1
  Lifetime = 3
  Attempts = 3
  MaxAsks = 1
  MaxTime = 4
INVARIANTS
  RoutingInv
  Delivered
PROPERTIES
  LeafFloodsStay
  TrafficEnds
CHECK_DEADLOCK FALSE
