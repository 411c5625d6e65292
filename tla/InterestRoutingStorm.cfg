SPECIFICATION FairSpec
CONSTANTS
  Nodes <- Row
  Hears <- RowHears
  Askers = {1}
  Publisher = 3
  Holders = {}
  Width = 81
  Height = 83
  HalfUnit = 1
  NumLevels = 2
  Place <- RowPlaces
  Heads <- NoHeads
  Known <- FirstKnows
  HopsRead = {0, 5}
  MaxHops = 10
  Pipeline = 2
  NumSlots = 3
  Timeout = 1
  Lifetime = 2
  Attempts = 1
  MaxAsks = 2
  MaxTime = 4
PROPERTIES
  InterestsDie
CHECK_DEADLOCK FALSE
