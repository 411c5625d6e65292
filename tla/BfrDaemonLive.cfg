SPECIFICATION FairSpec
CONSTANTS
  here = here
  there = there
  Me = 2
  NumLevels = 1
  Positions <- PositionSet
  Start = here
  ClusterOf <- Grid
  Packets <- FewPackets
  Requests <- GoodRequests
  MaxAttempts = 1
  MaxPackets = 1
  MaxRequests = 2
  None = None
PROPERTIES
  WokenHandles
  PassedIsHandled
  ElectionEnds
