SPECIFICATION Spec
CONSTANTS
  here = here
  there = there
  Me = 2
  NumLevels = 1
  Positions <- PositionSet
  Start = here
  ClusterOf <- Grid
  Packets <- FewPackets
  Requests <- AllRequests
  MaxAttempts = 2
  MaxPackets = 3
  MaxRequests = 1
  None = None
INVARIANTS
  QueueInv
  HeadWasNamed
