SPECIFICATION Spec
CONSTANTS
  w1 = w1
  w2 = w2
  e1 = e1
  a = a
  b = b
  Workers <- WorkerSet
  Expressers <- ExpresserSet
  Names <- NameSet
  NoThread = NoThread
  NoName = NoName
  NumSlots = 2
  Lifetime = 1
  Retries = 2
  MaxTime = 3
  MaxRequests = 5
SYMMETRY Symmetry
CHECK_DEADLOCK FALSE
INVARIANT
  TableInv
PROPERTIES
  EvictSparesRegistered
