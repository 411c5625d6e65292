SPECIFICATION Spec
CONSTANTS
  a = a
  b = b
  t1 = t1
  t2 = t2
  Threads <- ThreadSet
  Keys <- KeySet
  Parent <- Strangers
  NoKey = NoKey
  SeqNos = {0, 1}
  Objects <- ObjectSet
  NumSlots = 2
  Hash <- Tight
  NoObject = NoObject
  NoAnswer = NoAnswer
  Garbage = Garbage
SYMMETRY Symmetry
CHECK_DEADLOCK FALSE
INVARIANTS
  StoreInv
  CacheInv
PROPERTY
  ImplementsCache
