SPECIFICATION Spec
CONSTANTS
  Workers = {w1, w2}
  NumChunks = 3
  Cached = {1}
  MaxWindow = 2
  NumSlots = 2
  Retriever = r
  NoThread = none
INVARIANTS
  FetchInv
  HandedOnce
  FileRight
  SegmentInv
PROPERTIES
  Fetches
CHECK_DEADLOCK FALSE
