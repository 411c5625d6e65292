SPECIFICATION Spec
CONSTANTS
  NumChunks = 1
  c1 = c1
  c2 = c2
  Calls <- MCCalls
  Made <- MCMade
  NoCall = none
  NoKind = nokind
INVARIANTS
  StreamInv
  ClientsSurvive
  AppliedInOrder
  OthersKept
PROPERTIES
  ImplementsCalls
  CallsReturn
CHECK_DEADLOCK FALSE
