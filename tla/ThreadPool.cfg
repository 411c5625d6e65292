SPECIFICATION FairSpec
CONSTANTS
  w1 = w1
  w2 = w2
  c1 = c1
  c2 = c2
  j1 = j1
  j2 = j2
  own = own
  cjl = cjl
  Workers <- WorkerSet
  Clients <- ClientSet
  Jobs <- JobSet
  Lists <- ListSet
  OwnList = own
  NoList = NoList
  NoJob = NoJob
CHECK_DEADLOCK FALSE
INVARIANTS
  PoolInv
  RunOnce
PROPERTIES
  ImplementsService
  JobsRun
  ValuesFetched
  ShutdownEnds
