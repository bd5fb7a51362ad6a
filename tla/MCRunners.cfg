CONSTANTS
  w1 = w1
  w2 = w2
  Workers <- WorkerSet
  MaxCalls <- Calls
  Queries <- QueryList
  Pool <- PoolOf2
  Faults <- FaultSet
  Commands <- CommandList
  RedisPool = 1
  MaxRetries = 1
  Requests <- RequestList
  Statuses <- StatusSet
  MaxRedirects = 1
  MaxNow = 3
SPECIFICATION FairSpec
INVARIANTS
  ConnectionsConserved
  
  PhasesAddUp
PROPERTIES
  EveryCallReturns
