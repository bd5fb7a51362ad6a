CONSTANTS
  w1 = w1
  w2 = w2
  Workers <- WorkerSet
  MaxCalls <- Calls
  Queries <- PreparedReads
  Pool <- PoolUnset
  Faults <- FaultSet
  Commands <- CommandList
  RedisPool = 1
  MaxRetries = 1
  Requests <- RequestList
  Statuses <- StatusSet
  MaxRedirects = 1
  MaxNow = 3
SPECIFICATION SQLSpec
INVARIANT
  PoolWaitIsPoolTimeout
