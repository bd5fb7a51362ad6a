SPECIFICATION FairSpec
CONSTANTS
  w1 = w1
  w2 = w2
  Workers <- WorkerSet
  QueueDepth = 1
  NumArrivals = 3
INVARIANTS TypeOK EachArrivalOnce ReturnedIsAccountedFor StatsNeverAhead PeakIsExact
PROPERTIES KeepsPromise StopEndsRun ProfileEndsRun
