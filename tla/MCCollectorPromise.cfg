SPECIFICATION FairSpec
CONSTANTS
  w1 = w1
  w2 = w2
  la = la
  lb = lb
  Workers <- WorkerSet
  Labels <- LabelSet
  Schedule <- WarmupSchedule
  LabelOf <- WarmupLabels
  BucketWidth = 2
  SealDelay = 1
  Warmup = 1
  LabelTimelineBudget = 1
  MaxNow = 5
INVARIANTS WarmupNeverCounted 
PROPERTIES ImplementsLedger DispatchedIsFiled RunEnds
