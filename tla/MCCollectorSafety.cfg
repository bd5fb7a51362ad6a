SPECIFICATION Spec
CONSTANTS
  w1 = w1
  w2 = w2
  la = la
  lb = lb
  Workers <- WorkerSet
  Labels <- LabelSet
  Schedule <- WrapSchedule
  LabelOf <- WrapLabels
  BucketWidth = 1
  SealDelay = 0
  Warmup = 0
  LabelTimelineBudget = 5
  MaxNow = 5
SYMMETRY WorkerSymmetry
INVARIANTS TypeOK CountedExactlyOnce SlotHoldsItsBucket LabelsAddUp NoEarlySeal LateMeansLate WindowCoversArrivals LabelTimelineComplete FinishedIsSealed
