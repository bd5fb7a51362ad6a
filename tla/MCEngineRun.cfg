SPECIFICATION FairSpec
CONSTANTS
  r1 = r1
  r2 = r2
  w1 = w1
  w2 = w2
  w3 = w3
  Runners <- RunnerSet
  Workers <- WorkerSet
  RunnerOf <- Belongs
  MaxOps <- Accepts
  Duration = 1
  OpTimeout = 1
  Grace = 0
  Margin = 0
  GuardWindow = 0
  MaxNow = 1
INVARIANTS TypeOK AbortAlwaysReported FinishIsAlone CutOffIsJustified
PROPERTY StopEndsRun
