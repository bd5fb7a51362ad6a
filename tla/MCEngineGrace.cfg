SPECIFICATION Spec
CONSTANTS
  r1 = r1
  r2 = r2
  w1 = w1
  w2 = w2
  w3 = w3
  Runners <- OneRunner
  Workers <- OneWorker
  RunnerOf <- BelongsOne
  MaxOps <- AcceptsOne
  Duration = 2
  OpTimeout = 2
  Grace = 1
  Margin = 1
  GuardWindow = 1
  MaxNow = 5
INVARIANT DrainWithinGrace
