CONSTANTS
  Invocations <- InvocationSet
  Answers <- AnswerSets
  Literals <- LiteralHosts
  Machine <- Limited
  Measurements <- Measured
  MaxSignals = 2
SPECIFICATION FairSpec
INVARIANTS
  LoadWithinEnvelope
  RunOffersThePlan
  RefusalsAreFree
  
PROPERTIES
  CommandEnds
CHECK_DEADLOCK FALSE
