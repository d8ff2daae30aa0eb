CONSTANTS
  Agents = {"a", "b"}
  Responses <- Mixed
  MaxSteps = 2
  MaxRetries = 1
  MaxParallel = 2
  MaxDeltas = 2
  RunScope = TRUE
SPECIFICATION FairSpec
INVARIANTS TurnIsPaired RanIsRecorded KeptIsShown AskedOnce
PROPERTY TurnEnds
