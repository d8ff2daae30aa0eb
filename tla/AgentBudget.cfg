CONSTANTS
  Agents = {"a", "b"}
  Responses <- Plain
  MaxSteps = 2
  MaxRetries = 1
  MaxParallel = 2
  MaxDeltas = 2
  RunScope = TRUE
SPECIFICATION Spec
INVARIANT FinishedIsPaired
