CONSTANTS
  s1 = s1
  s2 = s2
  child = child
  Consumer = child
  Sessions = {s1, s2}
  Threads = {child}
  Subagents = {child}
  Owner <- OwnersOfOne
  Kind <- MonitorAndBackground
  MaxLive = 2
  MaxWakes = 1
  CallerReasons = {"model", "user", "wake_limit", "owner_failed"}
  MaxMatches = 1
SPECIFICATION SupervisedSpec
INVARIANT LeavesNothing
PROPERTY ChildReturns
