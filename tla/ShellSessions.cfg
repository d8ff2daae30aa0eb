CONSTANTS
  s1 = s1
  s2 = s2
  chat = chat
  Sessions = {s1, s2}
  Threads = {chat}
  Subagents = {}
  Owner <- OwnersOfOne
  Kind <- MonitorAndBackground
  MaxLive = 2
  MaxWakes = 1
  CallerReasons = {"model", "user"}
  MaxMatches = 1
SPECIFICATION Spec
INVARIANTS KillReachesProcess NothingOutlivesClose ReportsAreOwed MatchesAreKept
PROPERTY KeepsReports
