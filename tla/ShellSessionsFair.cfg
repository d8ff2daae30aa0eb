CONSTANTS
  s1 = s1
  s2 = s2
  chat = chat
  Sessions = {s1, s2}
  Threads = {chat}
  Subagents = {}
  Owner <- OwnersOfOne
  Kind <- BackgroundAndShell
  MaxLive = 2
  MaxWakes = 1
  CallerReasons = {"model","user"}
  MaxMatches = 1
SPECIFICATION FairSpec
INVARIANTS QuietEndsNeverWake
PROPERTY KeepsReportsFairly
PROPERTY ClaimedReportReturned
