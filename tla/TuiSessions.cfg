CONSTANTS
  s1 = s1
  s2 = s2
  chat = chat
  Consumer = chat
  Sessions = {s1, s2}
  Threads = {chat}
  Subagents = {}
  Owner <- OwnersOfOne
  Kind <- TwoBackground
  MaxLive = 2
  MaxWakes = 1
  CallerReasons = {"model", "user", "wake_limit", "owner_failed"}
  MaxMatches = 1
SPECIFICATION WorkerSpec
INVARIANTS IdleMeansDone
PROPERTY WaitLetsGo
