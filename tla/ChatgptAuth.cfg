CONSTANTS
  a1 = a1
  a2 = a2
  b = b
  me = me
  other = other
  None = None
  Threads = {a1, a2, b}
  Process <- TwoProcesses
  Accounts = {me, other}
  MaxGrants = 3
  MaxCalls = 3
  MaxCrashes = 1
SPECIFICATION FairSpec
INVARIANTS SpentOnce TokensAreKept
PROPERTIES NewTokenIsEarned CallsReturn
