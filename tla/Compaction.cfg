CONSTANTS
  Sizes = {1, 3}
  Trigger = 5
  KeepTokens = 2
  KeepTurns = 1
  Strategies = {"chain", "rederive"}
  PinCap = 3
  Budget = 3
  MaxCalls = 2
  MaxRows = 7
SPECIFICATION Spec
INVARIANTS ViewIsPaired QuestionStays TurnFoldKeepsTail KeptUnlessDropped
PROPERTY ArchiveKept
