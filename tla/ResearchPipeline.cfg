SPECIFICATION FairSpec
CONSTANTS
  c1 = c1
  c2 = c2
  ClaimIds = {c1, c2}
  RosterSize = 2
  MaxRetries = 2
  MaxJson = 1
  Verdicts = {"grounded", "ungrounded"}
  Qualities = {25, 100}
  Severities = {100}
  FlagCounts = {0}
  NoReport = NoReport
INVARIANT PublishedIsCurrent
PROPERTIES FinishedIsLeftAlone RunEnds RowIsRecord
CHECK_DEADLOCK FALSE
