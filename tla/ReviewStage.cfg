SPECIFICATION FairSpec
CONSTANTS
  c1 = c1
  c2 = c2
  unknown = unknown
  ClaimIds = {c1, c2}
  Texts = {"t1", "t2"}
  FirstText = "t0"
  Tiers = {"HIGH", "LOW"}
  Notes = {"n1"}
  Raw <- MCRaw
  MaxRaw = 3
  MaxFindings = 2
  MaxRefinements = 2
  NoReport = NoReport
INVARIANT ConsentIsKept
PROPERTIES RowIsRecord ReviewEnds
CHECK_DEADLOCK FALSE
