SPECIFICATION Spec
CONSTANTS
  Pulls = {p1, p2}
  Keys = {k1, k2}
  MaxFindings = 1
  MaxPart = 1
  MaxEdits = 1
  Protected = TRUE
INVARIANTS
  EveryMergeHasItsOwnVersion
  MainIsWithinItsBaseline
PROPERTY DebtGrowsOnPurpose
CHECK_DEADLOCK FALSE
