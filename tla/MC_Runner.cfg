SPECIFICATION Spec
CONSTANTS
  Entries = 4
  Timed = TRUE
INVARIANTS
  OwnAnswer
  FaultsStayWithTheirEntry
  NoOrphans
PROPERTY EveryEntryIsJudged
CHECK_DEADLOCK FALSE
