SPECIFICATION FairSpec
CONSTANTS
  Backfills = {"build", "suggest"}
  Persisted = {"build"}
  Recoveries = {"recover"}
  Checks = {"check"}
  None = None
  Slots = {1}
  MaxDelay = 2
  MaxDrops = 1
  Rows <- MCRows
  MaxCalls = 2
CHECK_DEADLOCK FALSE
PROPERTIES
  BackfillResumed
