SPECIFICATION FairSpec
CONSTANTS
  Backfills = {}
  Persisted = {}
  Recoveries = {"recover"}
  Checks = {}
  None = None
  Slots = {1}
  MaxDelay = 2
  MaxDrops = 1
  Rows <- MCNoRows
  MaxCalls = 1
CHECK_DEADLOCK FALSE
PROPERTIES
  CircuitProbedAgain
