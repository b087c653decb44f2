SPECIFICATION Spec
CONSTANTS
  Books <- MCBooks
  Jobs = {"t1", "v2", "s1"}
  Sweeps <- MCSweeps
  Workers <- MCWorkers
  BookOf <- MCBookOf
  GenOf <- MCGenOf
  LaneOf <- MCLaneOf
  Covers <- MCCovers
  Texts <- MCTexts
  Legacy <- MCLegacy
  NoJob = NoJob
  MaxRetries = 1
  MaxGen = 2
  MaxOps = 3
  MaxCrashes = 1
CHECK_DEADLOCK FALSE
INVARIANTS
  NoDoubleRun
  NoOrphanedRow
  RetryBudget
  DiscoveredRoutesAreCurrent
PROPERTIES
  CompletedStays
  SweepAfterNormals
