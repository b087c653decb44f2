SPECIFICATION FairSpec
CONSTANTS
  Books <- MCBooks
  Jobs = {"t1", "s1"}
  Sweeps <- MCSweeps
  Workers <- MCWorkers
  BookOf <- MCBookOf
  GenOf <- MCGenOf
  LaneOf <- MCLaneOf
  Covers <- MCCovers
  Texts <- MCTexts
  Legacy <- MCLegacy
  NoJob = NoJob
  MaxRetries = 1
  MaxGen = 2
  MaxOps = 1
  MaxCrashes = 1
CHECK_DEADLOCK FALSE
PROPERTIES
  ArmedSweepReleased
  EveryRunEnds
  AuthorizedRowServed
