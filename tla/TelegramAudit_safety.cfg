SPECIFICATION Spec
CONSTANTS
  Entries = {"t1", "t2", "n1", "s1", "n2"}
  Visuals <- MCVisuals
  Sweeps <- MCSweeps
  SourceOf <- MCSourceOf
  GenOf <- MCGenOf
  MaxGen = 2
  RequireHuman = FALSE
  MaxWrites = 3
  NoEntry = NoEntry
  Nothing = Nothing
  MaxCards = 1
  MaxTaps = 1
  MaxLost = 1
CHECK_DEADLOCK FALSE
INVARIANTS
  ReviewedTextStands
  UsefulEvidenceStays
  ExactlyOneQueue
PROPERTIES
  HumanRecordKept
