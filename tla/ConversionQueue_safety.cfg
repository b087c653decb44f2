SPECIFICATION FairSpec
CONSTANTS
  Docs = {"v1", "v2"}
  Names <- MCNames
  Stems <- MCStems
  NameOf <- MCNameOf
  StemOf <- MCStemOf
  NoDoc = NoDoc
  NoPath = NoPath
  MaxRows = 2
  MaxTasks = 2
  MaxOps = 2
  MaxDrops = 2
  MaxFaults = 1
CHECK_DEADLOCK FALSE
INVARIANTS
  QueuedOnce
  NoStrandedConversion
  ManagedIsCompleted
PROPERTIES
  TaskKept
  CompletedOutputKept
  EveryConversionEnds
  BatchIsServed
  AutoRunServes
