SPECIFICATION FairSpec
CONSTANTS
    Books <- MCBooks
    Builders <- MCBuilders
    Pipeline = "pipeline"
    MaxOps = 2
    MaxFaults = 1
    MaxCrashes = 1
CHECK_DEADLOCK FALSE
INVARIANTS
    ReadyHoldsScope
    DeletionIsWhole
PROPERTIES
    MachineBecomesReady
