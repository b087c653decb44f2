SPECIFICATION FairSpec
CONSTANTS
    Names <- MCNames
    Contents <- MCContents
    Findings <- MCFindings
    NoZip = NoZip
    Ceilings = {1, 3}
    MaxOps = 4
    MaxCrashes = 1
CHECK_DEADLOCK FALSE
INVARIANTS
    ImportedOnce
    RoutedByUrgency
PROPERTIES
    RaisingPromotes
    
