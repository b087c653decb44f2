SPECIFICATION FairSpec
CONSTANTS
    Calls <- MCCalls
    LoopCalls <- MCLoopCalls
    WorkBudget = 2
    NormalCooldown = 1
    SevereCooldown = 2
    WarningCount = 2
    IdleReset = 1
    MaxRetries = 1
    MaxErrors = 2
    MaxCrashes = 1
INVARIANTS
    OneInferenceAtATime
    OneRestartPerCooldown
    AnswersAccounted
PROPERTIES
    EveryCallEnds
CHECK_DEADLOCK FALSE
