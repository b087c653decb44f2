SPECIFICATION FairSpec
CONSTANTS
    VerifierCalls <- MCVerifierCalls
    AnswerCalls <- MCAnswerCalls
    HealthCalls <- MCHealthCalls
    RequestStop = 4
    TokenStop = 4
    Estimate = 2
    Overshoot = 1
    Usages = {0, 3}
    AccountLimit = 3
    AccountStop = 1
    Window = 2
    PauseTicks = 1
    MaxFaults = 1
    MaxCrashes = 1
INVARIANTS
    ReserveKept
    AccountReserveKept

    
CHECK_DEADLOCK FALSE
