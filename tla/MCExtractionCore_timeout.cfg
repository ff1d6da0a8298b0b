CONSTANTS
    low1 = low1
    low2 = low2
    medium = medium
    high1 = high1
    high2 = high2
    junk1 = junk1
    junk2 = junk2
    bomb = bomb
    Text  <- MCText
    Level <- MCLevel
    Complete <- MCComplete
    ErrorMessage = ErrorMessage
    ExtractionTimeout = 4
    RepairTimeout = 2
    Null = Null
SPECIFICATION FairSpec
INVARIANT TimeoutsAreRetryable
