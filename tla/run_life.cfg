SPECIFICATION FairSpec
CONSTANTS
    r1 = r1
    r2 = r2
    r3 = r3
    Runs <- OneRun
    TargetRuns <- NoRuns
    CancelRuns <- OneRun
    MaxActive = 1
    MaxCreators = 1
    ExecuteAttempts = 2
    PollAttempts = 2
    MaxStalls = 1
    MaxPollCount = 1
    RowsetMaxAttempts = 2
    Confirmations = 2
    MaxPerforms = 3
    Faults = {"crash", "api"}
PROPERTIES
    ImplementsLifecycle
    EveryRunSettles
    CanceledRunGoesQuiet
CHECK_DEADLOCK FALSE
