SPECIFICATION Spec
CONSTANTS
    r1 = r1
    r2 = r2
    r3 = r3
    Runs <- OneRun
    TargetRuns <- NoRuns
    CancelRuns <- NoRuns
    MaxActive = 1
    MaxCreators = 1
    ExecuteAttempts = 2
    PollAttempts = 3
    MaxStalls = 0
    MaxPollCount = 3
    RowsetMaxAttempts = 3
    Confirmations = 2
    MaxPerforms = 2
    Faults = {"mce"}
INVARIANT
    ReadyHasEvidence
PROPERTY
    PerformedWhileRunning
CHECK_DEADLOCK FALSE
