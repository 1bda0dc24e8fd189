SPECIFICATION Spec
CONSTANTS
    r1 = r1
    r2 = r2
    r3 = r3
    Runs <- OneRun
    TargetRuns <- OneRun
    CancelRuns <- OneRun
    MaxActive = 1
    MaxCreators = 1
    ExecuteAttempts = 2
    PollAttempts = 2
    MaxStalls = 0
    MaxPollCount = 1
    RowsetMaxAttempts = 2
    Confirmations = 2
    MaxPerforms = 2
    Faults = {"db", "redis", "mce"}
INVARIANTS
    LiveRunHasCustodian
    PerformsArePaid
    OutcomeNotAnnouncedEarly
CHECK_DEADLOCK FALSE
