SPECIFICATION Spec
CONSTANTS
    r1 = r1
    r2 = r2
    r3 = r3
    Runs <- ThreeRuns
    TargetRuns <- NoRuns
    CancelRuns <- NoRuns
    MaxActive = 1
    MaxCreators = 2
    ExecuteAttempts = 1
    PollAttempts = 1
    MaxStalls = 0
    MaxPollCount = 0
    RowsetMaxAttempts = 1
    Confirmations = 2
    MaxPerforms = 1
    Faults = {}
INVARIANT
    ActiveBounded
CHECK_DEADLOCK FALSE
SYMMETRY RunSymmetry
