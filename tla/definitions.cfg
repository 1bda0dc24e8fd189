SPECIFICATION FairSpec
CONSTANTS
    r1 = r1
    r2 = r2
    Runs <- TwoRuns
    None = None
    Attempts <- OneHasTwoAttempts
    Confirmations = 2
    MaxFailures = 1
    MaxFolders = 2
    Faults = {"mce", "crash"}
INVARIANTS
    OwnQueryPerformed
    ReadyIsOver
PROPERTIES
    OthersAreSpared
    LeftoversGo
CHECK_DEADLOCK FALSE
