SPECIFICATION FairSpec
CONSTANTS
    api = api
    worker = worker
    c1 = c1
    c2 = c2
    None = None
    Procs <- TwoProcs
    Api <- OnlyApi
    Callers <- TwoCallers
    Pool <- ThreeAndTwo
    MaxCalls = 1
    MaxFailures = 1
    Faults = {"slow", "lost", "db", "crash"}
INVARIANTS
    SecondTokenIsNewer
    WalletUsable
PROPERTY
    EveryCallEnds
CHECK_DEADLOCK FALSE
