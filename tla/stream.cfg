SPECIFICATION FairSpec
CONSTANTS
    c1 = c1
    c2 = c2
    Conns <- TwoTabs
    Limit = 1
    Final = 3
    MaxCount = 2
    Faults = {"redis", "crash", "expiry"}
INVARIANTS
    StreamsBounded
    CatchesUp
PROPERTY
    OutcomeArrives
CHECK_DEADLOCK FALSE
