SPECIFICATION FairSpec
CONSTANTS
    s1 = s1
    s2 = s2
    w1 = w1
    w2 = w2
    None = None
    Subs <- OneSub
    Workers <- TwoWorkers
    MaxEvents = 2
    MaxTime = 1
    MaxVersion = 2
    Attempts = 2
    MaxFailures = 2
    Faults = {"throw", "crash"}
INVARIANTS
    ClaimedOnce
    TrialOnce
PROPERTY
    EveryEventSettles
CHECK_DEADLOCK FALSE
