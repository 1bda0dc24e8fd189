SPECIFICATION Spec
CONSTANTS
    s1 = s1
    s2 = s2
    w1 = w1
    w2 = w2
    None = None
    Subs <- TwoSubs
    Workers <- TwoWorkers
    MaxEvents = 2
    MaxTime = 1
    MaxVersion = 3
    Attempts = 3
    MaxFailures = 2
    Faults = {"throw","crash"}
INVARIANTS
    NoEventForgotten
    PaidTierHasCause
    RowIsCurrent
    BindingFollowsRow
PROPERTY
    TakenOverOnlyByNew
SYMMETRY BillingSymmetry
CHECK_DEADLOCK FALSE
