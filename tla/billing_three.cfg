SPECIFICATION Spec
CONSTANTS
    s1 = s1
    s2 = s2
    w1 = w1
    w2 = w2
    None = None
    Subs <- TwoSubs
    Workers <- TwoWorkers
    MaxEvents = 3
    MaxTime = 1
    MaxVersion = 3
    Attempts = 3
    MaxFailures = 0
    Faults = {}
INVARIANTS
    NoEventForgotten
    PaidTierHasCause
    RowIsCurrent
    BindingFollowsRow
PROPERTY
    TakenOverOnlyByNew
SYMMETRY BillingSymmetry
CHECK_DEADLOCK FALSE
