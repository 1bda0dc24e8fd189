SPECIFICATION FairSiemSpec
CONSTANTS
    Events = {e1, e2}
    Threshold = 2
    Attempts = 2
    MaxStalls = 1
    MaxSaves = 1
    SiemFaults <- AllFaults
INVARIANTS
    RepeatedOnlyUnheard
    FailingIsDisabled
PROPERTY
    EveryEventSettles
CHECK_DEADLOCK FALSE
