SPECIFICATION SiemSpec
CONSTANTS
    Events = {e1, e2}
    Threshold = 2
    Attempts = 2
    MaxStalls = 1
    MaxSaves = 1
    SiemFaults <- AllFaults
INVARIANTS
    SiemTypeOK
    DuplicatesBounded
CHECK_DEADLOCK FALSE
