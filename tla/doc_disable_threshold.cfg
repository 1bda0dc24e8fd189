SPECIFICATION SiemSpec
CONSTANTS
    Events = {e1, e2}
    Threshold = 2
    Attempts = 2
    MaxStalls = 1
    MaxSaves = 2
    SiemFaults <- NoFaults
INVARIANT DisabledAfterThreshold
CHECK_DEADLOCK FALSE
