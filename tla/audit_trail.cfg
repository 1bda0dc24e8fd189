SPECIFICATION TrailSpec
CONSTANTS
    r1 = r1
    r2 = r2
    k1 = k1
    k2 = k2
    t1 = t1
    None = None
    Requests <- TwoRequests
    Conns <- TwoConns
    Tenants <- Contexts
    TenantOf <- AllOfOne
    Faults <- Failures
    Events = {r1}
    Threshold = 1
    Attempts = 2
    MaxStalls = 0
    MaxSaves = 1
    SiemFaults <- Losses
INVARIANTS
    ToldIsRecorded
    AuditedIsTold
CHECK_DEADLOCK FALSE
