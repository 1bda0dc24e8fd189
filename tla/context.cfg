SPECIFICATION FairSpec
CONSTANTS
    r1 = r1
    r2 = r2
    r3 = r3
    k1 = k1
    k2 = k2
    t1 = t1
    t2 = t2
    None = None
    Requests <- TwoRequests
    Conns <- TwoConns
    Tenants <- TwoTenants
    TenantOf <- OneEach
    Faults <- Failures
INVARIANTS
    HeldByOne
    ContextIsOwn
    AuditComplete
PROPERTY
    AllReturned
CHECK_DEADLOCK FALSE
