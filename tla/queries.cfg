SPECIFICATION Spec
CONSTANTS
    e1 = e1
    e2 = e2
    opening = opening
    typed1 = typed1
    typed2 = typed2
    None = None
    Foreign = Foreign
    Editors <- TwoEditors
    Texts <- ThreeTexts
    Opening = opening
    MaxRequests = 3
    MaxTyped = 1
    MaxFailures = 1
    Faults = {"crash", "lost", "outside"}
INVARIANTS
    TextIsKept
    RowIsLatest
    CleanTabIsKept
    RemoteIsRecorded
PROPERTY
    GuardedSaveSawIt
SYMMETRY Symmetric
CHECK_DEADLOCK FALSE
