SPECIFICATION Spec
CONSTANTS
    e1 = e1
    e2 = e2
    opening = opening
    typed1 = typed1
    typed2 = typed2
    None = None
    Foreign = Foreign
    Editors <- TwoEditors
    Texts <- ThreeTexts
    Opening = opening
    MaxRequests = 2
    MaxTyped = 2
    MaxFailures = 0
    Faults = {}
SYMMETRY Symmetric
INVARIANT CleanTabWasSaved
CHECK_DEADLOCK FALSE
