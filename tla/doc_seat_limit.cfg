SPECIFICATION Spec
CONSTANTS
    p1 = p1
    p2 = p2
    p3 = p3
    c1 = c1
    c2 = c2
    c3 = c3
    None = None
    People <- TwoPeople
    Calls <- TwoCalls
    SeatLimit = 1
    MaxJoins = 1
INVARIANTS
    SeatsWithinLimit
CHECK_DEADLOCK FALSE
