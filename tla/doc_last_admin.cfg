SPECIFICATION Spec
CONSTANTS
    p1 = p1
    p2 = p2
    p3 = p3
    c1 = c1
    c2 = c2
    c3 = c3
    None = None
    People <- ThreePeople
    Calls <- TwoCalls
    SeatLimit = 3
    MaxJoins = 1
PROPERTIES
    NotTheLastAdmin
CHECK_DEADLOCK FALSE
