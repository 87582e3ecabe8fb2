SPECIFICATION Spec
CONSTANTS
    Page = {p1, p2, p3, p4}
    Capacity = 3
    MaxGuests = 4
    Unit = 12
    MinGuestSize = 0
    MaxGuestSize = 3
    MaxNodes = 5
    MinNodeSize = 0
SYMMETRY Symmetry
INVARIANTS
    TypeOK
    CachesMatch
    ResultValid
    LowerBoundsHold
CHECK_DEADLOCK FALSE
