SPECIFICATION Spec
CONSTANTS
    Page = {p1, p2, p3, p4}
    Capacity = 3
    MaxGuests = 4
    Unit = 12
    MinGuestSize = 0
    MaxGuestSize = 4
SYMMETRY Symmetry
INVARIANTS
    TypeOK
    ResultValid
PROPERTIES
    PacksBins
CHECK_DEADLOCK FALSE
