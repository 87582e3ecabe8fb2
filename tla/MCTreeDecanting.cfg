SPECIFICATION Spec
CONSTANTS
    Page = {p1, p2, p3}
    Capacity = 2
    MaxGuests = 4
    Unit = 12
    MinGuestSize = 0
    MaxGuestSize = 2
    MaxNodes = 5
    MinNodeSize = 1
SYMMETRY Symmetry
INVARIANTS
    NeedsNoDecanting
CHECK_DEADLOCK FALSE
