SPECIFICATION Spec
CONSTANTS
    Page = {p1, p2, p3}
    Capacity = 2
    MaxGuests = 4
    MinGuestSize = 0
    MaxGuestSize = 2
SYMMETRY Symmetry
INVARIANTS
    TypeOK
    KeepsPacking
    PartsOnRightHost
    DecantedIsStable
    StableIsLeftAlone
    FindsComponents
    ReachesAResult
CHECK_DEADLOCK FALSE
