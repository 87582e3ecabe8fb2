SPECIFICATION Spec
CONSTANTS
    Page = {p1, p2, p3, p4}
    Capacity = 3
    MaxGuests = 4
    Unit = 12
    MinGuestSize = 0
    MaxGuestSize = 3
INVARIANTS
    TypeOK
    EveryGuestSomewhere
    HostsStayUsed
    ResultValid
PROPERTIES
    EveryTurnIsNew
    CleanUpChangesNothing
    Terminates
CHECK_DEADLOCK FALSE
