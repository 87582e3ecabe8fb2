SPECIFICATION HostSpec
CONSTANTS
    Page = {p1, p2, p3}
    Capacity = 2
    MaxGuests = 3
    MinGuestSize = 0
    MaxGuestSize = 3
SYMMETRY Symmetry
INVARIANTS
    HostTypeOK
    FrequenciesCount
    AnswersRight
