SPECIFICATION Spec
CONSTANTS
    Page = {p1, p2, p3}
    Capacity = 2
    MaxGuests = 4
    MinGuestSize = 0
    MaxGuestSize = 2
    Solver = {"subset_efficiency"}
    MaxSubsetSize = 2
    MaxNodes = 1
    MaxClusters = 1
    MaxParents = 1
    MaxNodeSize = 1
SYMMETRY Symmetry
INVARIANTS
    ReturnsValidPacking
CHECK_DEADLOCK FALSE
