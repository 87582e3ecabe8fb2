SPECIFICATION Spec
CONSTANTS
    Page = {p1, p2, p3}
    Capacity = 2
    MaxGuests = 2
    MinGuestSize = 0
    MaxGuestSize = 2
    Solver = {"cluster_tree"}
    MaxSubsetSize = 1
    MaxNodes = 4
    MaxClusters = 4
    MaxParents = 2
    MaxNodeSize = 1
SYMMETRY Symmetry
INVARIANTS
    ReturnsValidPacking
CHECK_DEADLOCK FALSE
