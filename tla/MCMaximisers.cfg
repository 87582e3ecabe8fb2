SPECIFICATION Spec
CONSTANTS
    Page = {p1, p2, p3}
    Capacity = 2
    MaxGuests = 3
    MinGuestSize = 0
    MaxGuestSize = 3
    Solver = {"subset_efficiency", "cluster_tree"}
    MaxSubsetSize = 2
    MaxNodes = 4
    MaxClusters = 5
    MaxParents = 2
    MaxNodeSize = 1
SYMMETRY Symmetry
INVARIANTS
    TypeOK
    FilledWell
    ResultValid
PROPERTIES
    EveryTurnProgresses
CHECK_DEADLOCK FALSE
