SPECIFICATION RcSpec
CONSTANTS
    NULL = NULL
    RADIX_SIZE = 2
    MaxLevels = 3
    Keys = {0, 1, 3, 6}
    Leaves = {l1, l2, l3}
    Items = {d1, d2, d3, d4}
    MaxRefs = 2
    Faults = {"leaf", "branch"}
SYMMETRY Symmetry
INVARIANTS
    LeavesNotShared
    AddressStays
PROPERTIES
    OthersUntouched
    ImplementsRcMap
