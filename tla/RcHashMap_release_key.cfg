SPECIFICATION Spec
CONSTANTS
    NULL = NULL
    Keys = {0, 1, 2, 3}
    ZeroKey = 0
    Size = 4
    Hash <- Colliding
    MAX_COLLISIONS = 2
    MaxTables = 2
    Items = {d1, d2, d3, d4, d5}
    MaxRefs = 4
    KeyReleases = {0, 1, 2, 3}
    Faults = {"extend"}
SYMMETRY Symmetry
INVARIANTS
    CountsNotNegative
