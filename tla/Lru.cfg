SPECIFICATION LruSpec
CONSTANTS
    NULL = NULL
    Slots = {k1, k2, k3, EMPTY}
    Items = {d1, d2, d3, d4}
    MaxRefs = 2
    MaxCount = 6
    LruSizes = {0, 1, 2, 3}
    EMPTY_MARKER = EMPTY
SYMMETRY Symmetry
INVARIANTS
    ReferencesStayGood
    CleanedOnce
    LruCounted
    LastTouchedStays
