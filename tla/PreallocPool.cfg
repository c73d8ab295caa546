SPECIFICATION Spec
CONSTANTS
    ElementSize = 2
    ElementCount = 1
    MaxChunks = 2
    Faults = {"realloc", "calloc"}
    NULL = NULL
    Garbage = Garbage
INVARIANTS
    HandedOutOnce
    NoOverlap
    InBounds
    FreesAllChunks
