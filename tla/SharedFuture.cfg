SPECIFICATION FairSharedSpec
CONSTANTS
    Resolvers = {r1, r2}
    Waiters = {w1, w2}
    Values = {v1, v2, NULL}
    NULL = NULL
    Creator = main
    Holders = {r1, r2, w1, w2, main}
    UINT_MAX = 5
INVARIANTS
    Agreement
    FreedByOne
PROPERTIES
    ImplementsFuture
    FreedInTheEnd
