SPECIFICATION FuturesSpec
CONSTANTS
    WorkerCount = 2
    Clients = {owner, client}
    Owner = owner
    Waiters = {owner}
    j1 = j1
    j2 = j2
    Jobs = {j1, j2}
    Awaits <- MCAwaits
    Tasks = {t1, t2}
    SIZE_MAX = 5
    Faults = {}
    NULL = NULL
CHECK_DEADLOCK FALSE
PROPERTIES
    JobsRun
    WaitsReturn
    CleanupReturns
