SPECIFICATION Spec
CONSTANTS
    WorkerCount = 3
    Clients = {owner, client}
    Owner = owner
    Waiters = {owner, client}
    Jobs = {j1, j2, j3}
    Tasks = {t1, t2}
    SIZE_MAX = 5
    Faults = {"alloc", "lock", "init", "create"}
    NULL = NULL
SYMMETRY Symmetry
INVARIANTS
    TypeOK
    TaskOwnership
    ActiveAccounting
    QueueLengthTracks
    RunAtMostOnce
    NoLostWakeup
PROPERTIES
    WaitCompletes
