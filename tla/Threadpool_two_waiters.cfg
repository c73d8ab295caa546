SPECIFICATION FairSpec
CONSTANTS
    WorkerCount = 2
    Clients = {owner, client}
    Owner = owner
    Waiters = {owner, client}
    Jobs = {j1}
    Tasks = {t1, t2}
    SIZE_MAX = 5
    Faults = {}
    NULL = NULL
PROPERTIES
    WaitReturns
