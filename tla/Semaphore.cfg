SPECIFICATION FairSemSpec
CONSTANTS
    Threads = {t1, t2, t3, t4}
    InitialCount = 1
    SIZE_MAX = 3
    MaxPosts = 6
    Faults = {"lock", "wait", "signal"}
INVARIANTS
    UnitsTakenOnce
    NoLostWakeup
PROPERTIES
    SleeperServed
