SPECIFICATION FairSpec
CONSTANTS
    t1 = t1
    t2 = t2
    t3 = t3
    Tasks = {t1, t2, t3}
    Workloads <- MCWorkloads
    Chunks = 2
    MaxAttempts = 2
    MaxCancels = 2
INVARIANTS
    TargetIsWhole
    NothingLeft
    WrittenWhileOpen
    CancelIsKept
PROPERTY
    EndsAtLast
CHECK_DEADLOCK FALSE
