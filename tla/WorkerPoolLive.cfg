SPECIFICATION FairSpec
CONSTANTS
    t1 = t1
    t2 = t2
    t3 = t3
    None = None
    Thread = {t1, t2, t3}
    Unsafe = {t2}
    Timed = {t1, t2}
    WorkerCount = 1
    Limit = 1
    RecycleAfter = 1
    AgePolicy = TRUE
    MaxReload = 1
    MaxCrash = 1
PROPERTIES
    EveryRequestReturns
CHECK_DEADLOCK FALSE
