SPECIFICATION Spec
CONSTANTS
    t1 = t1
    None = None
    Thread = {t1}
    Unsafe = {t1}
    Timed = {}
    WorkerCount = 1
    Limit = 1
    RecycleAfter = 2
    AgePolicy = FALSE
    MaxReload = 0
    MaxCrash = 1
INVARIANT UnsafeNeverReplayed
CHECK_DEADLOCK FALSE
