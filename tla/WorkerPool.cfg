SPECIFICATION Spec
CONSTANTS
    t1 = t1
    t2 = t2
    t3 = t3
    None = None
    Thread = {t1, t2, t3}
    Unsafe = {t1}
    Timed = {t1}
    WorkerCount = 2
    Limit = 2
    RecycleAfter = 1
    AgePolicy = FALSE
    MaxReload = 1
    MaxCrash = 1
SYMMETRY SameKind
INVARIANTS
    TypeOK
    AdmissionExact
    ActiveExact
    NoIdlePlace
    NoStaleReply
    BoundedEffects
    RunsInFreshProcess
    RecycledAtLimit
CHECK_DEADLOCK FALSE
