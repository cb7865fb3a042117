SPECIFICATION Spec
CONSTANTS
    c1 = c1
    c2 = c2
    t1 = t1
    t2 = t2
    k1 = k1
    k2 = k2
    None = None
    Client = {c1, c2}
    Thread = {t1, t2}
    Key = {k1, k2}
    MaxSid = 4
    MaxWrites = 2
    Cap = 1
SYMMETRY Interchangeable
INVARIANTS
    TypeOK
    SessionsNotShared
    OrderTracksStore
PROPERTY ImplementsSessionStore
CHECK_DEADLOCK FALSE
