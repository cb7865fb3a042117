SPECIFICATION Spec
CONSTANTS
    c1 = c1
    c2 = c2
    t1 = t1
    t2 = t2
    k1 = k1
    None = None
    Client = {c1, c2}
    Thread = {t1, t2}
    Key = {k1}
    MaxSid = 4
    MaxWrites = 1
    MaxFault = 1
INVARIANT LookupAnswersItsCookie
CHECK_DEADLOCK FALSE
