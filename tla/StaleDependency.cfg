SPECIFICATION Spec
CONSTANTS
    p1 = p1
    r1 = r1
    r2 = r2
    None = None
    Process = {p1}
    Request = {r1, r2}
    MaxEdits = 1
    MaxRemote = 0
INVARIANT CleanPageIsFresh
CHECK_DEADLOCK FALSE
