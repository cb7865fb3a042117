SPECIFICATION Spec
CONSTANTS
    p1 = p1
    r1 = r1
    r2 = r2
    None = None
    Page = {p1}
    BootPage = {p1}
    Request = {r1, r2}
    MethodsVary = FALSE
    MaxVersion = 2
INVARIANT PostCommitCurrentExists
CHECK_DEADLOCK FALSE
