SPECIFICATION Spec
CONSTANTS
    p1 = p1
    r1 = r1
    None = None
    Page = {p1}
    BootPage = {p1}
    Request = {r1}
    MethodsVary = FALSE
    MaxVersion = 3
INVARIANT FreshAcrossRegistrations
CHECK_DEADLOCK FALSE
