\* Five budgets, of which two are refused, and six requests in three lanes.
SPECIFICATION Spec
CONSTANTS
    b1 = b1
    b2 = b2
    b3 = b3
    b4 = b4
    b5 = b5
    k1 = k1
    k2 = k2
    x1 = x1
    x2 = x2
    p1 = p1
    p2 = p2
    s1 = s1
    s2 = s2
    r1 = r1
    r2 = r2
    None = None
    Budget = {b1, b2, b3, b4, b5}
    Key = {k1, k2}
    Executable = {x1, x2}
    Request = {p1, p2, s1, s2, r1, r2}
    PolicyOf <- Policies
    RequestOf <- Requests
    MaxTime = 3
INVARIANTS
    SharesKept
    OneActiveBudget
PROPERTIES
    SupersededFrozen
CHECK_DEADLOCK FALSE
