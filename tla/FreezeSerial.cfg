CONSTANTS
    inv = inv
    sup1 = sup1
    sup2 = sup2
    w1 = w1
    w2 = w2
    r1 = r1
    r2 = r2
    NULL = NULL
    Users <- MCUsers
    Role <- MCRole
    DemoUsers = {inv}
    Requests = {r1, r2}
    Workers = {w1}
    MaxAudit = 5
SPECIFICATION Spec
CHECK_DEADLOCK FALSE
PROPERTY SerialLifecycle
