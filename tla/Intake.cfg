CONSTANTS
    c1 = c1
    c2 = c2
    a1 = a1
    NULL = NULL
    Complaints = {c1, c2}
    Addresses = {a1}
    Suspect <- MCSuspect
    Workers = {w1, w2}
    MaxCalls = 3
SPECIFICATION Spec
CHECK_DEADLOCK FALSE
INVARIANTS
    TypeOK
    SequentialNumbers
    OneOpenCase
    RecordsAgree
PROPERTY EveryCallEnds
