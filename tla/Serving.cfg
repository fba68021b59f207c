CONSTANTS
    Workers = {w1, w2}
    NULL = NULL
    Slots = {s1, s2}
    AuthFailures = 1
    Shared = Shared
    MaxStrays = 1
    TTL = 2
    MaxAttempts = 2
    MaxDelay = 1
    Clients <- MCClients
SPECIFICATION Spec
INVARIANTS
    TypeOK
    SchemaBuiltOnce
    LockoutHolds
    AnswersAreFresh
PROPERTIES
    NothingHangs
