CONSTANTS
    Alerts = {a1, a2}
    Sockets = {s1}
    MaxLen = 2
    Backlog = 2
    Count = 2
    NewOnly = NewOnly
SPECIFICATION Spec
CHECK_DEADLOCK FALSE
INVARIANT BacklogCoversHistory
