CONSTANTS
    Alerts = {a1, a2}
    Sockets = {s1}
    MaxLen = 1
    Backlog = 1
    Count = 1
    Limit = 2
    MaxPolls = 2
    NewOnly = NewOnly
SPECIFICATION FeedSpec
CHECK_DEADLOCK FALSE
INVARIANTS
    FeedTypeOK
    SentInOrder
    ShownOnce
PROPERTIES
    NoGapOnceLive
    AlertsArrive
    PollingCatchesUp
