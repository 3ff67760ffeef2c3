SPECIFICATION FairRestSpec

CONSTANTS
    t1 = t1
    u1 = u1
    t2 = t2
    Tokens = {t1, t2, EmptyToken}
    EmptyToken = EmptyToken
    Users = {u1}
    MaxSessions = 2
    PurgeMax = 0
    None = None
    Profiling = {TRUE, FALSE}

INVARIANTS
    RestTypeOK
    HandlersWorkForTheirCaller
    ErrorsKeepTheirStatus
    MetricsAddUp

PROPERTIES
    StaleArePurged
    EveryRequestIsAnswered
