SPECIFICATION Spec

CONSTANTS
    u1 = u1
    u2 = u2
    s1 = s1
    Users = {u1, u2}
    Subs = {s1}
    MaxRecords = 2
    InternalRetry = 2
    Dates = {"future", "past", "naive"}
    None = None

SYMMETRY Symmetry

INVARIANTS
    TypeOK
    ListedIsRegistered
    ListedOnce
    NoConnectionForgotten
    LiveRecordIsConnected

PROPERTIES
    OnlyOwnersAct
    PurgesOnlyLapsed
    ImplementsLifecycle
