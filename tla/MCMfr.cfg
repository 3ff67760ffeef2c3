SPECIFICATION FairSpec

CONSTANTS
    rest0 = rest0
    metrics0 = metrics0
    Workers = {rest0, metrics0}
    Metrics = {metrics0}
    MayHang = {rest0}
    None = None

INVARIANTS
    TypeOK
    NobodyIsLeftBehind

PROPERTIES
    BrokenWorkersExit
    EveryShutdownEnds

\* The program ends.
CHECK_DEADLOCK FALSE
