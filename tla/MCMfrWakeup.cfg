SPECIFICATION FairSpec

CONSTANTS
    rest0 = rest0
    notify0 = notify0
    Workers = {rest0, notify0}
    Metrics = {}
    MayHang = {}
    None = None

PROPERTIES
    AbnormalShutdownIsInitiated

\* The program ends.
CHECK_DEADLOCK FALSE
