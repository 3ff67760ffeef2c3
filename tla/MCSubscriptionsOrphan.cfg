SPECIFICATION Spec

CONSTANTS
    u1 = u1
    s1 = s1
    Users = {u1}
    Subs = {s1}
    MaxRecords = 1
    InternalRetry = 1
    Dates = {"future"}
    None = None

SYMMETRY Symmetry

INVARIANTS
    ActiveIsRecorded
