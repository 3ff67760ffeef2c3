SPECIFICATION FairSpec

CONSTANTS
    u1 = u1
    s1 = s1
    Users = {u1}
    Subs = {s1}
    MaxRecords = 2
    InternalRetry = 2
    Dates = {"future", "past"}
    None = None

PROPERTIES
    RequestsAreAnswered
    ExpiredArePurgedByLivePurger
