SPECIFICATION FairSpec

CONSTANTS
    t1 = t1
    t2 = t2
    s1 = s1
    c1 = c1
    c2 = c2
    c3 = c3
    Threads = {t1, t2}
    Subs = {s1}
    WithClientState = {s1}
    Changes = {c1, c2, c3}
    QueueMaxSize = 1
    None = None

INVARIANTS
    TypeOK
    NothingLost
    BatchInOrder

PROPERTIES
    EverythingIsPosted

\* Once every sink is unsubscribed the worker has nothing left to do.
CHECK_DEADLOCK FALSE
