SPECIFICATION Spec

CONSTANT
    MaxRequests = 4

INVARIANTS
    TypeOK
    SortedOrRefused
    EveryoneIsAnswered
    ExecutedAfterSuccess

\* A batch ends with its response.
CHECK_DEADLOCK FALSE
