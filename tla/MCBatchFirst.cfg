SPECIFICATION Spec

CONSTANT
    MaxRequests = 3

INVARIANTS
    DependentsAreFailed

\* A batch ends with its response.
CHECK_DEADLOCK FALSE
