CONSTANTS
    NoContentType = NoContentType
    NoHost = NoHost
    MaxRequests = 2
SPECIFICATION Spec
INVARIANTS AudioIsFound
CHECK_DEADLOCK FALSE
