\* No deadlock check: the server may fail to start, and it stops.
SPECIFICATION Spec
CONSTANTS
    c1 = c1
    c2 = c2
    None = None
    Connections <- MCConnections
    Requests <- MCRequests
    ModelLists <- MCModelLists
    BodySizes <- MCBodySizes
    Versions <- MCVersions
    Keys <- MCKeys
    InvalidUtf8 <- Invalid
INVARIANTS
    TypeOK
    SizeLimitKept
    RightModel
    NoRequestWithoutService
PROPERTIES
    StopTerminates
CHECK_DEADLOCK FALSE
