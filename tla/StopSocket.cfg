\* One connection that asks for nothing but the list of models.
\* No deadlock check: the server stops.
SPECIFICATION Spec
CONSTANTS
    c1 = c1
    c2 = c2
    None = None
    Connections <- OneConnection
    Requests <- JustOne
    ModelLists <- OneModel
    BodySizes <- MCBodySizes
    Versions <- MCVersions
    Keys <- MCKeys
    InvalidUtf8 <- Invalid
INVARIANTS
    SocketOpenWhileUsed
CHECK_DEADLOCK FALSE
