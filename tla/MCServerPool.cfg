CONSTANTS
    Downloaders = {d1, d2}
    Coordinator = coordinator
    ConnLevel <- MCConnLevel
    MaxLevel = 2
    NoConn = NoConn
    Hold = 1

SPECIFICATION FairSpec

INVARIANTS
    LevelsCountFreeConnections
    InUseIffHeld

PROPERTIES
    IdleConnectionsGetClosed
    ImplementsContract
