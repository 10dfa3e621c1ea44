SPECIFICATION FairSpec
CONSTANTS
    Users = {u1, u2}
    Sockets = {s1, s2, s3}
    MaxReconnectAttempts = 2
    MaxLogins = 2
    MaxQueue = 2
    NONE = NONE
INVARIANTS
    NoOrphanSocket
    SessionIsolation
    HonestIndicator
    NeverStranded
PROPERTIES
    Reconnects
    DeadPeerDetected
    LogoutClosesSockets
CHECK_DEADLOCK FALSE
