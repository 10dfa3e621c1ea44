SPECIFICATION FairSpec
CONSTANTS
    ann = ann
    bob = bob
    a1 = a1
    a2 = a2
    b1 = b1
    Users = {ann, bob}
    Tabs = {a1, a2, b1}
    Watched = {a1}
    UserOf <- MCUserOf
    Sockets = {1, 2, 3}
    MaxInFlight = 1
    NONE = NONE
INVARIANTS
    NobodyMissing
    NoGhosts
PROPERTY LeaversGoOffline
CHECK_DEADLOCK FALSE
