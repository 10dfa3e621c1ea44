SPECIFICATION FairSpec
CONSTANTS
    ann = ann
    bob = bob
    a1 = a1
    b1 = b1
    k1 = k1
    k2 = k2
    MadeBy <- MCMadeBy
    Users = {ann, bob}
    Clients = {a1, b1}
    UserOf <- MCUserOf
    CallIds = {k1}
    MaxDrops = 1
    MaxTasks = 2
    MaxSignals = 1
    NONE = NONE
PROPERTIES SessionsClear
CHECK_DEADLOCK FALSE
