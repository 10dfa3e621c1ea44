SPECIFICATION Spec
CONSTANTS
    ann = ann
    bob = bob
    a1 = a1
    b1 = b1
    k1 = k1
    k2 = k2
    MadeBy <- MCMadeBy
    Users = {ann, bob}
    Clients = {a1, b1}
    UserOf <- MCUserOf
    CallIds = {k1, k2}
    MaxDrops = 0
    MaxTasks = 1
    MaxSignals = 0
    NONE = NONE
INVARIANTS ConnectedMeansAnswered UnansweredIsRecorded
PROPERTIES NoSpontaneousHangup
CHECK_DEADLOCK FALSE
