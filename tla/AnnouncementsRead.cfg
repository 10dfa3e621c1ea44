SPECIFICATION Spec
CONSTANTS
    ann = ann
    eve = eve
    n1 = n1
    t1 = t1
    t2 = t2
    Users = {ann, eve}
    Managers = {ann}
    Ids = {n1}
    Ticks = {t1, t2}
    MaxTime = 2
    MaxTurns = 3
    NONE = NONE
INVARIANTS ReadIsMine
CHECK_DEADLOCK FALSE
