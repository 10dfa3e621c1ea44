SPECIFICATION FairSpec
CONSTANTS
    ann = ann
    r1 = r1
    r2 = r2
    p1 = p1
    p2 = p2
    Users = {ann}
    Keys = {r1, r2}
    Owner <- MCOwner
    Polls = {p1, p2}
    Batch = 1
    MaxTime = 2
    MaxTurns = 3
    NONE = NONE
INVARIANTS TypeOK SentWasReminded RemindedOnce
PROPERTIES DueIsDealtWith
CHECK_DEADLOCK FALSE
