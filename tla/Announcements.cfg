SPECIFICATION FairSpec
CONSTANTS
    ann = ann
    eve = eve
    n1 = n1
    t1 = t1
    t2 = t2
    Users = {ann, eve}
    Managers = {ann}
    Ids = {n1}
    Ticks = {t1, t2}
    MaxTime = 3
    MaxTurns = 2
    NONE = NONE
INVARIANTS DraftsStayPrivate NothingForgotten
PROPERTIES KeepsPromise DueGoesLive LiveIsAnnounced
CHECK_DEADLOCK FALSE
