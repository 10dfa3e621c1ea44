SPECIFICATION FairSpec
CONSTANTS
    ann = ann
    a1 = a1
    a2 = a2
    m1 = m1
    m2 = m2
    s1 = s1
    Mails = {m1}
    Customers = {ann}
    Subjects = {s1}
    SentBy <- MCSentBy
    Subject <- MCSubject
    RefersTo <- MCRefersTo
    Attempts = {a1, a2}
    MaxThreads = 5
    MaxMishaps = 3
    MaxTurns = 1
    NONE = NONE
INVARIANTS
    StoredOnce
PROPERTIES
    SavedUnlessLockedOut
CHECK_DEADLOCK FALSE
