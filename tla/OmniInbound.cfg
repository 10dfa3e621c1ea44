SPECIFICATION Spec
CONSTANTS
    ann = ann
    a1 = a1
    a2 = a2
    m1 = m1
    m2 = m2
    s1 = s1
    Mails = {m1, m2}
    Customers = {ann}
    Subjects = {s1}
    SentBy <- MCSentBy
    Subject <- MCSubject
    RefersTo <- MCRefersTo
    Attempts = {a1, a2}
    MaxThreads = 4
    MaxMishaps = 1
    MaxTurns = 1
    NONE = NONE
INVARIANTS
    AckedIsSaved
    RepliesJoin
    SavedIsAnnounced
SYMMETRY MCSymmetry
CHECK_DEADLOCK FALSE
