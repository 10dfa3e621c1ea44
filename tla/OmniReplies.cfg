SPECIFICATION RepliesSpec
CONSTANTS
    ann = ann
    bob = bob
    p1 = p1
    p2 = p2
    r1 = r1
    r2 = r2
    m1 = m1
    Replies = {r1, r2}
    Mails = {m1}
    Pages = {p1, p2}
    SentFrom <- MCSentFrom
    AgentOf <- MCAgentOf
    MaxMishaps = 1
    MaxOpens = 1
    NONE = NONE
INVARIANTS
    RepliesOnRecord
    ParentWasReceived
    FailuresAreFlagged
    PagesShowTheOutcome
SYMMETRY MCSymmetry
CHECK_DEADLOCK FALSE
