SPECIFICATION Spec
CONSTANTS
    eve = eve
    max = max
    h1 = h1
    h2 = h2
    h3 = h3
    Employees = {eve}
    Managers = {max}
    Handlers = {h1, h2, h3}
    UserOf <- MCUserOf
    Fills = {f1, f2}
    Ops = {"in", "out", "pause", "resume", "leave", "overtime", "decide"}
    MaxReq = 3
    MaxWatched = 1
    MaxForms = 1
    MaxMishaps = 1
    NONE = NONE
SYMMETRY MCSymmetry
CHECK_DEADLOCK FALSE
INVARIANTS
    LeaveBlocks
    CacheIsTrue
    BoardFollows
PROPERTIES
    DayIsOrderly
