SPECIFICATION Spec
CONSTANTS
    Users = {ann, bob}
    ann = ann
    bob = bob
    Author = ann
    Muted = {}
    History = 1
    Slots = {s1, s2}
    Ops = {"send", "forward", "edit", "delete", "react", "pin", "load"}
    Limit = 1
    MaxMsg = 2
    MaxReq = 2
    MaxLoads = 2
    MaxDrops = 1
SYMMETRY Symmetry
CHECK_DEADLOCK FALSE
INVARIANTS
    NoDuplicates
    Converged
    NotesPointAtLive
