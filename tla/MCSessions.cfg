SPECIFICATION Spec
CONSTANTS
    Clients = {c1, c2}
    Autos = {a1, a2}
    Objects = {o1, o2}
    NoProject = NoProject
    Requests = {"index", "remove"}
    MaxEdits = 2
    MaxCancels = 1
    MaxFailures = 1
SYMMETRY MCSymmetry
INVARIANTS
    TypeOK
    NoEventLost
    OneTrailingRun
CHECK_DEADLOCK FALSE
