SPECIFICATION FairSpec
CONSTANTS
    Clients = {c1, c2}
    Autos = {a1, a2}
    Objects = {o1, o2}
    NoProject = NoProject
    Requests = {"index", "query"}
    MaxEdits = 1
    MaxCancels = 0
    MaxFailures = 0
PROPERTY EditsGetIndexed
CHECK_DEADLOCK FALSE
