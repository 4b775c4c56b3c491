SPECIFICATION Spec
CONSTANTS
    Clients = {c1, c2}
    Autos = {a1, a2}
    Objects = {o1, o2}
    NoProject = NoProject
    Requests = {"index"}
    MaxEdits = 2
    MaxCancels = 0
    MaxFailures = 0
INVARIANT SingleFlight
CHECK_DEADLOCK FALSE
