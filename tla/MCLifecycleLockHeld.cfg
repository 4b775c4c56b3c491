SPECIFICATION Spec
CONSTANTS
    c1 = c1
    c2 = c2
    Clients <- MCClients
    Daemons = {d1, d2}
    Files = {f1, f2}
    None = None
    Version <- SameVersion
    MaxFailures = 0
    MaxStops = 0
PROPERTY LockHeldMeansRunning
CHECK_DEADLOCK FALSE
