SPECIFICATION Spec
CONSTANTS
    c1 = c1
    c2 = c2
    Clients <- MCClients
    Daemons = {d1, d2, d3}
    Files = {f1, f2, f3}
    None = None
    Version <- TwoVersions
    MaxFailures = 1
    MaxStops = 1
SYMMETRY Interchangeable
INVARIANTS TypeOK PidNamesHolder OneDaemon Reachable RestartsContained
CHECK_DEADLOCK FALSE
