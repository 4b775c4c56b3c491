SPECIFICATION ServicesSpec
CONSTANTS
    l1 = l1
    p1 = p1
    p2 = p2
    k1 = k1
    k2 = k2
    None = None
    c1 = c1
    c2 = c2
    c3 = c3
    Dead = Dead
    Locals = {l1}
    Providers = {p1, p2}
    Keys = {k1, k2}
    MaxJobs = 4
    MaxStarts = 2
    Roots = {1}
    Capacity = 1
    MaxTasks = 2
    MaxEvents = 1
    Calls = {c1, c2, c3}
    CallKind <- KindOf
    CallRef <- RefOf
    PoolSize = 2
    MaxStops = 1
    Paths <- NestedPaths
    Cwd <- InnerPath
    r1 = r1
    r2 = r2
    m1 = m1
    m2 = m2
    t1 = t1
    t2 = t2
    Readers = {r1, r2}
    Models = {m1, m2}
    Primary = m1
    Dim <- DimOf
    Kinds <- KindsOf
    Trees = {t1, t2}
    Methods = {"usearch"}
    MaxRuns = 2
    MaxRemovals = 1
    MaxFaults = 1
INVARIANTS
    MonitorFollowsModel
    KeyFound
    NothingSpins
    SomebodyMoves
    OneLoad
    ParamsFollowRow
    OneGraph
    NobodyWaits
    CallsFit
PROPERTIES
    ReadersKeepRows
CHECK_DEADLOCK FALSE
