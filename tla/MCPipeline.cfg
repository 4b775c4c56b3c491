SPECIFICATION FairSpec
CONSTANTS
    f1 = f1
    f2 = f2
    Absent = Absent
    NoTable = NoTable
    q1 = q1
    NoJob = NoJob
    Files = {f1, f2}
    Bodies = {"b1", "b2"}
    Contents <- TwoVersions
    Dims = {1}
    BatchSize = 1
    FlushRows = 2
    Faults = {"list"}
    MaxCopies = 1
    MaxChanges = 1
    MaxInterrupts = 1
    MaxCancels = 1
    Batches = 3
    Queries = {q1}
    Rows <- TwoOfBatch
    SubBatches <- TwoOfBatch
    SubRows = 1
    Ceiling = 2
    MaxConcurrency = 2
    MaxRetries = 1
    AnswerRows = {0, 1, 2}
    MaxFaults = 3
    MaxPanics = 1
    MaxFiles = 1
    MaxChunks = 2
    StreamBatch = 1
    Room = 1
    MaxAsks = 2
    MaxExits = 1
INVARIANTS
    InOrder
PROPERTIES
    KeepsCatalog
    Converges
    ServesInOrder
    CallersGetOn
    ThreadsEnd
CHECK_DEADLOCK FALSE
