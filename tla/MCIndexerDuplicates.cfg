SPECIFICATION Spec
CONSTANTS
    Files = {f1, f2}
    Bodies = {"b1", "b2"}
    Contents <- MCTwoVersions
    Absent = Absent
    Dims = {1}
    NoTable = NoTable
    BatchSize = 1
    FlushRows = 2
    Faults = {}
    MaxCopies = 2
    MaxChanges = 1
    MaxInterrupts = 0
    MaxCancels = 0
INVARIANT NoDuplicateRows
CHECK_DEADLOCK FALSE
