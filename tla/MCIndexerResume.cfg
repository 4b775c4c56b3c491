SPECIFICATION Spec
CONSTANTS
    Files = {f1, f2}
    Bodies = {"b1", "b2"}
    Contents <- MCTwoVersions
    Absent = Absent
    Dims = {1}
    NoTable = NoTable
    BatchSize = 1
    FlushRows = 2
    Faults = {}
    MaxCopies = 1
    MaxChanges = 0
    MaxInterrupts = 1
    MaxCancels = 0
PROPERTY ResumeSkipsRecorded
CHECK_DEADLOCK FALSE
