SPECIFICATION Spec
CONSTANTS
    Files = {f1, f2}
    Bodies = {"b1", "b2"}
    Contents <- MCContents
    Absent = Absent
    Dims = {1, 2}
    NoTable = NoTable
    BatchSize = 1
    FlushRows = 2
    Faults = {"dropFiles"}
    MaxCopies = 1
    MaxChanges = 1
    MaxInterrupts = 1
    MaxCancels = 1
SYMMETRY MCSymmetry
INVARIANTS
    TypeOK
    RecordedMeansStored
    EveryFileAccounted
PROPERTY PublishesSnapshot
CHECK_DEADLOCK FALSE
