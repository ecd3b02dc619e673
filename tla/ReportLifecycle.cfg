SPECIFICATION Spec
CONSTANTS
    Unit = {a, b, c}
    Cxx = {c}
    MaxRecords = 3
    MaxObjects = 2
    NoReport = NoReport
INVARIANTS
    NothingLost
PROPERTIES
    WrittenOnce
    ExitReports
CHECK_DEADLOCK FALSE
