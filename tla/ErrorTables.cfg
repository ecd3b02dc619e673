SPECIFICATION Spec
CONSTANTS
    Ptr = {"pf", "pg", "pfile", "podd"}
    LowPtr = {}
    UnreadablePtr = {}
    NoPtr = "null"
    Slot = {1, 2}
    SlotOf <- MCSlotsApart
    Text = {"f", "g", "file.c", "odd.c", "", "unknown"}
    EmptyText = ""
    Unknown = "unknown"
    Content <- MCContent
    Prefix <- MCShort
    MaxAddr = 2
    Reg = {"r"}
    FnPtr = {"pf", "pg"}
    FilePtr = {"pfile", "podd"}
    Line = {0, 7}
    Err = {0, 1}
    ZeroErr = 0
    Size = 2
    RegHash <- MCRegHash
    Absent = Absent
    MaxClock = 3
    MaxCopy = 2
    NotFinite = {1}
    Escaped = {"odd.c"}
    NoLine = 0
    Open = Open
    Close = Close
    Comma = Comma
    LineEnd = LineEnd
INVARIANTS
    ReportIsLatest
    LogHasRoom
    RowsParse
    TypeOK
    EachKeyOnce
    CountsAreExact
    StampsAreUnique
    MemcpyExact
PROPERTIES
    ReadBack
    ImplementsMap
CHECK_DEADLOCK FALSE
