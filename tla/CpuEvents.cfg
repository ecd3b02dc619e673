SPECIFICATION Spec
CONSTANTS
    Thread = {t0, t1}
    Main = t0
    Loc = {"a", "b", "c"}
    Size = 2
    BinOf <- MCBinOf
    Event = {"nan", "inf"}
    TrapOn = {"inf"}
    TrapAt = {"a", "c"}
    Profile = TRUE
    Guarded = TRUE
    Nil = Nil
    MaxChecks = 3
    t0 = t0
    t1 = t1
INVARIANTS
    TypeOK
    ReportInBounds
    OnlyTrapsAbort
    NoEventLost
    OneEntryEach
