SPECIFICATION MCSpec
CONSTANTS
    Mantissa = 2
    Special <- MCSpecial
    Percent = 25
    Threshold = 1
    Proc = {"p1", "p2"}
    Id <- MCIdOwn
    Job <- MCJob
    Events <- MCEvents
    File = {"a.c", "b.c", "r.c"}
    Relative = {"r.c"}
    Lengths = {0, 3}
    MaxReports = 1
    MaxOthers = 1
INVARIANT EventsAreTrue
PROPERTY ReportFaithful
CHECK_DEADLOCK FALSE
