SPECIFICATION Spec
CONSTANTS
    Line = {0, 1, 3, 4, 5}
    Keep = {0, 1, 3, 4}
    Val = {0, 1}
    Size = 3
    MaxValues = 5
INVARIANTS
    EachLineOneSlot
PROPERTY ImplementsLog
CHECK_DEADLOCK FALSE
