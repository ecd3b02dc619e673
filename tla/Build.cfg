SPECIFICATION Spec
CONSTANTS
    Unit = {u1, u2}
    Threaded = {u1, u2}
    Fragile = {u2}
    Mpi = FALSE
    Via = {"execve", "execvp"}
    Separate = TRUE
    Careful = TRUE
    MaxEdits = 2
    None = None
INVARIANTS
    EverythingHooked
    LeavesProgram
    ThreadedLocked
PROPERTY
    BuildEnds
