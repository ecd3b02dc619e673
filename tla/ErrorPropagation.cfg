SPECIFICATION Spec
CONSTANTS
    Fn = {"main", "f"}
    Main = "main"
    None = "none"
    Opaque = {"lib"}
    Reg = {"p", "x"}
    Params <- MCParams
    Cell = {"c", "d"}
    Num = {0, 1, 2}
    Value = {0}
    Exact <- MCExact
    Opcodes = {"FAdd", "FDiv"}
    MathCalls <- MCMath
    Round <- MCRound
    ArgMax = 1
    RetMax = 2
    MaxDepth = 3
    Features = {}
INVARIANTS
    TypeOK
    RecordsAreTrue
    MemoryIsTrue
    ReturnStackDrained
