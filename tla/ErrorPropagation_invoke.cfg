SPECIFICATION Spec
CONSTANTS
    Fn = {"main", "f"}
    Main = "main"
    None = "none"
    Opaque = {"lib"}
    Reg = {"p", "x"}
    Params <- MCParams
    Cell = {"c"}
    Num = {0, 1}
    Value = {0}
    Exact <- MCExactBit
    Opcodes = {"FAdd", "FDiv"}
    MathCalls <- MCMath
    Round <- MCRoundBit
    ArgMax = 1
    RetMax = 2
    MaxDepth = 3
    Features = {"invoke"}
PROPERTY EveryCallDelivers
