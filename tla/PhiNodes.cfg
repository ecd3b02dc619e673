SPECIFICATION Spec
CONSTANTS
    Block = {"entry", "head", "body", "exit"}
    OtherBlock = "other"
    EntryBlock = "entry"
    Succ <- MCSucc
    Branch = {"entry", "head", "body", "exit"}
    Reg = {"a", "b", "n"}
    Literal = Literal
    Defs <- MCDefs
    Phis <- MCPhis
    Incoming <- MCIncoming
    InHook <- MCWhole
    Err = {0, 1, 2}
    ZeroErr = 0
INVARIANTS
    TypeOK
    PhiErrorsFollow
    KnowsPredecessor
