SPECIFICATION MCSpec
CONSTANTS
    Param <- MCParam
    Program <- MCProgram
    InMain = TRUE
    CodeIsAnnotated = TRUE
    FunAnnotated = FALSE
    BlockAnnotated = {1}
    Features = {}
INVARIANTS
    RecordsFirst
    NamesAgree
    UsesDefined
    ChecksFollowUse
