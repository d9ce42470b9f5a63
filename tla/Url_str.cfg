CONSTANTS
    Services <- MCServices
    Inputs <- MCInputs
    Reparses <- MCReparses
    Bases <- MCBases
    MaxOps = 2
    Bytes <- MCBytes
    MaxBytes = 3
    LineBlocks = 2
    MaxDepth = 3
    MaxStmts = 2
SPECIFICATION Spec
CHECK_DEADLOCK FALSE
INVARIANT StrReparses
