CONSTANTS
    Shapes <- MCPlainShapes
    BodyLen = 1
    MaxReqs = 1
    MaxConns = 1
    Splits = {"midline"}
    Pipelined = FALSE
    ResetPossible = TRUE
    SizeBits = 16
    NoReq = NoReq
SPECIFICATION Spec
CHECK_DEADLOCK FALSE
INVARIANT TypeOK
INVARIANT RequestsFramed
PROPERTY RequestsAnswered
PROPERTY ResetReleased
