CONSTANTS
    Shapes <- MCSimpleShapes
    BodyLen = 1
    MaxReqs = 1
    MaxConns = 2
    Splits = {"midline"}
    Pipelined = FALSE
    ResetPossible = TRUE
    SizeBits = 16
    NoReq = NoReq
SPECIFICATION Spec
CHECK_DEADLOCK FALSE
INVARIANT FdStateReleased
