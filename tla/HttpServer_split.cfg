CONSTANTS
    Shapes <- MCSplitShapes
    BodyLen = 1
    MaxReqs = 2
    MaxConns = 1
    Splits = {"eol", "body"}
    Pipelined = FALSE
    ResetPossible = FALSE
    SizeBits = 16
    NoReq = NoReq
SPECIFICATION Spec
CHECK_DEADLOCK FALSE
INVARIANT RequestsFramed
