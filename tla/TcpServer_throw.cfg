\* A callback that throws, with the exception handler registered: one worker, two clients.
CONSTANTS
    w1 = w1  w2 = w2  c1 = c1  c2 = c2
    NoConn = NoConn
    Workers <- MCOneWorker
    Clients <- MCClients
    QueueSize = 1
    MaxChunks = 1
    MaxOut = 1
    MaxRuns = 1
    ThrowPossible = TRUE
SPECIFICATION Spec
INVARIANT ConnectionOwnership
