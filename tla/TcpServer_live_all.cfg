\* Liveness of connection service and teardown: reactor, one worker, two clients sending one chunk each, two
\* runs of start()/stop(); the callback never throws.
CONSTANTS
    w1 = w1  w2 = w2  c1 = c1  c2 = c2
    NoConn = NoConn
    Workers <- MCOneWorker
    Clients <- MCClients
    QueueSize = 1
    MaxChunks = 1
    MaxOut = 1
    MaxRuns = 2
    ThrowPossible = FALSE
SPECIFICATION Spec
PROPERTY DataConsumed
PROPERTY QueuedServiced
PROPERTY ClosingReleased
PROPERTY ShutdownCompletes
