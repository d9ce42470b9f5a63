\* Reactor, two workers, two clients sending up to two chunks each, two
\* runs of start()/stop(); the callback never throws.
CONSTANTS
    w1 = w1  w2 = w2  c1 = c1  c2 = c2
    NoConn = NoConn
    Workers <- MCWorkers
    Clients <- MCClients
    QueueSize = 1
    MaxChunks = 2
    MaxOut = 1
    MaxRuns = 2
    ThrowPossible = FALSE
SYMMETRY MCSymmetry
SPECIFICATION Spec
INVARIANT TypeOK
INVARIANT ConnectionOwnership
