\* Two threads with two pool_ptr variables each, two keys, the limited
\* policy with a limit of two objects, five acquire calls; the run stops
\* when the user code has made them and released what it held, or when
\* every thread blocks in sem_wait holding its permits.
CONSTANTS
    t1 = t1  t2 = t2  k1 = k1  k2 = k2
    Threads <- MCThreads
    Keys <- MCKeys
    Slots = {1, 2}
    Limited = TRUE
    Limit = 2
    MaxCalls = 5
SYMMETRY MCSymmetry
SPECIFICATION Spec
INVARIANT TypeOK
INVARIANT ItemsAccounted
 
CHECK_DEADLOCK FALSE
PROPERTY PoolRefinement
