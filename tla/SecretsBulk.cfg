CONSTANTS
    Envs = {e1}
    Keys = {k1, k2}
    Clients = {c1, c2}
    NoEnv = NoEnv
    MaxBulk = 2
    MaxRequests = 2
SPECIFICATION FairSpec
CHECK_DEADLOCK FALSE
INVARIANT BulkIsAtomic
PROPERTIES
    EveryRequestEnds
    ImplementsStore
