CONSTANTS
    Envs = {e1, e2}
    Keys = {k1}
    Clients = {c1, c2}
    NoEnv = NoEnv
    MaxBulk = 1
    MaxRequests = 3
SPECIFICATION Spec
SYMMETRY Symmetry
CHECK_DEADLOCK FALSE
INVARIANTS
    HistoryIsALog
    LiveIsNewest
    AckedWritesAreRecorded
    NoOrphanRows
    QuietWritesSucceed
    RollbackRestoresTarget
