CONSTANTS
    Keys = {k1}
    Clients = {c1, c2}
    MaxRequests = 4
SPECIFICATION Spec
SYMMETRY Symmetry
CHECK_DEADLOCK FALSE
INVARIANTS
    HistoryIsALog
    AckedWritesAreRecorded
PROPERTY ImplementsStore
