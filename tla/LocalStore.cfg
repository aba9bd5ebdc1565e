CONSTANTS
    Paths = {f1, f2}
    Keys = {k1}
    Procs = {p1, p2}
    Inodes = {1, 2, 3, 4, 5}
    Nil = Nil
    MaxHistory = 2
    MaxCommands = 3
    MaxKeys = 3
    Calls = {c1, c2}
    MaxPlans = 3
    MaxApplies = 4
SPECIFICATION MachineSpec
SYMMETRY Symmetry
ACTION_CONSTRAINT LowestInode
CHECK_DEADLOCK FALSE
INVARIANTS
    HistoryEndsWithLive
    FilesOpenWithTheKey
    ServerReachesItsDatabase
    PasswordStaysOnRecord
PROPERTY AloneCommandsAreAtomic
