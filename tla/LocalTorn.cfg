CONSTANTS
    Paths = {f1}
    Keys = {k1}
    Procs = {p1, p2}
    Inodes = {1, 2, 3, 4}
    Nil = Nil
    MaxHistory = 2
    MaxCommands = 2
    MaxKeys = 1
    Calls = {c1}
    MaxPlans = 1
    MaxApplies = 1
SPECIFICATION MachineSpec
SYMMETRY Symmetry
ACTION_CONSTRAINT LowestInode
CHECK_DEADLOCK FALSE
INVARIANT FilesAreWhole
