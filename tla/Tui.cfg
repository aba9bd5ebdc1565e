SPECIFICATION FairSpec
CONSTANTS
    Envs = {e1, e2}
    Keys = {k1}
    StartVersion = 2
    MaxDepth = 4
    MaxCmds = 2
    MaxPresses = 5
    MaxChanges = 1
INVARIANTS ListsBelongToTheirView OwnChangesAreShown
PROPERTIES LoadingEnds
CHECK_DEADLOCK FALSE
