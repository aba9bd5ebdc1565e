SPECIFICATION FairSyncSpec
CONSTANTS
    Keys = {k1, k2}
    MaxChanges = 2
    MaxRecreations = 1
    Values = {0, 1}
    MaxCommands = 1
INVARIANTS SyncsAreSeenWhole QuietMeansCurrent
PROPERTIES
    DoneMeansSynced
    Converges
    ConvergesOnValues
    ChannelCloses
CHECK_DEADLOCK FALSE
