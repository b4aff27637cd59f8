\* Two devices, a user edit and a crash or a lost connection anywhere.
CONSTANTS
    Device = {1, 2}
    Path <- MCPath
    Content = {1, 2}
    Time = {1, 2}
    NoEntry = NoEntry
    InitialTrees <- Varied
    Writes <- ReplaceOrDelete
    LineageDepth = 3
    MaxEdits = 1
    MaxManifests = 4
    MaxFaults = 1
SPECIFICATION Spec
INVARIANTS TypeOK AgreedHad
PROPERTY GuardedNotLost
CHECK_DEADLOCK FALSE
