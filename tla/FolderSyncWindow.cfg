\* A user edit between the check and the write of apply.
CONSTANTS
    Device = {1, 2}
    Path <- MCPath
    Content = {1, 2}
    Time = {1, 2}
    NoEntry = NoEntry
    InitialTrees <- OneHasIt
    Writes <- ReplaceOrDelete
    LineageDepth = 3
    MaxEdits = 2
    MaxManifests = 5
    MaxFaults = 0
SPECIFICATION Spec
PROPERTY NoSilentLoss
CHECK_DEADLOCK FALSE
