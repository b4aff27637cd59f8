\* Two scan passes while the subscriber is busy.
CONSTANTS
    Device = {1, 2}
    Path <- MCPath
    Content = {1, 2}
    Time = {1, 2}
    NoEntry = NoEntry
    InitialTrees <- OneHasIt
    Writes <- ReplaceOrDelete
    LineageDepth = 3
    MaxEdits = 2
    MaxManifests = 5
    MaxFaults = 0
SPECIFICATION Spec
INVARIANT PendingIsLatest
CHECK_DEADLOCK FALSE
