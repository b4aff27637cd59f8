\* Sessions end, with a crash or a lost connection anywhere.
CONSTANTS
    Device = {1, 2}
    Path <- MCPath
    Content = {1, 2}
    Time = {1}
    NoEntry = NoEntry
    InitialTrees <- TwoDiffer
    Writes <- JustDelete
    LineageDepth = 3
    MaxEdits = 0
    MaxManifests = 4
    MaxFaults = 1
SPECIFICATION FairSpec
PROPERTY SessionsEnd
CHECK_DEADLOCK FALSE
