\* A deletion soon after a sync.
CONSTANTS
    Device = {1, 2}
    Path <- TwoPaths
    Content = {1}
    Time = {1}
    NoEntry = NoEntry
    InitialTrees <- OneHasIt
    Writes <- JustDelete
    LineageDepth = 3
    MaxEdits = 1
    MaxManifests = 5
    MaxFaults = 0
SPECIFICATION FairSpec
PROPERTY Convergence
CHECK_DEADLOCK FALSE
