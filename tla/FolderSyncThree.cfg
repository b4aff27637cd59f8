\* Three devices: manifests travel through the one in the middle.
CONSTANTS
    Device = {1, 2, 3}
    Path <- MCPath
    Content = {1, 2}
    Time = {1}
    NoEntry = NoEntry
    InitialTrees <- TwoDiffer
    Writes <- JustDelete
    LineageDepth = 3
    MaxEdits = 0
    MaxManifests = 4
    MaxFaults = 0
SPECIFICATION Spec
INVARIANTS AgreedHad
PROPERTY GuardedNotLost
CHECK_DEADLOCK FALSE
