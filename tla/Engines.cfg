SPECIFICATION FairSpec
CONSTANTS
    Device = {1, 2, 3, 4}
    Folder = {"f", "g"}
    Cases <- MCCases
    Conn = {1, 2}
    Permits = 1
    None = None
INVARIANTS PermitsBalance AgreedPaired Quiesced
PROPERTIES ShutdownEnds DialsEnd
CHECK_DEADLOCK FALSE
