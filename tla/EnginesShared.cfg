SPECIFICATION Spec
CONSTANTS
    Device = {1, 2, 3, 4}
    Folder = {"f", "g"}
    Cases <- MCCases
    Conn = {1, 2}
    Permits = 1
    None = None
INVARIANT FoldersIsolated
CHECK_DEADLOCK FALSE
