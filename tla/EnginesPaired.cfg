SPECIFICATION Spec
CONSTANTS
    Device = {1, 2}
    Folder = {"f", "g"}
    Cases <- FreshCases
    Conn = {1, 2}
    Permits = 1
    None = None
PROPERTY PairedNotRefused
CHECK_DEADLOCK FALSE
