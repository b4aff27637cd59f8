\* Three merges, two edits, two crashes or failures.
CONSTANTS
    Path <- MCPath
    Order <- MCOrder
    Content = {0, 1, 2, 3, 4}
    Time = {1, 2, 9}
    Torn = 4
    Now = 9
    NoEntry = NoEntry
    Cases <- MCCases
    Edits <- MCEdits
    MaxMerges = 3
    MaxEdits = 2
    MaxBreaks = 2
SPECIFICATION Spec
INVARIANTS WholeFiles Installed Resumable
PROPERTY EditsKept
CHECK_DEADLOCK FALSE
