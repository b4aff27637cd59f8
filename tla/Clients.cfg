CONSTANTS
    Tasks <- MCTasks
    Budget <- MCBudget
    UserCommands = {"ListConflicts", "StartPin", "ReleasePin"}
    MaxConns = 2
    FeedCap = 1
    EventCap = 2
    MaxFaults = 1
    MaxCalls = 1
SPECIFICATION Spec
INVARIANTS RightReply BroadcastShown NobodyForgotten OfflineRetries
CHECK_DEADLOCK FALSE
