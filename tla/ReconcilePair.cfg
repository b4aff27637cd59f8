\* Two ends, every triple of base and offers over a directory and two files in it.
CONSTANTS
    Path <- MCPath
    Content <- MCContent
    Time <- MCTime
    NoEntry = NoEntry
    Trees <- MCTrees
    Bases <- MCTrees
    Authors <- MCAuthors
SPECIFICATION Spec
INVARIANTS EndsAgree NothingLostUnlessRetyped LeavesATree
CHECK_DEADLOCK FALSE
