\* The same offers, from a base that has the directory; what happens below it when
\* one end replaces it.
CONSTANTS
    Path <- MCPath
    Content <- MCContent
    Time <- MCTime
    NoEntry = NoEntry
    Trees <- MCTrees
    Bases <- MCBases
    Authors <- MCTwoAuthors
SPECIFICATION Spec
INVARIANT NothingLost
CHECK_DEADLOCK FALSE
