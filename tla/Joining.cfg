CONSTANTS
    home = home
    j1 = j1
    j2 = j2
    loc = loc
    poller = poller
    Home = home
    Places <- MCPlaces
    Joiners <- MCJoiners
    Local = {loc}
    Offers <- MCOffers
    Poller = poller
    Tasks <- MCTasks
    Owner <- MCOwner
    MaxFaults = 1
    MaxJoins = 2
SYMMETRY Alike
SPECIFICATION Spec
INVARIANTS PairedBothWays OwnKeyKept CodeUsedOnce RetryPossible
CHECK_DEADLOCK FALSE
