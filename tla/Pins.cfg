\* One peer, two commands and two sessions, with an edit, an end of the daemon, a
\* collection or a tick of the clock.
CONSTANTS
    Path <- MCPath
    Content = {1, 2, 3}
    Time = {1, 2, 3}
    NoEntry = NoEntry
    Collector = {g}
    Device = {1, 2}
    Graces = {0, 1}
    MaxClock = 1
    MaxCollections = 1
    Self = 1
    Command = {a, b}
    Edits <- MCEdits
    Offers <- MCOffers
    InitialTree <- MCInitialTree
    Scopes <- MCScopes
    Duration = 1
    MaxLogLines = 1
    KeepLogLines = 1
    MaxSessions = 2
    MaxTroubles = 1
    NoPin = NoPin
    NoManifest = NoManifest
SPECIFICATION Spec
SYMMETRY Commands
INVARIANT HeldReadable
PROPERTIES PinRespected AgreedApplied ReleaseForgetsNothing
CHECK_DEADLOCK FALSE
