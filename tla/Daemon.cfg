CONSTANTS
    c1 = c1
    d1 = d1
    d2 = d2
    Procs <- MCProcs
    Daemons = {d1, d2}
    Users = {c1}
    Paths = {"a", "b", "c"}
    Nested <- MCNested
    RealId <- MCRealId
    MaxFaults = 2
    MaxCommands = 4
    MaxStarts = 2
SYMMETRY Alike
SPECIFICATION Spec
INVARIANTS ChangesKept RegistryReadable OneEngine
CHECK_DEADLOCK FALSE
