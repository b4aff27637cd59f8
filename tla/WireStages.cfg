\* One folder that only the initiator has.
CONSTANTS
    Folder = {"f", "g"}
    Blob <- MCBlob
    Refs <- MCRefs
    Cases <- Unshared
    MaxRows = 2
    MaxAdvertRows = 4
    MaxRequest = 1
    MaxBatch = 1
    MaxRetries = 1
    MaxFaults = 0
    NoManifest = NoManifest
    NoFolder = NoFolder
SPECIFICATION Spec
INVARIANT NoPhaseDeadlocks
CHECK_DEADLOCK FALSE
