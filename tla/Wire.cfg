\* Sessions over up to two folders, with two faults anywhere.
CONSTANTS
    Folder = {"f", "g"}
    Blob <- MCBlob
    Refs <- MCRefs
    Cases <- MCCases
    MaxRows = 2
    MaxAdvertRows = 4
    MaxRequest = 1
    MaxBatch = 1
    MaxRetries = 1
    MaxFaults = 2
    NoManifest = NoManifest
    NoFolder = NoFolder
SPECIFICATION Spec
INVARIANTS HonestSucceed SameSession AgreedWhole AgreedMutual
PROPERTY BothEnd
CHECK_DEADLOCK FALSE
