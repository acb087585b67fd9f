SPECIFICATION FairSpec
CONSTANTS
    Kinds = {"remote", "desktop"}
    MaxEvents = 3
    MaxAttempts = 3
    MaxCrashes = 2
    MaxBadSaves = 1
    MaxTimeouts = 2
INVARIANTS
    TypeOK
    SkippedMeansStored
    StoredInOrder
    NeverAGap
    KeptUntilStored
PROPERTIES
    EndIsFinal
    EventuallyStored
    LogSpec
