SPECIFICATION Spec
CONSTANTS
    p1 = p1
    d1 = d1
    d2 = d2
    None = None
    Projections = {p1}
    Messages = {1, 2}
    Dispatchers = {d1, d2}
    MaxVersion = 2
    Obsoleting = {1, 2}
    MaxAttempts = 2
    EditLimit = TRUE
    LostAnswers = TRUE
    NonceWindow = TRUE
SYMMETRY Symmetry
CHECK_DEADLOCK FALSE
INVARIANTS
    TypeOK
    CompletedWasAccepted
PROPERTIES
    UnknownCreateWaits
