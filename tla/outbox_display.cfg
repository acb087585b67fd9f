SPECIFICATION FairSpec
CONSTANTS
    p1 = p1
    d1 = d1
    d2 = d2
    None = None
    Projections = {p1}
    Messages = {1, 2}
    Dispatchers = {d1}
    MaxVersion = 2
    Obsoleting = {1}
    MaxAttempts = 2
    EditLimit = FALSE
    LostAnswers = FALSE
    NonceWindow = FALSE
CHECK_DEADLOCK FALSE
INVARIANTS
    QuietShowsNewest
    QuietShowsNothingElse
PROPERTIES
    Settles
