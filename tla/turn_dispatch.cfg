SPECIFICATION FairSpec
CONSTANTS
    None = None
    Inputs = {1, 2, 3}
    Controls = {"a", "b"}
    Scenarios <- AllScenarios
    MaxSteers = 1
    Queue = 1
CHECK_DEADLOCK FALSE
INVARIANTS
    TypeOK
    ExecutedOnce
    TurnsDoNotOverlap
    IdleIsNotSteered
    SlotsBalance
    HandledIsReported
PROPERTIES
    QueuedIsTaken
    WakeIsAnswered
