SPECIFICATION Spec
CONSTANTS
    None = None
    Inputs = {1, 2, 3}
    Controls = {"a", "b"}
    Scenarios <- OnlyReplacing
    MaxSteers = 1
    Queue = 1
CHECK_DEADLOCK FALSE
INVARIANTS
    RememberedIsReported
