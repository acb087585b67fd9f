SPECIFICATION Spec
CONSTANTS
    c1 = c1
    r1 = r1
    r2 = r2
    t1 = t1
    t2 = t2
    h1 = h1
    h2 = h2
    None = None
    Controls <- MCControls
    Intents <- MCIntents
    Runs <- MCRuns
    Turns <- MCTurns
    Requests = {}
    Handlers <- MCHandlers
    ControlOf <- MCControlOf
    Operation <- MCOperation
    StartWhenIdle = {}
    GenerationOf <- MCGenerationOf
    MaxAppend = 1
    MaxJobs = 1
CHECK_DEADLOCK FALSE
PROPERTIES
    EndedSteerIsFinal
