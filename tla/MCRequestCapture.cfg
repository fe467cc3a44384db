SPECIFICATION Spec
CONSTANTS
    Turns = 2
    MaxRequests = 3
    MaxTools = 2
    MaxRetries = 1
    MaxFaults = 1
    None = None
CHECK_DEADLOCK FALSE
INVARIANTS
    AcksAreDurable
    SettledOnce
    CausesHold
    AnsweredTurnsExact
PROPERTIES
    PromptReturns
