SPECIFICATION Spec
CONSTANTS
    Instructions = 2
    MaxTools = 2
    MaxFaults = 3
    None = None
CHECK_DEADLOCK FALSE
INVARIANTS
    Durable
    CompletedIsTrusted
    TurnsAccounted
PROPERTIES
    NoAnswerAfterLoss
    ImplementsAnalysisRun
