SPECIFICATION Spec
CONSTANTS
    Runs = {r1, r2}
    Operational = {"agent", "context"}
    Filters = {"all", "tools"}
    MaxEvents = 3
    ToolEnd <- ToolOfOneToThree
    PageSize = 1
    None = None
    Growing = {r1}
    MaxActions = 5
    MaxFailures = 1
CHECK_DEADLOCK FALSE
INVARIANTS
    OwnAnswers
    Contiguous
    LoadingIsAwaited
