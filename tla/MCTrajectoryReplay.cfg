SPECIFICATION Spec
CONSTANTS
    None = None
    Recordings = {"product", "schema"}
    Context = Context
    Result = Result
    ResultEvidence = ResultEvidence
    Diagnosis = Diagnosis
    Fact = Fact
    Losable <- ViewAndFact
    MaxTurns = 2
    MaxRequests = 2
    MaxTools = 2
    MaxRetries = 1
    MaxWork = 3
CHECK_DEADLOCK FALSE
INVARIANTS
    ProducedBeforeConsumed
    StateNotAhead
    ClaimSliceExact
PROPERTIES
    EndIsFinal
    PagesStable
