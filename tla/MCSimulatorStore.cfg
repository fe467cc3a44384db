CONSTANTS
    g1 = g1
    g2 = g2
    m1 = m1
    k1 = k1
    p1 = p1
    b1 = b1
    b2 = b2
    b3 = b3
    Process = {g1, g2}
    Model = {m1}
    Created = {k1}
    Patch = {p1}
    Branch = {b1}
    Studies <- SomeStudies
    Operation = {"powerflow.dc"}
    Diverges <- DivergingFlows
    Breaks <- BreakingFlows
    LargeModel = {m1}
    MaxRequests = 3
    MaxFaults = 1
SPECIFICATION StoreSpec
SYMMETRY Processes
CHECK_DEADLOCK FALSE
INVARIANTS
    LinksHold
    AnswersAdmitted
    ClaimsPassAudit
    FailuresAreEvidenced
    ContextsStayUsable
