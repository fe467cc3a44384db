SPECIFICATION Spec
CONSTANTS
    Turn = {t1, t2}
    Call = {o1, o2, o3, o4}
    None = None
    base = base
    child = child
    other = other
    v1 = v1
    v2 = v2
    r1 = r1
    r2 = r2
    e1 = e1
    e2 = e2
    k1 = k1
    k2 = k2
    k3 = k3
    n1 = n1
    n2 = n2
    n3 = n3
    Context <- MCContext
    Revision <- MCRevision
    Result <- MCResult
    Evidence <- MCEvidence
    RevisionOf <- MCRevisionOf
    ParentOf <- MCParentOf
    ContextOf <- MCContextOf
    EvidenceOf <- MCEvidenceOf
    DiagnosisOf <- MCDiagnosisOf
    MaxFaults = 1
SYMMETRY Symmetry
CHECK_DEADLOCK FALSE
INVARIANTS
    Grounded
    AbsenceTraced
    RefusalsDoNotBlock
PROPERTIES
    ActiveBaselineMoves
