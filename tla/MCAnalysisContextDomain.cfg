SPECIFICATION Spec
CONSTANTS
    Turn = {t1, t2}
    Context = {c1, c2}
    Revision = {v1, v2}
    Result = {r1}
    Evidence = {}
    Observation = {}
    Fact = {}
    Limitation = {l1}
    DomainRef = {d1}
    None = None
    MaxRefs = 1
    MaxDiagnostics = 1
SYMMETRY Symmetry
CHECK_DEADLOCK FALSE
INVARIANTS RevisionsAgree
