SPECIFICATION Spec
CONSTANTS
    Turn = {t1, t2}
    Context = {c1, c2}
    Revision = {v1}
    Result = {r1}
    Evidence = {e1}
    Observation = {o1}
    Fact = {f1}
    Limitation = {}
    DomainRef = {}
    None = None
    MaxRefs = 1
    MaxDiagnostics = 0
SYMMETRY Symmetry
CHECK_DEADLOCK FALSE
INVARIANTS
    TypeOK
    LineageClosed
    ProducersAttributed
PROPERTIES
    RecordsImmutable
    TurnLineageKept
