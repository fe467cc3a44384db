CONSTANTS
    None = None
    b1 = b1
    b2 = b2
    l1 = l1
    BusRows <- TwoBuses
    BranchRows <- OneLine
    KindOf <- LineKind
    TextOrder <- Texts
    Value = {1, 2, 3}
    Models <- TwoModels
    TableSets <- SomeTables
    AskedTypes <- SomeTypes
    Weights <- SomeWeights
    PageCap = 2
    PageLimit = {1, 3}
    MaxOffset = 1
SPECIFICATION TablesSpec
CHECK_DEADLOCK FALSE
INVARIANTS
    EvaluationsAgree
    RowsKept
    ComparesLikeWithLike
