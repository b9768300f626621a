SPECIFICATION Spec
CONSTANTS
    a = a
    b = b
    Docs = {a, b}
    Nodes = {n1, n2}
    TxnShapes <- SingleShapes
    MaxEvents = 2
    BatchSize = 2
    ChanSize = 2
    MaxRetry = 1
    Faults <- HandoverFaults
    MaxFaults = 2
    MaxFlips = 1
    MinuteBehind = FALSE
INVARIANTS
    IdsUnique
    LostOnlyWithBatch
    NoneLeftBehind
    DetailBeforeNode
SYMMETRY Symmetry
