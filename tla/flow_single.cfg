SPECIFICATION FairSpec
CONSTANTS
    a = a
    b = b
    Docs = {a, b}
    Nodes = {n1}
    TxnShapes <- PlainShapes
    MaxEvents = 3
    BatchSize = 2
    ChanSize = 2
    MaxRetry = 2
    Faults <- ReportedFaults
    MaxFaults = 2
    MaxFlips = 2
    MinuteBehind = FALSE
INVARIANTS
    TypeOK
    NoLoss
    TokenAtTail
PROPERTIES
    AppendOnly
    ImplementsChain
    Delivered
