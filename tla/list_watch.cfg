SPECIFICATION SFairSpec
CONSTANTS
    MaxDocs = 3
    Values <- MCValues
    Types <- MCTypes
    FormOf <- MCFormOf
    PageSize = 2
    Faults = {"find", "cursor", "decode", "stream", "watch", "fatal", "crash"}
    MaxFaults = 2
    MaxWrites = 2
    MaxSkew = 1
INVARIANTS
    TypeOK
    CopyIsCollection
    KnowsSubscriptions
PROPERTIES
    GapOnlyAfter
    Converges
CHECK_DEADLOCK FALSE
