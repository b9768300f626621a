SPECIFICATION SSpec
CONSTANTS
    MaxDocs = 1
    Values <- MCValues
    Types <- MCTypes
    FormOf <- MCFormOf
    PageSize = 1
    Faults = {}
    MaxFaults = 0
    MaxWrites = 2
    MaxSkew = 0
PROPERTIES
    DeletedRemoved
CHECK_DEADLOCK FALSE
