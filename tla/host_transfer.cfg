SPECIFICATION Spec
CONSTANTS
    h = h
    p1 = p1
    p2 = p2
    idle = idle
    a = a
    b = b
    Hosts = {h}
    Modules = {p1, p2, idle, a, b}
    Businesses = {"pool", "biz"}
    Pool = "pool"
    BizOf <- MCBizOf
    Inner = {p1, p2, idle}
    IdleOf <- MCIdleOf
    Places <- MCPlaces
    Requests <- MCRequests
    MaxRequests = 3
    Faults = {"call", "commit", "abort", "counter", "lifetime", "crash"}
    MaxFaults = 1
    Exposed = 2
INVARIANTS
    TypeOK
    Placed
    OneBusiness
    SkewOnlyBlind
    ModulesExist
PROPERTIES
    AppliesRequest
CHECK_DEADLOCK FALSE
