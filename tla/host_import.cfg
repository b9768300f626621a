SPECIFICATION Spec
CONSTANTS
    h = h
    p1 = p1
    p2 = p2
    idle = idle
    a = a
    b = b
    Hosts = {h}
    Modules = {p1, p2, idle, a, b}
    Businesses = {"pool", "biz"}
    Pool = "pool"
    BizOf <- MCBizOf
    Inner = {p1, p2, idle}
    IdleOf <- MCIdleOf
    Places <- NewPlaces
    Requests <- ImportRequests
    MaxRequests = 1
    Faults = {"call"}
    MaxFaults = 1
    Exposed = 1
INVARIANT ImportsWhole
CHECK_DEADLOCK FALSE
