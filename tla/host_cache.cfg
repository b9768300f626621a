SPECIFICATION Spec
CONSTANTS
    MaxHosts = 2
    Docs = {i, j}
    Readers = {r}
    Listers = {l}
    Watcher = w
    i = i
    j = j
    r = r
    l = l
    w = w
    ListStep = 1
    MaxWrites = 2
    Faults = {"redis", "mongo", "timeout", "crash"}
    MaxFaults = 1
INVARIANTS
    TypeOK
    OneRefresher
    Current
CHECK_DEADLOCK FALSE
SYMMETRY DocSymmetry
