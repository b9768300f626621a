SPECIFICATION Spec
CONSTANTS
    n1 = n1
    s1 = s1
    s2 = s2
    Nodes = {n1}
    Subs = {s1, s2}
    MaxEvents = 2
    SecondSteps = {1}
    StepSize = 2
    TrimThreshold = 2
    DelThreshold = 3
    CleanUnit = 2
    Faults = {"get", "latest", "nodes", "queue", "expired", "send", "callback", "cursor"}
    MaxFaults = 1
    MaxCrashes = 1
    MaxFlips = 0
INVARIANTS
    TypeOK
    Accounted
    
PROPERTIES
    CursorForward
SYMMETRY Symmetry
CHECK_DEADLOCK FALSE
