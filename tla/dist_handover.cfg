SPECIFICATION FairSpec
CONSTANTS
    n1 = n1
    n2 = n2
    s1 = s1
    Nodes = {n1, n2}
    Subs = {s1}
    MaxEvents = 2
    SecondSteps = {0}
    StepSize = 1
    TrimThreshold = 9
    DelThreshold = 9
    CleanUnit = 1
    Faults = {}
    MaxFaults = 0
    MaxCrashes = 0
    MaxFlips = 2
INVARIANTS
    Accounted
PROPERTIES
    Delivered
CHECK_DEADLOCK FALSE
