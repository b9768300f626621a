SPECIFICATION FairSpec
CONSTANTS
    e1 = e1
    e2 = e2
    Executors = {e1, e2}
    MaxTasks = 1
    Last = 2
    Limit = 1
    Retry = 2
    Faults = {"lock", "unlock", "ready", "post", "answer", "record", "crash", "overrun", "call"}
    MaxFaults = 2
INVARIANTS
    TypeOK
    OneExecutor
    NoRepetition
    SuccessPerformed
PROPERTIES
    EndedStays
    Ends
