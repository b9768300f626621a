SPECIFICATION Spec
CONSTANTS
    MaxEvents = 3
    MaxTime = 4
    TTL = 1
    EventStep = 2
    Lag = 1
PROPERTIES
    AnswersFollowCursor
