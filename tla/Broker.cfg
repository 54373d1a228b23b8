CONSTANTS
    Workers = {w1, w2}
    Mortal = {w1}
    Expiry = 2
    MaxRequests = 2
    MaxBacklog = 1
SPECIFICATION Spec
INVARIANTS
    TypeOK
    PointersValid
    QueueServed
PROPERTIES
    Answered
    NotForgotten
CHECK_DEADLOCK FALSE
