CONSTANTS
    Workers = {w1, w2}
    Mortal = {}
    Expiry = 3
    MaxRequests = 1
    MaxBacklog = 1
SPECIFICATION Spec
INVARIANTS
    BrokerForever
CHECK_DEADLOCK FALSE
