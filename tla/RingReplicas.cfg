CONSTANTS
    w1 = w1
    w2 = w2
    w3 = w3
    milkList = milkList
    breadList = breadList
    Servers = {w1, w2, w3}
    Lists = {milkList, breadList}
    Position <- Positions
    NumberOfReplicas = 2
    NoWorker = NoWorker
    Seed <- ChainSeed
    MaxRequests = 1
    Serialized = TRUE
    Stoppable = {}
SPECIFICATION Spec
INVARIANTS
    Replicated
CHECK_DEADLOCK FALSE
