CONSTANTS
    w1 = w1
    w2 = w2
    w3 = w3
    milkList = milkList
    breadList = breadList
    Servers = {w1, w2, w3}
    Lists = {milkList, breadList}
    Position <- Positions
    NumberOfReplicas = 1
    NoWorker = NoWorker
    Seed <- ChainSeed
    MaxRequests = 0
    Serialized = FALSE
    Stoppable = {}
SPECIFICATION Spec
INVARIANTS
    ConsistentDistribution
CHECK_DEADLOCK FALSE
