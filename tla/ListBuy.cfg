CONSTANTS
    Items = {milk}
    Uuids = {u1, u2}
    NoUuid = NoUuid
    NoCopy = NoCopy
    Clients = {c1, c2}
    Workers = {w1}
    Quantities = {1, 3}
    MaxEdits = 3
    MaxReqs = 1
    MaxPubs = 1
    Serialized = TRUE
    Stoppable = {}
    CrashProne = {}
SPECIFICATION Spec
SYMMETRY Symmetry
PROPERTIES
    BuySubtracts
CHECK_DEADLOCK FALSE
