CONSTANTS
    Items = {milk}
    Uuids = {u1, u2}
    NoUuid = NoUuid
    NoCopy = NoCopy
    Clients = {c1}
    Workers = {w1}
    Quantities = {1, 2}
    MaxEdits = 2
    MaxReqs = 1
    MaxPubs = 1
    Serialized = FALSE
    Stoppable = {}
    CrashProne = {}
SPECIFICATION Spec
SYMMETRY Symmetry
INVARIANTS
    StrongConvergence
CHECK_DEADLOCK FALSE
