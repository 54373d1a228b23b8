CONSTANTS
    Items = {milk}
    Uuids = {u1}
    NoUuid = NoUuid
    NoCopy = NoCopy
    Clients = {c1}
    Workers = {w1}
    Quantities = {1}
    MaxEdits = 2
    MaxReqs = 2
    MaxPubs = 1
    Serialized = FALSE
    Stoppable = {c1}
    CrashProne = {c1}
SPECIFICATION Spec
SYMMETRY Symmetry
INVARIANTS
    NoDoubleCount
PROPERTIES
    CloudForgetsOnlyOnCreate
CHECK_DEADLOCK FALSE
