CONSTANTS
    Items = {milk}
    Uuids = {u1, u2}
    NoUuid = NoUuid
    NoCopy = NoCopy
    Clients = {c1, c2}
    Workers = {w1}
    Quantities = {1}
    MaxEdits = 2
    MaxReqs = 1
    MaxPubs = 1
    Serialized = TRUE
    Stoppable = {}
    CrashProne = {w1}
SPECIFICATION Spec
SYMMETRY Symmetry
INVARIANTS
    TypeOK
    DotsUnique
    Determined
    OwnerLeads
PROPERTIES
    LocalNeverForgets
    IsSharedList
CHECK_DEADLOCK FALSE
