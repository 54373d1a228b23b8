CONSTANTS
    c1 = c1
    c2 = c2
    u1 = u1
    u2 = u2
    u3 = u3
    Clients = {c1}
    Uuids = {u1, u2}
    Tries = 2
    MaxFaults = 1
SPECIFICATION Spec
INVARIANTS
    TypeOK
    Truthful
    DoneIsDone
    ClosedIsGone
PROPERTIES
    Completed
