CONSTANTS
    w1 = w1
    c1 = c1
    IdsOf <- MCIdsOf
    Workers = {w1}
    Clients = {c1}
    Services = {"echo"}
    ServiceOf <- MCServiceOf
    Expiry = 2
    Retries = 2
    Garbage = {2}
    MaxCalls = 2
    MaxAsks = 1
    MaxFaults = 1
SPECIFICATION Spec
INVARIANTS
    TypeOK
    OneJob
PROPERTIES
    CountKept
    IsServiceCall
    Recovered
