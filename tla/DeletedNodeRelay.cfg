SPECIFICATION Spec
CONSTANTS
    Node = {n1}
    Key = {k1}
    Never = Never
    Unset = Unset
    Caller = {c1}
    InactiveThreshold = 1
    Endpoint = {e1}
    Avail <- OneLevel
    Profile = {p1}
    Writer = {w1}
    Reader <- NoReaders
    RelayTTL = 1
    CacheTTL = 1
    MaxRelays = 1
    OnlineThreshold = 1
    Filters <- NoFilters
    Methods <- Registrations
    SerialRefresh = FALSE
    MaxLatency = 0
    MaxTime = 1
INVARIANTS DeletedNodesHaveNoRelay
