SPECIFICATION Spec
CONSTANTS
    Node = {n1}
    Endpoint = {e1}
    Avail <- OneLevel
    Profile = {p1, p2}
    Unset = Unset
    Writer = {w1, w2}
    Reader <- NoReaders
    RelayTTL = 1
    CacheTTL = 1
    MaxRelays = 1
    OnlineThreshold = 1
    Registered <- AnyNodes
    Filters <- NoFilters
    Methods <- AllMethods
    SerialRefresh = FALSE
    MaxLatency = 0
    MaxTime = 4
SYMMETRY Symmetry
INVARIANTS TypeOK OnlineIsListed
PROPERTIES RegistrationKept
