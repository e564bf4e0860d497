SPECIFICATION HSpec
CONSTANTS
    Node = {n1, n2}
    Endpoint = {e1}
    Avail <- OneLevel
    Profile = {p1}
    Unset = Unset
    Writer = {w1}
    Reader = {r1, r2}
    RelayTTL = 1
    CacheTTL = 1
    MaxRelays = 1
    OnlineThreshold = 1
    Registered <- AllNodes
    Filters <- NoFilters
    Methods <- PostDelete
    SerialRefresh = FALSE
    MaxLatency = 1
    MaxTime = 1
SYMMETRY Symmetry
VIEW Relevant
INVARIANTS CacheCoherent
