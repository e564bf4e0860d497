SPECIFICATION HSpec
CONSTANTS
    Node = {n1}
    Endpoint = {e1}
    Avail <- OneLevel
    Profile = {p1}
    Unset = Unset
    Writer = {w1}
    Reader = {r1}
    RelayTTL = 1
    CacheTTL = 1
    MaxRelays = 1
    OnlineThreshold = 1
    Registered <- AllNodes
    Filters <- NoFilters
    Methods <- PostPutDelete
    SerialRefresh = FALSE
    MaxLatency = 1
    MaxTime = 1
SYMMETRY Symmetry
INVARIANTS DeletedStaysGone
