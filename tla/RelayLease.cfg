SPECIFICATION FairSpec
CONSTANTS
    Node = {n1}
    Endpoint = {e1}
    Avail <- OneLevel
    Profile = {p1}
    Unset = Unset
    Writer = {w1, w2}
    Reader <- NoReaders
    RelayTTL = 1
    CacheTTL = 1
    MaxRelays = 1
    OnlineThreshold = 1
    Registered <- AnyNodes
    Filters <- NoFilters
    Methods <- AllMethods
    SerialRefresh = TRUE
    MaxLatency = 0
    MaxTime = 4
PROPERTIES ImplementsLease SilentRelaysEvicted
