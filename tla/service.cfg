\* Two services of one store, two connections, one crash.
SPECIFICATION MCSpec
CONSTANTS
    v1 = v1
    v2 = v2
    k1 = k1
    k2 = k2
    Servers = {v1, v2}
    Paths <- SamePaths
    NoServer = NoServer
    Connections = {k1, k2}
    Requests <- AllRequests
    NoRequest = NoRequest
    NoEntry = NoEntry
    Stored = {"y"}
    MaxConnections = 1
    MaxRecent = 1
    MaxCrashes = 1
INVARIANTS
    OwnerListens
    SlotsConserved
    ReplaysRefused
    OkMeansCommitted
PROPERTIES
    ConnectionsEnd
