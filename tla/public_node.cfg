\* A following client, a publishing client and a local process; two records and an event.
SPECIFICATION MCSpec
CONSTANTS
    c1 = c1
    c2 = c2
    Clients = {c1, c2}
    SourceOf <- MCSourceOf
    Records = {1, 2}
    Events = {9}
    PublicRecords = {1, 2}
    Logical <- MCLogical
    Revision <- MCRevision
    Previous <- MCPrevious
    Size <- MCSize
    Links <- MCLinks
    OpenWork = {1, 2}
    Experiments = {2}
    RequestsOf <- MCRequestsOf
    Policies <- MCPolicies
    None = None
    Window <- MCWindow
    SourceLimit <- MCSourceLimit
    GlobalLimit <- MCGlobalLimit
    MaxBody = 2
    MaxSyncEntries = 2
    MaxResults = 2
    MaxResponse = 2
    MaxLedgerEntries = 2
    MaxContent = 3
    MaxLocal = 2
    MaxFaults = 2
INVARIANTS
    RateBound
    WithheldStaysHome
    IngestedOnce
PROPERTIES
    Follows
CHECK_DEADLOCK FALSE
