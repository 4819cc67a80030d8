\* One compactor, one operator who pins, a consumer, one crash.
SPECIFICATION Spec
CONSTANTS
    c1 = c1
    p1 = p1
    Info <- Knowledge
    Stored <- Old
    Compactors = {c1}
    Pinners = {p1}
    EphemeralTtl = 1
    DiagnosticTtl = 2
    Gone = Gone
    MaxDay = 1
    MaxArchives = 2
    MaxPins = 1
    MaxCrashes = 1
INVARIANTS
    SettledRetrievable
    SyncSkipsNothing
PROPERTIES
    OnlyExpiredLeave
CHECK_DEADLOCK FALSE
